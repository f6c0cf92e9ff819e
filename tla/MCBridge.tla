------------------------------- MODULE MCBridge -------------------------------
(* Two requests and a login around one state file. *)
EXTENDS Bridge

At(a, b, f) == [dirs |-> <<a, b>>, file |-> f]
\* Nothing yet; a file others may read; a directory that is refused; a directory in
\* the file's place.
MCStartDisks ==
  {At("safe", "missing", "missing"), At("safe", "safe", "shared"),
   At("symlink", "safe", "safe"), At("safe", "safe", "not_regular")}

Kind(jwt, tells, life) == [jwt |-> jwt, tells |-> tells, life |-> life]
MCKinds == {Kind(TRUE, TRUE, ShortLived), Kind(TRUE, TRUE, LongLived), Kind(FALSE, FALSE, ShortLived)}
=============================================================================
