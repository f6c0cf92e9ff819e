----------------------------- MODULE OAuthState -----------------------------
(***************************************************************************)
(* What the bridge keeps on disk (bridge/xaioauth.go): one state file of   *)
(* xAI OAuth credentials, the directories it lies in, and when the access  *)
(* token in it is due for a refresh.                                       *)
(*                                                                         *)
(* A token is the number of the grant that issued it, 0 is no token.  What *)
(* remains of an access token is counted in the stretches the code's       *)
(* windows cut its life into, so that a stretch stands for many seconds.   *)
(***************************************************************************)
EXTENDS Naturals

NoToken == 0

\* What remains of an access token: nothing, up to 120 s, up to 45 min, up to
\* 3600 s, more.
Expired == 0
ShortSkew == 1
ShortLived == 2
FullSkew == 3
LongLived == 4
Remaining == Expired .. LongLived

\* A directory component and the state file, as Lstat shows them.
Dirs == {"missing", "safe", "symlink", "not_dir", "writable"}
Files == {"missing", "safe", "symlink", "not_regular", "shared"}

\* Path components exist only below existing ones.
Disks ==
  {d \in [dirs : [{1, 2} -> Dirs], file : Files] :
     /\ d.dirs[1] \in {"missing", "not_dir"} => d.dirs[2] = "missing"
     /\ d.dirs[2] \in {"missing", "not_dir"} => d.file = "missing"}

CheckDirComponentSafe(dir, create) == dir = "safe" \/ (create /\ dir = "missing")

EnsureStateDirSafe(disk, create) ==
  \A i \in DOMAIN disk.dirs : CheckDirComponentSafe(disk.dirs[i], create)

CheckStateFileSafe(disk) == EnsureStateDirSafe(disk, FALSE) /\ disk.file = "safe"

\* The rename puts a file of mode 0600 over a file or a link, not over a directory.
CanWrite(disk) == EnsureStateDirSafe(disk, TRUE) /\ disk.file # "not_regular"

\* mutant: the file is written in place and keeps its mode.
WrittenInPlace(disk) ==
  [dirs |-> [i \in DOMAIN disk.dirs |-> "safe"],
   file |-> IF disk.file = "missing" THEN "safe" ELSE disk.file]

Written(disk) == [dirs |-> [i \in DOMAIN disk.dirs |-> "safe"], file |-> "safe"]

\* Usable credentials: either token, the other one can be had with it.
AuthJSONReadable(disk, state) ==
  CheckStateFileSafe(disk) /\ (state.access # NoToken \/ state.refresh # NoToken)
HandleHealthz(disk, state) == IF AuthJSONReadable(disk, state) THEN 200 ELSE 503

\* The window of an access token of which left remains. Only a JWT tells what
\* remains, and one that expired is taken for a long-lived one again.
ProactiveRefreshSkew(jwt, left) ==
  IF jwt /\ left \in {ShortSkew, ShortLived} THEN ShortSkew ELSE FullSkew

\* Without expires_in or last_refresh the token is tried as it is.
NeedsRefresh(state, jwt, left) ==
  state.dated /\ left <= ProactiveRefreshSkew(jwt, left)
=============================================================================
