---------------------------- MODULE SpokeMetadata ----------------------------
(***************************************************************************)
(* The metadata snapshots a spoke publishes to its hub                     *)
(* (cascade/spoke_metadata.go; the hub's side is in the read loop of       *)
(* hub.go).  Every connection has a publisher goroutine and a read loop of *)
(* its own, but the channels that wake a publisher and the id a rejection  *)
(* is matched with belong to the Spoke: while a connection goes and the    *)
(* next is made, two publishers may share them.                            *)
(*                                                                         *)
(* A snapshot is the version of the content it was built from.  A select   *)
(* takes any case that is ready; parking is not modelled, since a          *)
(* goroutine can be delayed before it reaches the select.  json.Marshal of *)
(* the snapshot cannot fail, so the retry after an encoding error is left  *)
(* out.                                                                    *)
(***************************************************************************)
EXTENDS Naturals, Sequences

CONSTANTS MaxConns,    \* bound of the model: connections the spoke makes, one after another
          MaxChanges,  \* bound of the model: changes of the content
          Bad,         \* versions the hub rejects (parseMetadataSnapshot)
          Retries      \* length of metadataRetryDelays (3)

ASSUME MetadataAssumption ==
  /\ MaxConns \in Nat \ {0} /\ MaxChanges \in Nat /\ Retries \in Nat
  /\ Bad \subseteq 0 .. MaxChanges

VARIABLES
  content,    \* version of what MetadataProvider returns
  notifying,  \* changes whose NotifyMetadataChanged has yet to run
  notify, rejectCh,   \* tokens in metadataNotify and metadataRejectCh
  lastId,     \* lastMetadataID
  cur,        \* connections made so far; the last one is current
  up,         \* connections whose read loop runs (disconnected is not closed)
  pub,        \* [Conns -> the locals of runMetadataPublisher]
  toHub, toSpoke,     \* [Conns -> snapshots, rejections on their way]
  open,       \* connections whose session on the hub is not closed
  hand,       \* [Conns -> the snapshot its read loop has taken and not yet stored, or NoVersion]
  meta,       \* [Conns -> the version the hub's session holds, or NoVersion]
  sends, notified     \* [Conns -> snapshots sent, notifications taken]

Conns == 1 .. MaxConns
Versions == 0 .. MaxChanges
NoVersion == MaxChanges + 1

sourceVars == <<content, notifying>>
hubVars == <<open, hand, meta>>
wireVars == <<toHub, toSpoke, hubVars>>
countVars == <<sends, notified>>
metadataVars == <<sourceVars, notify, rejectCh, lastId, cur, up, pub, wireVars, countVars>>

Starting == [pc |-> "publish", dirty |-> TRUE, force |-> FALSE, last |-> NoVersion,
             retries |-> 0, timer |-> FALSE, body |-> NoVersion]

MetadataInit ==
  /\ content = 0 /\ notifying = 0
  /\ notify = FALSE /\ rejectCh = FALSE
  /\ lastId = <<0, 0>>
  /\ cur = 0 /\ up = {}
  /\ pub = [c \in Conns |-> [Starting EXCEPT !.pc = "off"]]
  /\ toHub = [c \in Conns |-> <<>>]
  /\ toSpoke = [c \in Conns |-> <<>>]
  /\ open = {}
  /\ hand = [c \in Conns |-> NoVersion]
  /\ meta = [c \in Conns |-> NoVersion]
  /\ sends = [c \in Conns |-> 0]
  /\ notified = [c \in Conns |-> 0]

------------------------------------------------------------------------------
(* The source, and the connection *)

\* Apply or a catalog refresh replaces the source, then notifies.
Change ==
  /\ content < MaxChanges
  /\ content' = content + 1 /\ notifying' = notifying + 1
  /\ UNCHANGED <<notify, rejectCh, lastId, cur, up, pub, wireVars, countVars>>

Notify ==
  /\ notifying > 0
  /\ notifying' = notifying - 1 /\ notify' = TRUE
  /\ UNCHANGED <<content, rejectCh, lastId, cur, up, pub, wireVars, countVars>>

\* Run connects again once the read loop of the last connection has ended; a session
\* the hub still has is closed for the new one (replaceSession).
Connect ==
  /\ cur < MaxConns /\ cur \notin up
  /\ cur' = cur + 1 /\ up' = up \cup {cur + 1}
  /\ pub' = [pub EXCEPT ![cur + 1] = Starting]
  /\ open' = {cur + 1}
  /\ meta' = [c \in Conns |-> IF c \in open THEN NoVersion ELSE meta[c]]
  /\ UNCHANGED <<sourceVars, notify, rejectCh, lastId, toHub, toSpoke, hand, countVars>>

\* The spoke's side of a connection is gone; what has arrived may still be read.
Lose(c) ==
  /\ c \in up /\ up' = up \ {c}
  /\ UNCHANGED <<sourceVars, notify, rejectCh, lastId, cur, pub, wireVars, countVars>>

------------------------------------------------------------------------------
(* runMetadataPublisher *)

Clean(p) == [p EXCEPT !.pc = "select", !.dirty = FALSE, !.force = FALSE]

\* Nothing new, and no rejection to answer.
Unchanged(p) == content = p.last /\ ~ p.force

MarkNothing(c) == UNCHANGED lastId              \* mutant: the id is not recorded

\* The id is recorded before the write, so that a quick rejection is matched.
MarkId(c) == lastId' = <<c, sends[c] + 1>>

Publish(c) ==
  /\ pub[c].pc = "publish"
  /\ \/ Unchanged(pub[c]) /\ pub' = [pub EXCEPT ![c] = Clean(@)] /\ UNCHANGED lastId
     \/ /\ ~ Unchanged(pub[c])
        /\ pub' = [pub EXCEPT ![c] = [@ EXCEPT !.pc = "send", !.body = content]]
        /\ MarkId(c)
  /\ UNCHANGED <<sourceVars, notify, rejectCh, cur, up, wireVars, countVars>>

\* A write fails at any time, and closes the connection; on one that is down it
\* may still succeed, for nobody.
Send(c) ==
  /\ pub[c].pc = "send"
  /\ \/ /\ pub' = [pub EXCEPT ![c] = [Clean(@) EXCEPT !.last = pub[c].body]]
        /\ sends' = [sends EXCEPT ![c] = @ + 1]
        /\ toHub' = IF c \in up
                      THEN [toHub EXCEPT ![c] = Append(@, [id |-> <<c, sends[c] + 1>>,
                                                           body |-> pub[c].body])]
                      ELSE toHub
        /\ UNCHANGED up
     \/ /\ pub' = [pub EXCEPT ![c].pc = "over"] /\ up' = up \ {c}
        /\ UNCHANGED <<sends, toHub>>
  /\ UNCHANGED <<sourceVars, notify, rejectCh, lastId, cur, toSpoke, hubVars, notified>>

RetryForever(p) ==                    \* mutant: the retries are not counted
  [p EXCEPT !.timer = TRUE]

\* scheduleRetry
ScheduleRetry(p) ==
  IF p.retries >= Retries THEN [p EXCEPT !.timer = FALSE]
                          ELSE [p EXCEPT !.timer = TRUE, !.retries = @ + 1]

TakeNotifyQuietly(p) ==               \* mutant: the publisher goes back to the select
  [p EXCEPT !.dirty = TRUE, !.retries = 0, !.timer = FALSE]

TakeNotify(p) == [p EXCEPT !.dirty = TRUE, !.retries = 0, !.timer = FALSE, !.pc = "publish"]

Disconnected(c) ==
  /\ pub[c].pc = "select" /\ c \notin up
  /\ pub' = [pub EXCEPT ![c].pc = "over"]
  /\ UNCHANGED <<sourceVars, notify, rejectCh, lastId, cur, up, wireVars, countVars>>

Notified(c) ==
  /\ pub[c].pc = "select" /\ notify
  /\ notify' = FALSE
  /\ pub' = [pub EXCEPT ![c] = TakeNotify(@)]
  /\ notified' = [notified EXCEPT ![c] = @ + 1]
  /\ UNCHANGED <<sourceVars, rejectCh, lastId, cur, up, wireVars, sends>>

Rejected(c) ==
  /\ pub[c].pc = "select" /\ rejectCh
  /\ rejectCh' = FALSE
  /\ pub' = [pub EXCEPT ![c] = ScheduleRetry([@ EXCEPT !.dirty = TRUE, !.force = TRUE])]
  /\ UNCHANGED <<sourceVars, notify, lastId, cur, up, wireVars, countVars>>

TimerFires(c) ==
  /\ pub[c].pc = "select" /\ pub[c].timer
  /\ pub' = [pub EXCEPT ![c] = [@ EXCEPT !.timer = FALSE,
                                         !.pc = IF pub[c].dirty THEN "publish" ELSE "select"]]
  /\ UNCHANGED <<sourceVars, notify, rejectCh, lastId, cur, up, wireVars, countVars>>

Publisher(c) ==
  Publish(c) \/ Send(c) \/ Disconnected(c) \/ Notified(c) \/ Rejected(c) \/ TimerFires(c)

------------------------------------------------------------------------------
(* The hub's read loop, and the spoke's *)

AcceptAnything(c, body) ==            \* mutant: the entries are not validated
  hand' = [hand EXCEPT ![c] = body] /\ UNCHANGED meta

AcceptOrClear(c, body) ==             \* mutant: a bad snapshot clears the metadata
  IF body \in Bad THEN meta' = [meta EXCEPT ![c] = NoVersion] /\ UNCHANGED hand
                  ELSE hand' = [hand EXCEPT ![c] = body] /\ UNCHANGED meta

\* All or nothing: a bad snapshot leaves the one before in place.
Accept(c, body) ==
  /\ hand' = IF body \in Bad THEN hand ELSE [hand EXCEPT ![c] = body]
  /\ UNCHANGED meta

Receive(c) ==
  /\ c \in open /\ hand[c] = NoVersion /\ toHub[c] # <<>>
  /\ toHub' = [toHub EXCEPT ![c] = Tail(@)]
  /\ LET snapshot == Head(toHub[c]) IN
       /\ Accept(c, snapshot.body)
       /\ toSpoke' = IF snapshot.body \in Bad
                       THEN [toSpoke EXCEPT ![c] = Append(@, snapshot.id)] ELSE toSpoke
  /\ UNCHANGED <<sourceVars, notify, rejectCh, lastId, cur, up, pub, open, countVars>>

\* ReplaceMetadata does not look whether the session has been closed meanwhile.
ReplaceMetadata(c) ==
  /\ hand[c] # NoVersion
  /\ meta' = [meta EXCEPT ![c] = hand[c]] /\ hand' = [hand EXCEPT ![c] = NoVersion]
  /\ UNCHANGED <<sourceVars, notify, rejectCh, lastId, cur, up, pub, open, toHub, toSpoke, countVars>>

\* closeWithReason: the read loop returns, or Close of the hub ends it from outside.
EndSession(c) ==
  /\ c \in open
  /\ open' = open \ {c} /\ up' = up \ {c}
  /\ meta' = [meta EXCEPT ![c] = NoVersion]
  /\ UNCHANGED <<sourceVars, notify, rejectCh, lastId, cur, pub, toHub, toSpoke, hand, countVars>>

\* handleMetadataReject: only the last snapshot's rejection counts.
HandleReject(c) ==
  /\ c \in up /\ toSpoke[c] # <<>>
  /\ toSpoke' = [toSpoke EXCEPT ![c] = Tail(@)]
  /\ rejectCh' = (rejectCh \/ Head(toSpoke[c]) = lastId)
  /\ UNCHANGED <<sourceVars, notify, lastId, cur, up, pub, toHub, hubVars, countVars>>

MetadataNext ==
  \/ Change \/ Notify \/ Connect
  \/ \E c \in Conns : \/ Lose(c) \/ Publisher(c) \/ HandleReject(c)
                      \/ Receive(c) \/ ReplaceMetadata(c) \/ EndSession(c)

\* Goroutines run and what was sent arrives; connections need not be lost, sessions
\* closed, nor the content change.
MetadataSpec ==
  /\ MetadataInit /\ [][MetadataNext]_metadataVars
  /\ WF_metadataVars(Notify) /\ WF_metadataVars(Connect)
  /\ \A c \in Conns : /\ WF_metadataVars(Publisher(c)) /\ WF_metadataVars(HandleReject(c))
                      /\ WF_metadataVars(Receive(c)) /\ WF_metadataVars(ReplaceMetadata(c))

------------------------------------------------------------------------------
MetadataTypeOK ==
  /\ content \in Versions /\ notifying \in 0 .. MaxChanges
  /\ notify \in BOOLEAN /\ rejectCh \in BOOLEAN
  /\ cur \in 0 .. MaxConns /\ up \subseteq open /\ open \subseteq {cur} \ {0}
  /\ \A c \in Conns :
       /\ pub[c].pc \in {"off", "publish", "send", "select", "over"}
       /\ pub[c].last \in Versions \cup {NoVersion}
       /\ pub[c].retries \in 0 .. Retries
       /\ {hand[c], meta[c]} \subseteq (Versions \ Bad) \cup {NoVersion}

\* Whatever the hub answers, a publisher sends at most one snapshot and its
\* retries for every time it is told of a change.
SendsBounded ==
  \A c \in Conns : sends[c] <= (1 + notified[c]) * (1 + Retries)

\* What the publisher, the wire and the hub hold is in range, the hub's never a version
\* it rejects, and no more is sent than the changes the publisher was told of pay for.
PublisherBounded == MetadataTypeOK /\ SendsBounded

\* A session's metadata goes on to newer versions only, and to nothing only in the step
\* that closes the session: a rejected snapshot, however late, leaves the last good one
\* in place.
NeverOlder ==
  [][\A c \in Conns : meta[c] # NoVersion =>
       \/ meta'[c] # NoVersion /\ meta'[c] >= meta[c]
       \/ c \in open /\ c \notin open' /\ meta'[c] = NoVersion]_metadataVars

\* ClearMetadata says that a session that is over keeps no data.  It does not hold, and
\* is no property of a run: a snapshot the read loop has in hand when another goroutine
\* closes the session is stored after the clearing.  The hub no longer asks that session.
ClosedHoldsNothing == \A c \in Conns \ open : meta[c] = NoVersion

\* While the spoke is connected, the hub comes to hold the content as it is, if it
\* accepts it: no change is forgotten.
Converges ==
  <>[](cur \in up /\ content \notin Bad => meta[cur] = content)

\* A snapshot the hub rejects is sent again until the retries are used up.
RejectionAnswered ==
  <>[](cur \in up /\ content \in Bad => sends[cur] > Retries)

\* Hub and spoke come to rest on the content as it is: the hub holds it, or has
\* rejected it as often as the spoke tries.
ComesToRest == Converges /\ RejectionAnswered
==============================================================================
