---------------------------- MODULE Bridge_proofs ----------------------------
(***************************************************************************)
(* For any number of requests, grants and failures, whatever is found on   *)
(* disk: no rotated refresh token is presented, a 401 is passed on after   *)
(* two tokens only, polls keep their distance, a login can be used.  The   *)
(* run bridge checks the same of two requests and three grants.            *)
(***************************************************************************)
EXTENDS Bridge, FiniteSetTheorems, SequenceTheorems, TLAPS

\* A login that polls again has waited as long as it was told, and its first poll has no
\* predecessor.
LoginInv ==
  /\ LoginTypeOK
  /\ login \in {"idle", "discovery", "ask", "show"} => firstPoll
  /\ firstPoll => slowDowns = 0
  /\ login \in {"poll", "wait"} => interval = Told
  /\ login = "wait" => asked <= clock
  /\ PollsPaced

\* Rotated refresh tokens whose successor is in the file or on its way there, and the
\* grant of a login that is not in the file yet.
Rotated == spent \ unrecorded
Awaited == IF login = "granted" THEN {authorized} ELSE {}

\* Grants are numbered as they are issued; who holds a token holds one of them.
ServerInv ==
  /\ left \in Seq(Remaining) /\ kind \in Kinds
  /\ live \subseteq Issued /\ spent \subseteq Issued
  /\ Awaited \subseteq Issued \ spent

Holding == {"reload", "post", "answer"}

\* Whoever reads the file to refresh has the lock.
LockInv == \A r \in Requests : req[r].pc \in Holding => lock = r

\* The file names a rotated token only while its successor is on its way.
StoreInv ==
  /\ {store.access, store.refresh} \subseteq Issued \cup {NoToken}
  /\ store.refresh \notin Awaited
  /\ store.refresh \in Rotated =>
       \E r \in Requests : req[r].pc = "answer" /\ req[r].state.refresh = store.refresh

RequestStates ==
  [pc : Steps, state : States, forced : BOOLEAN, token : Grants \cup {NoToken},
   successor : States, tried : SUBSET Grants,
   status : {None, "refused", "bad_gateway", "served", "unauthorized"}]

\* What a request holds: tokens that were issued, none rotated when it presents or writes
\* it, none that a login is about to write.
HoldsSound(x, issued, rotated, awaited) ==
  /\ {x.state.access, x.state.refresh, x.successor.access, x.successor.refresh, x.token}
       \subseteq issued \cup {NoToken}
  /\ x.pc = "call" => x.token # NoToken
  /\ x.pc = "answer" => x.successor.access # NoToken
  /\ x.pc = "post" => x.state.refresh \notin rotated
  /\ x.pc = "answer" => x.successor.refresh \notin rotated
  /\ {x.state.refresh, x.successor.refresh} \cap awaited = {}

\* The tokens xAI refused: one when a refresh was forced, and what that brings is another.
TriedSound(x, issued) ==
  /\ x.tried \subseteq issued
  /\ x.forced => x.pc \in {"force", "post", "answer", "call"} /\ \E t \in issued : x.tried = {t}
  /\ ~ x.forced /\ x.status # "unauthorized" => x.tried = {}
  /\ x.forced /\ x.pc = "answer" => x.successor.access \notin x.tried
  /\ x.forced /\ x.pc = "call" => x.token \notin x.tried
  /\ x.status = "unauthorized" => x.pc = "done" /\ Cardinality(x.tried) = 2

RequestsInv ==
  \A r \in Requests : /\ HoldsSound(req[r], Issued, Rotated, Awaited)
                      /\ TriedSound(req[r], Issued)

\* What makes the properties inductive.
IInv == TypeOK /\ LoginInv /\ ServerInv /\ LockInv /\ StoreInv /\ RequestsInv

------------------------------------------------------------------------------
(* The login command *)

LEMMA MinOfTwo ==
  ASSUME NEW a \in Nat, NEW b \in Nat
  PROVE  Min({a, b}) = IF a <= b THEN a ELSE b
BY DEF Min

\* The loop's own steps.
PollSteps ==
  \/ RunAuthLogin \/ FetchDiscovery \/ RequestDeviceCode \/ PollDeviceToken \/ Cancel

LEMMA ReturnsPaced ==
  ASSUME NEW o \in {"granting", "failed"}, Returns(o)
  PROVE  LoginInv'
BY DEF Returns, LoginInv, LoginTypeOK, PollsPaced

\* Every wait lasts the interval, or outlives the code.
LEMMA WaitPaced == ASSUME LoginInv, Wait PROVE LoginInv'
<1> DEFINE Kept == UNCHANGED <<interval, firstPoll, deadline, asked, given, slowDowns>>
<1>0. /\ clock \in Nat /\ asked \in Nat /\ interval \in Nat /\ firstPoll \in BOOLEAN
      /\ asked <= clock /\ deadline \in Nat /\ interval = Told
  BY DEF LoginInv, LoginTypeOK, Wait
<1>1. CASE Returns("failed")
  BY <1>1, ReturnsPaced
<1>2. ASSUME clock < deadline, NEW late \in Delays,
             Min({interval, deadline - clock}) < interval => late > 0,
             clock + Min({interval, deadline - clock}) + late <= deadline,
             clock' = clock + Min({interval, deadline - clock}) + late,
             login' = "poll", Kept
      PROVE  LoginInv'
  <2>1. late \in {0, 1} /\ deadline - clock \in Nat
    BY <1>0, <1>2 DEF Delays
  <2>2. Min({interval, deadline - clock}) =
          IF interval <= deadline - clock THEN interval ELSE deadline - clock
    BY <1>0, <2>1, MinOfTwo
  <2>3. /\ clock' \in Nat /\ clock' - asked >= interval /\ clock' <= deadline
    BY <1>0, <1>2, <2>1, <2>2
  <2>4. Told' = Told
    BY <1>2 DEF Told
  <2> QED BY <1>0, <1>2, <2>3, <2>4 DEF LoginInv, LoginTypeOK, PollsPaced
<1>3. CASE clock < deadline
  <2>1. PICK late \in Delays :
          LET wait == Min({interval, deadline - clock})
              fires == clock + wait + late
          IN /\ wait < interval => late > 0
             /\ IF fires > deadline
                THEN Returns("failed")
                ELSE clock' = fires /\ login' = "poll" /\ Kept
    BY <1>0, <1>3 DEF Wait
  <2>2. late \in {0, 1} /\ deadline - clock \in Nat
    BY <1>0, <1>3 DEF Delays
  <2>3. Min({interval, deadline - clock}) \in Nat
    BY <1>0, <2>2, MinOfTwo
  <2>4. CASE clock + Min({interval, deadline - clock}) + late > deadline
    BY <1>1, <2>1, <2>4
  <2>5. CASE ~ (clock + Min({interval, deadline - clock}) + late > deadline)
    <3>1. clock + Min({interval, deadline - clock}) + late <= deadline
      BY <1>0, <2>2, <2>3, <2>5
    <3> QED BY <1>2, <1>3, <2>1, <2>5, <3>1
  <2> QED BY <2>4, <2>5
<1> QED BY <1>0, <1>1, <1>3 DEF Wait

\* The interval follows what the server told.
LEMMA ContinuePaced ==
  ASSUME LoginInv, NEW i \in Nat, Continue(i), slowDowns' \in Nat, i = Told'
  PROVE  LoginInv'
<1>1. /\ clock \in Nat /\ deadline \in Nat /\ given \in Nat
      /\ asked' = clock /\ interval' = i /\ login' = "wait" /\ firstPoll' = FALSE
      /\ UNCHANGED <<deadline, given>>
  BY DEF LoginInv, LoginTypeOK, Continue
<1>2. clock' \in Nat /\ asked' <= clock'
  BY <1>1 DEF Continue, Delays
<1> QED BY <1>1, <1>2 DEF LoginInv, LoginTypeOK, PollsPaced

LEMMA SlowDownPaced == ASSUME LoginInv, SlowDown PROVE LoginInv'
<1>0. /\ interval \in Nat /\ given \in Nat /\ slowDowns \in Nat /\ interval = Told
      /\ SlowDownMaxInterval \in Nat /\ slowDowns' = slowDowns + 1 /\ given' = given
  BY DeviceLoginAssumption
     DEF DeviceLoginAssumption, LoginInv, LoginTypeOK, SlowDown, Continue
<1> DEFINE next == Min({interval + 1, SlowDownMaxInterval})
<1>1. next = IF interval + 1 <= SlowDownMaxInterval THEN interval + 1 ELSE SlowDownMaxInterval
  BY <1>0, MinOfTwo
<1>2. Told' = Min({given + slowDowns + 1, SlowDownMaxInterval})
  BY <1>0 DEF Told
<1>3. Told' = IF given + slowDowns + 1 <= SlowDownMaxInterval THEN given + slowDowns + 1
              ELSE SlowDownMaxInterval
  BY <1>0, <1>2, MinOfTwo
<1>4. CASE slowDowns = 0
  <2>1. interval = given
    BY <1>0, <1>4 DEF Told
  <2>2. next \in Nat /\ next = Told'
    BY <1>0, <1>1, <1>3, <1>4, <2>1
  <2> HIDE DEF next
  <2> QED BY <1>0, <2>2, ContinuePaced DEF SlowDown, next
<1>5. CASE slowDowns # 0
  <2>1. interval = Min({given + slowDowns, SlowDownMaxInterval})
    BY <1>0, <1>5 DEF Told
  <2>2. interval = IF given + slowDowns <= SlowDownMaxInterval THEN given + slowDowns
                   ELSE SlowDownMaxInterval
    BY <1>0, <2>1, MinOfTwo
  <2>3. next \in Nat /\ next = Told'
    BY <1>0, <1>1, <1>3, <2>2
  <2> HIDE DEF next
  <2> QED BY <1>0, <2>3, ContinuePaced DEF SlowDown, next
<1> QED BY <1>4, <1>5

LEMMA PollStepPaced == ASSUME LoginInv, PollSteps PROVE LoginInv'
<1>0. /\ interval \in Nat /\ Intervals \subseteq Nat /\ slowDowns \in Nat
      /\ ExpiresIn \in Nat
  BY DeviceLoginAssumption DEF DeviceLoginAssumption, LoginInv, LoginTypeOK
<1>1. CASE RunAuthLogin \/ FetchDiscovery
  BY <1>1 DEF RunAuthLogin, FetchDiscovery, LoginInv, LoginTypeOK, PollsPaced, pollVars
<1>2. CASE RequestDeviceCode
  BY <1>0, <1>2 DEF RequestDeviceCode, LoginInv, LoginTypeOK, PollsPaced
<1>3. CASE BeginPolling
  <2>1. clock' \in Nat
    BY <1>3 DEF BeginPolling, Delays, LoginInv, LoginTypeOK
  <2>2. /\ firstPoll' = TRUE /\ slowDowns' = 0 /\ slowDowns = 0 /\ login' = "poll"
        /\ interval' = given /\ given' = given /\ asked' = asked /\ given \in Nat
        /\ asked \in Nat
    BY <1>3 DEF BeginPolling, LoginInv, LoginTypeOK
  <2>3. deadline' \in Nat
    <3>1. PICK t \in Nat : t = clock'
      BY <2>1
    <3>2. deadline' = t + ExpiresIn
      BY <1>3, <3>1 DEF BeginPolling
    <3>3. ExpiresIn \in Nat
      BY <1>0
    <3>4. t + ExpiresIn \in Nat
      BY <3>3
    <3> QED BY <3>2, <3>4
  <2>4. Told' = given
    BY <2>2 DEF Told
  <2> QED BY <2>1, <2>2, <2>3, <2>4 DEF LoginInv, LoginTypeOK, PollsPaced
<1>4. CASE Granted \/ Refused \/ Cancel
  BY <1>4, ReturnsPaced DEF Granted, Refused, Cancel
<1>5. CASE AuthorizationPending
  <2>1. /\ Continue(interval) /\ slowDowns' = slowDowns /\ given' = given
        /\ login = "poll" /\ interval = Told
    BY <1>5 DEF AuthorizationPending, Continue, LoginInv
  <2>2. Told' = Told
    BY <2>1 DEF Told
  <2> QED BY <1>0, <2>1, <2>2, ContinuePaced
<1>6. CASE SlowDown
  BY <1>6, SlowDownPaced
<1>7. CASE Wait
  BY <1>7, WaitPaced
<1> QED BY <1>1, <1>2, <1>3, <1>4, <1>5, <1>6, <1>7 DEF PollSteps, PollDeviceToken

\* A login that only ends or is granted keeps its distance.
LEMMA LoginOver ==
  ASSUME LoginInv, UNCHANGED pollVars,
         UNCHANGED login \/ login' \in {"granted", "done", "failed"}
  PROVE  LoginInv'
<1>1. Told' = Told
  BY DEF pollVars, Told
<1> QED BY <1>1 DEF LoginInv, LoginTypeOK, PollsPaced, pollVars

------------------------------------------------------------------------------
(* What requests hold *)

\* Who neither presents nor writes a refresh token does not mind rotations, and all keep
\* what they hold while no login is granted.
LEMMA HoldsOn ==
  ASSUME NEW x, NEW I, NEW J, NEW R, NEW Q, NEW A, NEW B,
         HoldsSound(x, I, R, A), TriedSound(x, I),
         I \subseteq J, B \cap (I \cup {NoToken}) \subseteq A,
         Q \subseteq R \/ x.pc \notin {"post", "answer"}
  PROVE  HoldsSound(x, J, Q, B) /\ TriedSound(x, J)
<1>1. HoldsSound(x, J, Q, B)
  BY DEF HoldsSound
<1>2. TriedSound(x, J)
  BY DEF TriedSound
<1> QED BY <1>1, <1>2

\* Grants are numbered from 1.
LEMMA Counts ==
  ASSUME left \in Seq(Remaining)
  PROVE  /\ Issued = 1 .. Len(left) /\ Len(left) \in Nat
         /\ Cardinality(Issued) = Len(left)
         /\ NoToken \notin Issued
<1>1. Issued = 1 .. Len(left) /\ Len(left) \in Nat
  BY LenProperties DEF Issued
<1>2. Cardinality(1 .. Len(left)) = Len(left)
  BY <1>1, FS_Interval
<1> QED BY <1>1, <1>2 DEF NoToken

\* A new grant is nobody's yet.
LEMMA IssueGrows ==
  ASSUME TypeOK, ServerInv, Issue
  PROVE  /\ left' \in Seq(Remaining) /\ left' \in [Issued' -> Remaining]
         /\ Issued' = Issued \cup {NewGrant} /\ Issued' \subseteq Grants
         /\ NewGrant \notin Issued \cup {NoToken}
<1>1. /\ left \in Seq(Remaining) /\ kind.life \in Remaining /\ MaxGrants \in Nat
      /\ left' = Append(left, kind.life) /\ Len(left) < MaxGrants
  BY Counts, BridgeAssumption DEF BridgeAssumption, ServerInv, Issue
<1>2. left' \in Seq(Remaining) /\ Len(left') = Len(left) + 1
  BY <1>1, AppendProperties
<1>3. Issued = 1 .. Len(left) /\ Issued' = 1 .. Len(left') /\ Len(left) \in Nat
  BY <1>1, <1>2, LenProperties, Counts DEF Issued
<1>4. left' \in [Issued' -> Remaining]
  BY <1>2, <1>3, LenProperties
<1> QED BY <1>1, <1>2, <1>3, <1>4 DEF NewGrant, Grants, NoToken

\* Who has the lock is alone with the file, and without a holder nobody is at it.
LEMMA Alone ==
  ASSUME LockInv, NEW r \in Requests, lock \in {None, r}
  PROVE  \A s \in Requests \ {r} : req[s].pc \notin Holding
BY BridgeAssumption DEF BridgeAssumption, LockInv, None

\* What is read under the lock was not rotated and is no login's.
LEMMA ReadsSound ==
  ASSUME IInv, NEW r \in Requests, lock \in {None, r}, req[r].pc # "answer"
  PROVE  /\ loadStateLocked \in States
         /\ {loadStateLocked.access, loadStateLocked.refresh} \subseteq Issued \cup {NoToken}
         /\ loadStateLocked.refresh \notin Rotated \cup Awaited
<1>0. /\ store \in States /\ LockInv /\ StoreInv
      /\ spent \subseteq Issued /\ Awaited \subseteq Issued /\ left \in Seq(Remaining)
  BY DEF IInv, TypeOK, ServerInv
<1>1. \A s \in Requests : req[s].pc # "answer"
  BY <1>0, Alone DEF Holding
<1>2. NoToken \notin Rotated \cup Awaited
  BY <1>0, Counts DEF Rotated
<1>3. NoState \in States /\ NoState.access = NoToken /\ NoState.refresh = NoToken
  BY DEF NoState, States
<1> QED BY <1>0, <1>1, <1>2, <1>3 DEF loadStateLocked, StoreInv

\* Who moves takes the lock when nobody has it, and gives up its own only.
LockMoves(r) == lock' = lock \/ (lock' \in {None, r} /\ lock \in {None, r})

\* The file stays, unless a refresh ends without being written, or it is written with
\* tokens that may be presented.
FileMoves(r) ==
  /\ unrecorded \subseteq unrecorded' /\ unrecorded' \subseteq spent
  /\ disk' \in Disks /\ store' \in States
  /\ \/ UNCHANGED store /\ (req[r].pc # "answer" \/ req[r].state.refresh \notin spent \ unrecorded')
     \/ /\ {store'.access, store'.refresh} \subseteq Issued \cup {NoToken}
        /\ store'.refresh \notin Rotated \cup Awaited

\* One request moves and, if it has the lock, the file does.
LEMMA OneMoves ==
  ASSUME IInv, NEW r \in Requests,
         req' \in [Requests -> RequestStates],
         \A s \in Requests \ {r} : req'[s] = req[s],
         HoldsSound(req'[r], Issued, Rotated, Awaited), TriedSound(req'[r], Issued),
         LockMoves(r), req'[r].pc \in Holding => lock' = r, FileMoves(r),
         UNCHANGED <<serverVars, loginVars, authorized>>
  PROVE  IInv'
<1>0. TypeOK /\ LoginInv /\ ServerInv /\ LockInv /\ StoreInv /\ RequestsInv
  BY DEF IInv
<1>1. /\ UNCHANGED <<kind, left, live, spent, login, pollVars, authorized>>
      /\ Issued' = Issued /\ Awaited' = Awaited /\ Rotated' \subseteq Rotated
  BY DEF serverVars, loginVars, Issued, Awaited, Rotated, FileMoves
<1>2. TypeOK'
  <2>1. LoginTypeOK'
    BY <1>0, <1>1 DEF TypeOK, LoginTypeOK, pollVars
  <2>2. lock' \in Requests \cup {None}
    BY <1>0 DEF TypeOK, LockMoves
  <2>3. /\ Issued' \subseteq Grants /\ left' \in [Issued' -> Remaining]
        /\ live' \subseteq Grants /\ spent' \subseteq Grants /\ unrecorded' \subseteq spent'
        /\ authorized' \in Grants \cup {NoToken}
    BY <1>0, <1>1 DEF TypeOK, FileMoves
  <2> QED BY <1>1, <2>1, <2>2, <2>3 DEF TypeOK, RequestStates, FileMoves
<1>3. LoginInv'
  BY <1>0, <1>1, LoginOver
<1>4. ServerInv'
  BY <1>0, <1>1 DEF ServerInv
<1>5. LockInv'
  <2> SUFFICES ASSUME NEW s \in Requests, req'[s].pc \in Holding PROVE lock' = s
    BY DEF LockInv
  <2>1. CASE s = r
    BY <2>1
  <2>2. CASE s # r /\ lock' = lock
    BY <1>0, <2>2 DEF LockInv
  <2>3. CASE s # r /\ lock \in {None, r}
    BY <1>0, <2>3, Alone
  <2> QED BY <2>1, <2>2, <2>3 DEF LockMoves
<1>6. RequestsInv'
  <2> SUFFICES ASSUME NEW s \in Requests
               PROVE  /\ HoldsSound(req'[s], Issued', Rotated', Awaited')
                      /\ TriedSound(req'[s], Issued')
    BY DEF RequestsInv
  <2>1. HoldsSound(req'[s], Issued, Rotated, Awaited) /\ TriedSound(req'[s], Issued)
    BY <1>0 DEF RequestsInv
  <2> QED BY <1>1, <2>1, HoldsOn
<1>7. StoreInv'
  <2>1. CASE UNCHANGED store /\ (req[r].pc # "answer" \/ req[r].state.refresh \notin spent \ unrecorded')
    <3>1. ASSUME store.refresh \in Rotated'
          PROVE  \E s \in Requests : req'[s].pc = "answer" /\ req'[s].state.refresh = store.refresh
      <4>1. PICK s \in Requests : req[s].pc = "answer" /\ req[s].state.refresh = store.refresh
        BY <1>0, <1>1, <3>1 DEF StoreInv
      <4>2. s # r
        BY <1>1, <2>1, <3>1, <4>1 DEF Rotated
      <4> QED BY <4>1, <4>2
    <3> QED BY <1>0, <1>1, <2>1, <3>1 DEF StoreInv
  <2>2. CASE /\ {store'.access, store'.refresh} \subseteq Issued \cup {NoToken}
             /\ store'.refresh \notin Rotated \cup Awaited
    BY <1>1, <2>2 DEF StoreInv
  <2> QED BY <2>1, <2>2 DEF FileMoves
<1> QED BY <1>2, <1>3, <1>4, <1>5, <1>6, <1>7 DEF IInv

\* What a request holds has its types.
LEMMA Typed ==
  ASSUME IInv, NEW r \in Requests
  PROVE  /\ req \in [Requests -> RequestStates] /\ req[r] \in RequestStates
         /\ HoldsSound(req[r], Issued, Rotated, Awaited) /\ TriedSound(req[r], Issued)
         /\ NoToken \notin Issued /\ NoToken \notin Rotated \cup Awaited
         /\ NoState \in States /\ NoState.access = NoToken /\ NoState.refresh = NoToken
         /\ Issued \subseteq Grants
<1>1. req \in [Requests -> RequestStates] /\ Issued \subseteq Grants
  BY DEF IInv, TypeOK, RequestStates
<1>2. HoldsSound(req[r], Issued, Rotated, Awaited) /\ TriedSound(req[r], Issued)
  BY DEF IInv, RequestsInv
<1>3. left \in Seq(Remaining) /\ spent \subseteq Issued /\ Awaited \subseteq Issued
  BY DEF IInv, ServerInv
<1>4. NoToken \notin Issued /\ NoToken \notin Rotated \cup Awaited
  BY <1>3, Counts DEF Rotated
<1>5. NoState \in States /\ NoState.access = NoToken /\ NoState.refresh = NoToken
  BY DEF NoState, States
<1> QED BY <1>1, <1>2, <1>4, <1>5

\* A handler that is through holds nothing.
LEMMA EndKeeps ==
  ASSUME IInv, NEW r \in Requests, NEW status \in {"refused", "bad_gateway", "served"},
         req' = Ended(r, status), LockMoves(r), FileMoves(r),
         UNCHANGED <<serverVars, loginVars, authorized>>
  PROVE  IInv'
<1>0. /\ req \in [Requests -> RequestStates]
      /\ NoToken \notin Rotated \cup Awaited /\ NoState \in States
      /\ NoState.access = NoToken /\ NoState.refresh = NoToken
  BY Typed
<1> DEFINE x == [Idle EXCEPT !.pc = "done", !.status = status]
<1>1. req' = [req EXCEPT ![r] = x]
  BY DEF Ended
<1>2. x \in RequestStates
  BY <1>0 DEF RequestStates, Steps, Idle
<1>3. /\ x.pc = "done" /\ x.state = NoState /\ x.forced = FALSE /\ x.token = NoToken
      /\ x.successor = NoState /\ x.tried = {} /\ x.status = status
      /\ x.pc \notin Holding
  BY DEF Idle, Holding
<1> HIDE DEF x
<1>4. HoldsSound(x, Issued, Rotated, Awaited)
  BY <1>0, <1>3 DEF HoldsSound
<1>5. TriedSound(x, Issued)
  BY <1>3 DEF TriedSound
<1>6. /\ req' \in [Requests -> RequestStates] /\ req'[r] = x
      /\ \A s \in Requests \ {r} : req'[s] = req[s]
  BY <1>0, <1>1, <1>2
<1> QED BY <1>3, <1>4, <1>5, <1>6, OneMoves

\* A handler goes to xAI with a token that was not refused yet.
LEMMA TokenKeeps ==
  ASSUME IInv, NEW r \in Requests, NEW t \in Issued, Token(r, t),
         req[r].pc \notin {"idle", "done"}, t \notin req[r].tried,
         lock' = None, lock \in {None, r}, FileMoves(r),
         UNCHANGED <<serverVars, loginVars, authorized>>
  PROVE  IInv'
<1>0. /\ req \in [Requests -> RequestStates] /\ req[r] \in RequestStates
      /\ TriedSound(req[r], Issued) /\ Issued \subseteq Grants
      /\ NoToken \notin Rotated \cup Awaited /\ NoState \in States /\ NoToken \notin Issued
      /\ NoState.access = NoToken /\ NoState.refresh = NoToken
  BY Typed
<1> DEFINE x == [req[r] EXCEPT !.pc = "call", !.token = t, !.state = NoState,
                               !.successor = NoState]
<1>1. req' = [req EXCEPT ![r] = x]
  BY <1>0 DEF Token
<1>2. x \in RequestStates
  BY <1>0 DEF RequestStates, Steps
<1>3. /\ x.pc = "call" /\ x.state = NoState /\ x.forced = req[r].forced /\ x.token = t
      /\ x.successor = NoState /\ x.tried = req[r].tried /\ x.status = req[r].status
      /\ x.pc \notin Holding
  BY <1>0 DEF RequestStates, Holding
<1> HIDE DEF x
<1>4. HoldsSound(x, Issued, Rotated, Awaited)
  BY <1>0, <1>3 DEF HoldsSound
<1>5. TriedSound(x, Issued)
  BY <1>0, <1>3 DEF TriedSound
<1>6. /\ req' \in [Requests -> RequestStates] /\ req'[r] = x
      /\ \A s \in Requests \ {r} : req'[s] = req[s]
  BY <1>0, <1>1, <1>2
<1> QED BY <1>3, <1>4, <1>5, <1>6, OneMoves DEF LockMoves

\* A handler has read the file under the lock and is about to refresh, or to read again.
LEMMA RefreshKeeps ==
  ASSUME IInv, NEW r \in Requests, NEW pc \in {"reload", "post"}, NEW state \in States,
         req' = [req EXCEPT ![r].pc = pc, ![r].state = state],
         {state.access, state.refresh} \subseteq Issued \cup {NoToken},
         state.refresh \notin Rotated \cup Awaited,
         req[r].pc \in {"get", "reload"} \/ (req[r].pc = "force" /\ pc = "post"),
         lock \in {None, r}, lock' = r,
         UNCHANGED <<disk, store, unrecorded, serverVars, loginVars, authorized>>
  PROVE  IInv'
<1>0. /\ req \in [Requests -> RequestStates] /\ req[r] \in RequestStates
      /\ HoldsSound(req[r], Issued, Rotated, Awaited) /\ TriedSound(req[r], Issued)
  BY Typed
<1> DEFINE x == [req[r] EXCEPT !.pc = pc, !.state = state]
<1>1. req' = [req EXCEPT ![r] = x]
  BY <1>0 DEF RequestStates
<1>2. x \in RequestStates
  BY <1>0 DEF RequestStates, Steps
<1>3. /\ x.pc = pc /\ x.state = state /\ x.forced = req[r].forced /\ x.token = req[r].token
      /\ x.successor = req[r].successor /\ x.tried = req[r].tried /\ x.status = req[r].status
  BY <1>0 DEF RequestStates
<1> HIDE DEF x
<1>4. HoldsSound(x, Issued, Rotated, Awaited)
  BY <1>0, <1>3 DEF HoldsSound
<1>5. TriedSound(x, Issued)
  BY <1>0, <1>3 DEF TriedSound
<1>6. /\ req' \in [Requests -> RequestStates] /\ req'[r] = x
      /\ \A s \in Requests \ {r} : req'[s] = req[s]
  BY <1>0, <1>1, <1>2
<1>7. LockMoves(r) /\ FileMoves(r)
  BY DEF LockMoves, FileMoves, IInv, TypeOK
<1> QED BY <1>4, <1>5, <1>6, <1>7, OneMoves

------------------------------------------------------------------------------
(* The handlers *)

\* The file is left alone by who does not answer for a refresh.
LEMMA FileStays ==
  ASSUME IInv, NEW r \in Requests, req[r].pc # "answer", UNCHANGED <<disk, store, unrecorded>>
  PROVE  FileMoves(r)
BY DEF FileMoves, IInv, TypeOK

LEMMA GetKeeps ==
  ASSUME IInv, NEW r \in Requests, GetAccessToken(r)
  PROVE  IInv'
<1> DEFINE state == loadStateLocked
<1>1. /\ req[r].pc = "get" /\ lock = None
      /\ UNCHANGED <<disk, store, serverVars, unrecorded, loginVars, authorized>>
  BY DEF GetAccessToken
<1>2. /\ state \in States /\ {state.access, state.refresh} \subseteq Issued \cup {NoToken}
      /\ state.refresh \notin Rotated \cup Awaited
  BY <1>1, ReadsSound
<1>3. FileMoves(r)
  BY <1>1, FileStays
<1>4. ~ req[r].forced /\ req[r].tried = {}
  <2>1. TriedSound(req[r], Issued)
    BY Typed
  <2> QED BY <1>1, <2>1 DEF TriedSound
<1>5. CASE Answer502(r)
  BY <1>1, <1>3, <1>5, EndKeeps DEF Answer502, LockMoves
<1>6. ASSUME NEW pc \in {"reload", "post"}, lock' = r,
             req' = [req EXCEPT ![r].pc = pc, ![r].state = state]
      PROVE  IInv'
  BY <1>1, <1>2, <1>6, RefreshKeeps
<1>7. CASE lock' = None /\ state.access # NoToken /\ Token(r, state.access)
  BY <1>1, <1>2, <1>3, <1>4, <1>7, TokenKeeps
<1> HIDE DEF state
<1> QED BY <1>5, <1>6, <1>7 DEF GetAccessToken, state

LEMMA ReloadKeeps ==
  ASSUME IInv, NEW r \in Requests, Reload(r)
  PROVE  IInv'
<1> DEFINE fresh == loadStateLocked
<1>1. /\ req[r].pc = "reload" /\ lock = r
      /\ UNCHANGED <<disk, store, serverVars, unrecorded, loginVars, authorized>>
  BY DEF Reload, IInv, LockInv, Holding
<1>2. /\ fresh \in States /\ {fresh.access, fresh.refresh} \subseteq Issued \cup {NoToken}
      /\ fresh.refresh \notin Rotated \cup Awaited
  BY <1>1, ReadsSound
<1>3. FileMoves(r)
  BY <1>1, FileStays
<1>4. ~ req[r].forced /\ req[r].tried = {}
  <2>1. TriedSound(req[r], Issued)
    BY Typed
  <2> QED BY <1>1, <2>1 DEF TriedSound
<1>5. CASE UNCHANGED lock /\ req' = [req EXCEPT ![r].pc = "post", ![r].state = fresh]
  BY <1>1, <1>2, <1>5, RefreshKeeps
<1>6. CASE lock' = None /\ fresh.access # NoToken /\ Token(r, fresh.access)
  BY <1>1, <1>2, <1>3, <1>4, <1>6, TokenKeeps
<1> HIDE DEF fresh
<1> QED BY <1>5, <1>6 DEF Reload, fresh

LEMMA ForceKeeps ==
  ASSUME IInv, NEW r \in Requests, ForceRefresh(r)
  PROVE  IInv'
<1> DEFINE state == loadStateLocked
<1>1. /\ req[r].pc = "force" /\ lock = None
      /\ UNCHANGED <<disk, store, serverVars, unrecorded, loginVars, authorized>>
  BY DEF ForceRefresh
<1>2. /\ state \in States /\ {state.access, state.refresh} \subseteq Issued \cup {NoToken}
      /\ state.refresh \notin Rotated \cup Awaited
  BY <1>1, ReadsSound
<1>3. CASE Answer502(r)
  BY <1>1, <1>3, EndKeeps, FileStays DEF Answer502, LockMoves
<1>4. CASE lock' = r /\ req' = [req EXCEPT ![r].pc = "post", ![r].state = state]
  BY <1>1, <1>2, <1>4, RefreshKeeps
<1> HIDE DEF state
<1> QED BY <1>3, <1>4 DEF ForceRefresh, state

\* The server rotates: the holder of the lock has the successor, and the file names the
\* spent token until it is written.
LEMMA RefreshedKeeps ==
  ASSUME IInv, NEW r \in Requests, Refreshed(r)
  PROVE  IInv'
<1>0. TypeOK /\ LoginInv /\ ServerInv /\ LockInv /\ StoreInv /\ RequestsInv
  BY DEF IInv
<1> DEFINE token == req[r].state.refresh
<1>1. /\ req[r].pc = "post" /\ token \in live /\ Issue
      /\ UNCHANGED <<disk, store, kind, unrecorded, lock, faults, loginVars, authorized>>
  BY DEF Refreshed
<1>2. PICK rotates \in BOOLEAN :
        /\ live' = IF rotates THEN (live \ {token}) \cup {NewGrant} ELSE live
        /\ spent' = IF rotates THEN spent \cup {token} ELSE spent
        /\ req' = [req EXCEPT
             ![r].pc = "answer",
             ![r].successor = [access |-> NewGrant,
                               refresh |-> IF rotates THEN NewGrant ELSE token,
                               dated |-> req[r].state.dated \/ kind.tells, error |-> None]]
  BY DEF Refreshed
<1>3. /\ left' \in Seq(Remaining) /\ left' \in [Issued' -> Remaining]
      /\ Issued' = Issued \cup {NewGrant} /\ Issued' \subseteq Grants
      /\ NewGrant \notin Issued \cup {NoToken}
  BY <1>0, <1>1, IssueGrows
<1>4. /\ req \in [Requests -> RequestStates] /\ req[r] \in RequestStates
      /\ HoldsSound(req[r], Issued, Rotated, Awaited) /\ TriedSound(req[r], Issued)
      /\ token \in Issued /\ token \notin Rotated /\ token \notin Awaited
  <2>1. HoldsSound(req[r], Issued, Rotated, Awaited)
    BY Typed
  <2>2. token \notin Rotated /\ token \notin Awaited
    BY <1>1, <2>1 DEF HoldsSound
  <2> QED BY <1>0, <1>1, <2>2, Typed DEF ServerInv
<1> DEFINE next == [access |-> NewGrant, refresh |-> IF rotates THEN NewGrant ELSE token,
                    dated |-> req[r].state.dated \/ kind.tells, error |-> None]
           x == [req[r] EXCEPT !.pc = "answer", !.successor = next]
<1>5. next \in States
  <2>1. (req[r].state.dated \/ kind.tells) \in BOOLEAN
    OBVIOUS
  <2>2. NewGrant \in Grants /\ token \in Grants
    BY <1>3, <1>4
  <2> QED BY <2>1, <2>2 DEF States
<1>6. next.access = NewGrant /\ next.refresh = IF rotates THEN NewGrant ELSE token
  OBVIOUS
<1>7. req' = [req EXCEPT ![r] = x]
  BY <1>2
<1> HIDE DEF next, token
<1>8. x \in RequestStates
  BY <1>4, <1>5 DEF RequestStates, Steps
<1>9. /\ x.pc = "answer" /\ x.successor = next /\ x.state = req[r].state
      /\ x.forced = req[r].forced /\ x.token = req[r].token
      /\ x.tried = req[r].tried /\ x.status = req[r].status
  BY <1>4 DEF RequestStates
<1> HIDE DEF x
<1>10. /\ req' \in [Requests -> RequestStates] /\ req'[r] = x
       /\ \A s \in Requests \ {r} : req'[s] = req[s]
  BY <1>4, <1>7, <1>8
<1>11. /\ Awaited' = Awaited /\ Rotated \subseteq Issued
       /\ Rotated' \subseteq Rotated \cup (IF rotates THEN {token} ELSE {})
  BY <1>0, <1>1, <1>2 DEF Awaited, Rotated, ServerInv, loginVars
<1>12. TypeOK'
  <2>1. LoginTypeOK' /\ authorized' \in Grants \cup {NoToken} /\ lock' \in Requests \cup {None}
    BY <1>0, <1>1 DEF TypeOK, LoginTypeOK, loginVars, pollVars
  <2>2. live' \subseteq Grants /\ spent' \subseteq Grants /\ unrecorded' \subseteq spent'
    BY <1>0, <1>1, <1>2, <1>3, <1>4 DEF TypeOK
  <2> QED BY <1>0, <1>1, <1>3, <1>10, <2>1, <2>2 DEF TypeOK, RequestStates
<1>13. LoginInv'
  BY <1>0, <1>1, LoginOver DEF loginVars
<1>14. ServerInv'
  <2>1. live' \subseteq Issued' /\ spent' \subseteq Issued'
    BY <1>0, <1>2, <1>3, <1>4 DEF ServerInv
  <2>2. Awaited' \subseteq Issued' \ spent'
    BY <1>0, <1>2, <1>3, <1>4, <1>11 DEF ServerInv
  <2> QED BY <1>0, <1>1, <1>3, <2>1, <2>2 DEF ServerInv
<1>15. lock = r /\ \A s \in Requests \ {r} : req[s].pc \notin Holding
  BY <1>0, <1>1, Alone DEF LockInv, Holding
<1>16. LockInv'
  BY <1>1, <1>10, <1>15 DEF LockInv
<1>17. StoreInv'
  <2>1. store.refresh \notin Rotated
    BY <1>0, <1>1, <1>15 DEF StoreInv, Holding
  <2>2. store.refresh \in Rotated' => req'[r].pc = "answer" /\ req'[r].state.refresh = store.refresh
    BY <1>9, <1>10, <1>11, <2>1 DEF token
  <2> QED BY <1>0, <1>1, <1>3, <1>11, <2>2 DEF StoreInv
<1>18. RequestsInv'
  <2>1. HoldsSound(x, Issued', Rotated', Awaited')
    BY <1>0, <1>3, <1>4, <1>6, <1>9, <1>11 DEF HoldsSound, ServerInv
  <2>2. TriedSound(x, Issued')
    BY <1>1, <1>3, <1>4, <1>6, <1>9 DEF TriedSound
  <2>3. ASSUME NEW s \in Requests \ {r}
        PROVE  HoldsSound(req'[s], Issued', Rotated', Awaited') /\ TriedSound(req'[s], Issued')
    <3>1. HoldsSound(req[s], Issued, Rotated, Awaited) /\ TriedSound(req[s], Issued)
      BY <1>0 DEF RequestsInv
    <3>2. req[s].pc \notin {"post", "answer"}
      BY <1>15 DEF Holding
    <3> QED BY <1>3, <1>10, <1>11, <3>1, <3>2, HoldsOn
  <2> QED BY <1>10, <2>1, <2>2, <2>3 DEF RequestsInv
<1> QED BY <1>12, <1>13, <1>14, <1>16, <1>17, <1>18 DEF IInv

\* What is written can be read, whatever directory and file it found.
LEMMA WrittenSafe ==
  ASSUME NEW d \in Disks
  PROVE  Written(d) \in Disks /\ CheckStateFileSafe(Written(d))
<1>1. DOMAIN d.dirs = {1, 2}
  BY DEF Disks
<1> DEFINE w == Written(d)
<1>2. w.dirs = [i \in {1, 2} |-> "safe"] /\ w.file = "safe"
  BY <1>1 DEF Written
<1>3. w \in [dirs : [{1, 2} -> Dirs], file : Files]
  BY <1>1 DEF Written, Dirs, Files
<1> HIDE DEF w
<1>4. w \in Disks
  BY <1>2, <1>3 DEF Disks
<1>5. CheckStateFileSafe(w)
  BY <1>2 DEF CheckStateFileSafe, EnsureStateDirSafe, CheckDirComponentSafe
<1> QED BY <1>4, <1>5 DEF w

LEMMA RefusedKeeps ==
  ASSUME IInv, NEW r \in Requests, RefreshRefused(r)
  PROVE  IInv'
<1>1. /\ req[r].pc = "post" /\ Answer502(r)
      /\ UNCHANGED <<serverVars, unrecorded, loginVars, authorized>>
  BY DEF RefreshRefused
<1>2. lock = r
  BY <1>1 DEF IInv, LockInv, Holding
<1>3. PICK code \in {"xai_refresh_failed", "xai_oauth_tier_denied"} : handleRefreshError(r, code)
  BY DEF RefreshRefused
<1>4. req[r].state \in States
  BY Typed DEF RequestStates
<1>5. /\ store' \in States /\ store'.access = NoToken /\ store'.refresh = NoToken
      /\ disk' = Written(disk)
  BY <1>3, <1>4 DEF handleRefreshError, States
<1>6. disk' \in Disks
  BY <1>5, WrittenSafe DEF IInv, TypeOK
<1>7. NoToken \notin Rotated \cup Awaited
  BY Typed
<1>8. FileMoves(r)
  BY <1>1, <1>5, <1>6, <1>7 DEF FileMoves, IInv, TypeOK
<1> QED BY <1>1, <1>2, <1>8, EndKeeps DEF Answer502, LockMoves

LEMMA FailsKeeps ==
  ASSUME IInv, NEW r \in Requests, RefreshFails(r)
  PROVE  IInv'
<1>1. /\ req[r].pc = "post" /\ Answer502(r)
      /\ UNCHANGED <<disk, store, serverVars, unrecorded, loginVars, authorized>>
  BY DEF RefreshFails
<1>2. lock = r
  BY <1>1 DEF IInv, LockInv, Holding
<1> QED BY <1>1, <1>2, FileStays, EndKeeps DEF Answer502, LockMoves

LEMMA WrittenKeeps ==
  ASSUME IInv, NEW r \in Requests, RefreshWritten(r)
  PROVE  IInv'
<1> DEFINE next == req[r].successor
<1>1. /\ req[r].pc = "answer" /\ store' = next /\ disk' = Written(disk) /\ lock' = None
      /\ Token(r, next.access)
      /\ UNCHANGED <<serverVars, unrecorded, loginVars, authorized>>
  BY DEF RefreshWritten
<1>2. lock = r
  BY <1>1 DEF IInv, LockInv, Holding
<1>3. /\ req[r] \in RequestStates /\ HoldsSound(req[r], Issued, Rotated, Awaited)
      /\ TriedSound(req[r], Issued)
  BY Typed
<1>4. next \in States
  BY <1>3 DEF RequestStates
<1>5. /\ next.access \in Issued /\ next.refresh \in Issued \cup {NoToken}
      /\ next.refresh \notin Rotated \cup Awaited
  BY <1>1, <1>3 DEF HoldsSound
<1>6. next.access \notin req[r].tried
  <2>1. CASE req[r].forced
    BY <1>1, <1>3, <2>1 DEF TriedSound
  <2>2. CASE ~ req[r].forced
    BY <1>1, <1>3, <2>2 DEF TriedSound
  <2> QED BY <2>1, <2>2
<1>7. disk' \in Disks
  BY <1>1, WrittenSafe DEF IInv, TypeOK
<1>8. FileMoves(r)
  BY <1>1, <1>4, <1>5, <1>7 DEF FileMoves, IInv, TypeOK
<1> HIDE DEF next
<1> QED BY <1>1, <1>2, <1>5, <1>6, <1>8, TokenKeeps

\* The token was rotated and nothing else will name it: it is unrecorded.
LEMMA LostKeeps ==
  ASSUME IInv, NEW r \in Requests, RefreshLost(r)
  PROVE  IInv'
<1>1. /\ req[r].pc = "answer" /\ Lost(r) /\ Answer502(r)
      /\ UNCHANGED <<disk, store, serverVars, loginVars, authorized>>
  BY DEF RefreshLost
<1>2. lock = r
  BY <1>1 DEF IInv, LockInv, Holding
<1>3. FileMoves(r)
  BY <1>1 DEF FileMoves, IInv, TypeOK, Lost
<1> QED BY <1>1, <1>2, <1>3, EndKeeps DEF Answer502, LockMoves

LEMMA HandleKeeps ==
  ASSUME IInv, NEW r \in Requests, Handle(r)
  PROVE  IInv'
<1>1. /\ req[r].pc = "idle"
      /\ UNCHANGED <<disk, store, serverVars, unrecorded, lock, loginVars, authorized>>
      /\ req' = [req EXCEPT ![r].pc = "get"] \/ req' = Ended(r, "refused")
  BY DEF Handle
<1>2. FileMoves(r)
  BY <1>1, FileStays
<1>3. CASE req' = Ended(r, "refused")
  BY <1>1, <1>2, <1>3, EndKeeps DEF LockMoves
<1>4. CASE req' = [req EXCEPT ![r].pc = "get"]
  <2>0. /\ req \in [Requests -> RequestStates] /\ req[r] \in RequestStates
        /\ HoldsSound(req[r], Issued, Rotated, Awaited) /\ TriedSound(req[r], Issued)
    BY Typed
  <2> DEFINE x == [req[r] EXCEPT !.pc = "get"]
  <2>1. req' = [req EXCEPT ![r] = x]
    BY <1>4
  <2>2. x \in RequestStates
    BY <2>0 DEF RequestStates, Steps
  <2>3. /\ x.pc = "get" /\ x.state = req[r].state /\ x.forced = req[r].forced
        /\ x.token = req[r].token /\ x.successor = req[r].successor
        /\ x.tried = req[r].tried /\ x.status = req[r].status /\ x.pc \notin Holding
    BY <2>0 DEF RequestStates, Holding
  <2> HIDE DEF x
  <2>4. HoldsSound(x, Issued, Rotated, Awaited)
    BY <2>0, <2>3 DEF HoldsSound
  <2>5. TriedSound(x, Issued)
    BY <1>1, <2>0, <2>3 DEF TriedSound
  <2>6. /\ req' \in [Requests -> RequestStates] /\ req'[r] = x
        /\ \A s \in Requests \ {r} : req'[s] = req[s]
    BY <2>0, <2>1, <2>2
  <2> QED BY <1>1, <1>2, <2>3, <2>4, <2>5, <2>6, OneMoves DEF LockMoves
<1> QED BY <1>1, <1>3, <1>4

\* A refused token is remembered; the second one is another.
LEMMA CallKeeps ==
  ASSUME IInv, NEW r \in Requests, Call(r)
  PROVE  IInv'
<1> DEFINE token == req[r].token
           Tried == req[r].tried \cup {token}
<1>1. /\ req[r].pc = "call"
      /\ UNCHANGED <<disk, store, serverVars, unrecorded, lock, loginVars, authorized>>
      /\ \/ req' = Ended(r, "served") \/ req' = Ended(r, "bad_gateway")
         \/ req[r].forced /\ req' = [Ended(r, "unauthorized") EXCEPT ![r].tried = Tried]
         \/ /\ ~ req[r].forced
            /\ req' = [req EXCEPT ![r].pc = "force", ![r].forced = TRUE, ![r].tried = Tried,
                                  ![r].token = NoToken]
  BY DEF Call
<1>2. FileMoves(r) /\ LockMoves(r)
  BY <1>1, FileStays DEF LockMoves
<1>3. /\ req \in [Requests -> RequestStates] /\ req[r] \in RequestStates
      /\ HoldsSound(req[r], Issued, Rotated, Awaited) /\ TriedSound(req[r], Issued)
      /\ NoToken \notin Rotated \cup Awaited /\ NoState \in States
      /\ NoState.access = NoToken /\ NoState.refresh = NoToken
      /\ Issued \subseteq Grants
  BY Typed
<1>4. token \in Issued
  BY <1>1, <1>3 DEF HoldsSound
<1>5. CASE req' = Ended(r, "served") \/ req' = Ended(r, "bad_gateway")
  BY <1>1, <1>2, <1>5, EndKeeps
<1>6. CASE req[r].forced /\ req' = [Ended(r, "unauthorized") EXCEPT ![r].tried = Tried]
  <2> DEFINE y == [Idle EXCEPT !.pc = "done", !.status = "unauthorized"]
             x == [y EXCEPT !.tried = Tried]
  <2>1. req' = [req EXCEPT ![r] = x]
    BY <1>3, <1>6 DEF Ended
  <2>2. Tried \in SUBSET Grants
    BY <1>3, <1>4 DEF RequestStates
  <2>3. PICK t \in Issued : req[r].tried = {t} /\ t # token
    BY <1>1, <1>3, <1>6 DEF TriedSound
  <2>4. Cardinality(Tried) = 2
    <3>1. IsFiniteSet({t}) /\ Cardinality({t}) = 1
      BY FS_Singleton
    <3>2. Cardinality({t} \cup {token}) = 1 + 1
      BY <2>3, <3>1, FS_AddElement
    <3>3. Tried = {t} \cup {token}
      BY <2>3
    <3> QED BY <3>2, <3>3
  <2> HIDE DEF Tried
  <2>5. x \in RequestStates
    BY <1>3, <2>2 DEF RequestStates, Steps, Idle
  <2>6. /\ x.pc = "done" /\ x.state = NoState /\ x.forced = FALSE /\ x.token = NoToken
        /\ x.successor = NoState /\ x.tried = Tried /\ x.status = "unauthorized"
        /\ x.pc \notin Holding
    BY DEF Idle, Holding
  <2> HIDE DEF x
  <2>7. HoldsSound(x, Issued, Rotated, Awaited)
    BY <1>3, <2>6 DEF HoldsSound
  <2>8. TriedSound(x, Issued)
    <3>1. Tried \subseteq Issued
      BY <1>3, <1>4 DEF Tried, TriedSound
    <3> QED BY <2>4, <2>6, <3>1 DEF TriedSound
  <2>9. /\ req' \in [Requests -> RequestStates] /\ req'[r] = x
        /\ \A s \in Requests \ {r} : req'[s] = req[s]
    BY <1>3, <2>1, <2>5
  <2> QED BY <1>1, <1>2, <2>6, <2>7, <2>8, <2>9, OneMoves
<1>7. CASE /\ ~ req[r].forced
           /\ req' = [req EXCEPT ![r].pc = "force", ![r].forced = TRUE, ![r].tried = Tried,
                                 ![r].token = NoToken]
  <2> DEFINE x == [req[r] EXCEPT !.pc = "force", !.forced = TRUE, !.tried = Tried,
                                 !.token = NoToken]
  <2>1. req' = [req EXCEPT ![r] = x]
    BY <1>7
  <2>2. Tried = {token} /\ req[r].status # "unauthorized"
    BY <1>1, <1>3, <1>7 DEF TriedSound
  <2> HIDE DEF Tried
  <2>3. x \in RequestStates
    BY <1>3, <1>4, <2>2 DEF RequestStates, Steps
  <2>4. /\ x.pc = "force" /\ x.state = req[r].state /\ x.forced = TRUE
        /\ x.token = NoToken /\ x.successor = req[r].successor
        /\ x.tried = Tried /\ x.status = req[r].status /\ x.pc \notin Holding
    BY <1>3 DEF RequestStates, Holding
  <2> HIDE DEF x
  <2>5. HoldsSound(x, Issued, Rotated, Awaited)
    BY <1>3, <2>4 DEF HoldsSound
  <2>6. TriedSound(x, Issued)
    BY <1>4, <2>2, <2>4 DEF TriedSound
  <2>7. /\ req' \in [Requests -> RequestStates] /\ req'[r] = x
        /\ \A s \in Requests \ {r} : req'[s] = req[s]
    BY <1>3, <2>1, <2>3
  <2> QED BY <1>1, <1>2, <2>4, <2>5, <2>6, <2>7, OneMoves
<1> QED BY <1>1, <1>5, <1>6, <1>7

------------------------------------------------------------------------------
(* What happens around the handlers *)

\* Requests, file and grants stay; a login may end, not be granted.
LEMMA ServiceStays ==
  ASSUME IInv, UNCHANGED <<disk, store, serverVars, unrecorded, lock, req, authorized>>,
         LoginInv', login' = "granted" => login = "granted"
  PROVE  IInv'
<1>0. TypeOK /\ ServerInv /\ LockInv /\ StoreInv /\ RequestsInv
  BY DEF IInv
<1>1. /\ UNCHANGED <<kind, left, live, spent>>
      /\ Issued' = Issued /\ Rotated' = Rotated /\ Awaited' \subseteq Awaited
  BY DEF serverVars, Issued, Rotated, Awaited
<1>2. TypeOK'
  BY <1>0, <1>1 DEF TypeOK, LoginInv
<1>3. ServerInv' /\ LockInv' /\ StoreInv'
  BY <1>0, <1>1 DEF ServerInv, LockInv, StoreInv
<1>4. RequestsInv'
  BY <1>0, <1>1, HoldsOn DEF RequestsInv
<1> QED BY <1>2, <1>3, <1>4 DEF IInv

\* The user withdraws a token, or time passes: tokens and what they were used for stay.
LEMMA TokensStay ==
  ASSUME IInv, UNCHANGED <<disk, store, kind, spent, unrecorded, lock, req, loginVars, authorized>>,
         Issued' = Issued, left' \in [Issued -> Remaining], left' \in Seq(Remaining),
         live' \subseteq live
  PROVE  IInv'
<1>0. TypeOK /\ LoginInv /\ ServerInv /\ LockInv /\ StoreInv /\ RequestsInv
  BY DEF IInv
<1>1. /\ Issued' = Issued /\ Rotated' = Rotated /\ Awaited' = Awaited
      /\ UNCHANGED <<login, pollVars>>
  BY DEF Rotated, Awaited, loginVars
<1>2. TypeOK'
  BY <1>0, <1>1 DEF TypeOK, LoginTypeOK, pollVars
<1>3. LoginInv'
  BY <1>0, <1>1, LoginOver
<1>4. ServerInv' /\ LockInv' /\ StoreInv'
  BY <1>0, <1>1 DEF ServerInv, LockInv, StoreInv
<1>5. RequestsInv'
  BY <1>0, <1>1, HoldsOn DEF RequestsInv
<1> QED BY <1>2, <1>3, <1>4, <1>5 DEF IInv

LEMMA TickKeeps == ASSUME IInv, Tick PROVE IInv'
<1>1. left \in Seq(Remaining) /\ left \in [Issued -> Remaining]
  BY DEF IInv, ServerInv, TypeOK
<1>2. left' = [g \in Issued |-> IF left[g] = Expired THEN Expired ELSE left[g] - 1]
  BY DEF Tick
<1>3. \A n \in Remaining : (IF n = Expired THEN Expired ELSE n - 1) \in Remaining
  BY DEF Remaining, Expired, LongLived
<1>4. left' \in [Issued -> Remaining]
  BY <1>1, <1>2, <1>3
<1>5. left' \in Seq(Remaining)
  <2>1. Issued = 1 .. Len(left) /\ Len(left) \in Nat
    BY <1>1, Counts
  <2> QED BY <1>4, <2>1
<1>6. Issued' = Issued
  BY <1>2 DEF Issued
<1> QED BY <1>4, <1>5, <1>6, TokensStay DEF Tick

LEMMA RevokeKeeps == ASSUME IInv, Revoke PROVE IInv'
<1>1. left \in [Issued -> Remaining] /\ left \in Seq(Remaining)
  BY DEF IInv, ServerInv, TypeOK
<1>2. UNCHANGED <<disk, store, kind, left, spent, unrecorded, lock, req, loginVars, authorized>>
  BY DEF Revoke
<1>3. Issued' = Issued /\ live' \subseteq live
  BY <1>2 DEF Issued, Revoke
<1> QED BY <1>1, <1>2, <1>3, TokensStay

\* The service keeps nothing but the file: what was being refreshed is unrecorded.
LEMMA CrashKeeps == ASSUME IInv, Crash PROVE IInv'
<1>0. TypeOK /\ LoginInv /\ ServerInv /\ LockInv /\ StoreInv /\ RequestsInv
  BY DEF IInv
<1>1. /\ lock' = None
      /\ unrecorded' = unrecorded \cup
           ({req[r].state.refresh : r \in {x \in Requests : req[x].pc = "answer"}} \cap spent)
      /\ req' = [r \in Requests |->
           IF req[r].pc \in {"idle", "done"} THEN req[r] ELSE [Idle EXCEPT !.pc = "done"]]
      /\ UNCHANGED <<disk, store, kind, left, live, spent, login, pollVars, authorized>>
  BY DEF Crash, serverVars, loginVars
<1>2. /\ Issued' = Issued /\ Awaited' = Awaited /\ Rotated' \subseteq Rotated
      /\ unrecorded' \subseteq spent'
  BY <1>0, <1>1 DEF Issued, Awaited, Rotated, TypeOK
<1> DEFINE over == [Idle EXCEPT !.pc = "done"]
<1>3. \A r \in Requests : (req'[r] = req[r] /\ req[r].pc \in {"idle", "done"}) \/ req'[r] = over
  BY <1>1
<1>4. ASSUME NEW r \in Requests
      PROVE  /\ req'[r] \in RequestStates /\ req'[r].pc \notin Holding
             /\ HoldsSound(req'[r], Issued, Rotated, Awaited) /\ TriedSound(req'[r], Issued)
  <2>1. /\ req[r] \in RequestStates
        /\ HoldsSound(req[r], Issued, Rotated, Awaited) /\ TriedSound(req[r], Issued)
        /\ NoToken \notin Rotated \cup Awaited /\ NoState \in States
        /\ NoState.access = NoToken /\ NoState.refresh = NoToken
    BY Typed
  <2>2. CASE req'[r] = req[r] /\ req[r].pc \in {"idle", "done"}
    BY <2>1, <2>2 DEF Holding
  <2>3. CASE req'[r] = over
    <3>1. over \in RequestStates
      BY <2>1 DEF RequestStates, Steps, Idle
    <3>2. /\ over.pc = "done" /\ over.state = NoState /\ over.forced = FALSE
          /\ over.token = NoToken /\ over.successor = NoState /\ over.tried = {}
          /\ over.status = None /\ over.pc \notin Holding /\ over.status # "unauthorized"
      BY DEF Idle, Holding, None
    <3> HIDE DEF over
    <3>3. HoldsSound(over, Issued, Rotated, Awaited)
      BY <2>1, <3>2 DEF HoldsSound
    <3>4. TriedSound(over, Issued)
      BY <3>2 DEF TriedSound
    <3> QED BY <2>3, <3>1, <3>2, <3>3, <3>4
  <2> QED BY <1>3, <2>2, <2>3
<1>5. TypeOK'
  <2>1. req' \in [Requests -> RequestStates]
    BY <1>1, <1>4
  <2>2. LoginTypeOK'
    BY <1>0, <1>1 DEF TypeOK, LoginTypeOK, pollVars
  <2> QED BY <1>0, <1>1, <1>2, <2>1, <2>2 DEF TypeOK, RequestStates
<1>6. LoginInv'
  BY <1>0, <1>1, LoginOver
<1>7. ServerInv' /\ LockInv'
  BY <1>0, <1>1, <1>2, <1>4 DEF ServerInv, LockInv
<1>8. store.refresh \notin Rotated'
  <2> SUFFICES ASSUME store.refresh \in Rotated' PROVE FALSE
    OBVIOUS
  <2>1. PICK r \in Requests : req[r].pc = "answer" /\ req[r].state.refresh = store.refresh
    BY <1>0, <1>2 DEF StoreInv
  <2> QED BY <1>1, <2>1 DEF Rotated
<1>9. StoreInv'
  BY <1>0, <1>1, <1>2, <1>8 DEF StoreInv
<1>10. RequestsInv'
  BY <1>2, <1>4, HoldsOn DEF RequestsInv
<1> QED BY <1>5, <1>6, <1>7, <1>9, <1>10 DEF IInv

------------------------------------------------------------------------------
(* The login and the file *)

\* The login's grant is nobody else's.
LEMMA GrantedKeeps == ASSUME IInv, LoginGranted PROVE IInv'
<1>0. TypeOK /\ LoginInv /\ ServerInv /\ LockInv /\ StoreInv /\ RequestsInv
  BY DEF IInv
<1>1. /\ login = "granting" /\ login' = "granted" /\ Issue
      /\ UNCHANGED pollVars
      /\ live' = live \cup {NewGrant} /\ authorized' = NewGrant
      /\ UNCHANGED <<disk, store, kind, spent, unrecorded, lock, req>>
  BY DEF LoginGranted, service
<1>2. /\ left' \in Seq(Remaining) /\ left' \in [Issued' -> Remaining]
      /\ Issued' = Issued \cup {NewGrant} /\ Issued' \subseteq Grants
      /\ NewGrant \notin Issued \cup {NoToken}
  BY <1>0, <1>1, IssueGrows
<1>3. Rotated' = Rotated /\ Awaited' = {NewGrant}
  BY <1>1 DEF Rotated, Awaited
<1>4. LoginInv'
  BY <1>0, <1>1, LoginOver
<1>5. TypeOK'
  BY <1>0, <1>1, <1>2, <1>4 DEF TypeOK, LoginInv
<1>6. ServerInv' /\ LockInv' /\ StoreInv'
  BY <1>0, <1>1, <1>2, <1>3 DEF ServerInv, LockInv, StoreInv
<1>7. RequestsInv'
  BY <1>0, <1>1, <1>2, <1>3, HoldsOn DEF RequestsInv
<1> QED BY <1>4, <1>5, <1>6, <1>7 DEF IInv

\* What a login writes was issued and can be read.
LEMMA LoginWrites ==
  ASSUME IInv, login = "granted", store' = [access |-> authorized, refresh |-> authorized,
                                            dated |-> kind.tells, error |-> None],
         disk' = Written(disk)
  PROVE  /\ authorized \in Issued \ spent /\ NoToken \notin Issued
         /\ store' \in States /\ disk' \in Disks /\ CheckStateFileSafe(disk')
<1>1. authorized \in Issued \ spent /\ Issued \subseteq Grants /\ kind \in Kinds /\ disk \in Disks
  BY DEF IInv, ServerInv, Awaited, TypeOK
<1>2. NoToken \notin Issued
  BY Counts DEF IInv, ServerInv
<1>3. kind.tells \in BOOLEAN
  BY <1>1, BridgeAssumption DEF BridgeAssumption
<1>4. store' \in States
  BY <1>1, <1>3 DEF States
<1> QED BY <1>1, <1>2, <1>4, WrittenSafe

LEMMA CompleteKeeps == ASSUME IInv, CompleteLogin PROVE IInv'
<1>0. TypeOK /\ LoginInv /\ ServerInv /\ LockInv /\ StoreInv /\ RequestsInv
  BY DEF IInv
<1>1. /\ login = "granted" /\ login' \in {"done", "failed"}
      /\ UNCHANGED <<pollVars, kind, left, live, spent, unrecorded,
                     lock, req, authorized>>
      /\ \/ UNCHANGED <<store, disk>>
         \/ /\ store' = [access |-> authorized, refresh |-> authorized,
                          dated |-> kind.tells, error |-> None]
            /\ disk' = Written(disk)
  BY DEF CompleteLogin, serverVars
<1>2. LoginInv'
  BY <1>0, <1>1, LoginOver
<1>3. CASE UNCHANGED <<store, disk>>
  BY <1>1, <1>2, <1>3, ServiceStays DEF serverVars
<1>4. CASE /\ store' = [access |-> authorized, refresh |-> authorized,
                        dated |-> kind.tells, error |-> None]
           /\ disk' = Written(disk)
  <2>1. /\ authorized \in Issued \ spent
        /\ store' \in States /\ disk' \in Disks
    BY <1>1, <1>4, LoginWrites
  <2>2. Issued' = Issued /\ Rotated' = Rotated /\ Awaited' = {}
    BY <1>1 DEF Issued, Rotated, Awaited
  <2>3. TypeOK'
    BY <1>0, <1>1, <1>2, <2>1, <2>2 DEF TypeOK, LoginInv
  <2>4. ServerInv' /\ LockInv'
    BY <1>0, <1>1, <2>2 DEF ServerInv, LockInv
  <2>5. StoreInv'
    <3>1. store'.access = authorized /\ store'.refresh = authorized
      BY <1>4
    <3> QED BY <2>1, <2>2, <3>1 DEF StoreInv, Rotated
  <2>6. RequestsInv'
    BY <1>0, <1>1, <2>2, HoldsOn DEF RequestsInv
  <2> QED BY <1>2, <2>3, <2>4, <2>5, <2>6 DEF IInv
<1> QED BY <1>1, <1>3, <1>4

LEMMA LoginKeeps == ASSUME IInv, Login PROVE IInv'
<1>1. CASE LoginGranted
  BY <1>1, GrantedKeeps
<1>2. CASE LoginUngranted
  <2>1. LoginInv'
    BY <1>2, LoginOver DEF LoginUngranted, IInv
  <2> QED BY <1>2, <2>1, ServiceStays DEF LoginUngranted, service, serverVars
<1>3. CASE CompleteLogin
  BY <1>3, CompleteKeeps
<1>4. CASE PollSteps /\ UNCHANGED <<service, left, live, authorized>>
  <2>1. LoginInv'
    BY <1>4, PollStepPaced DEF IInv
  <2>2. login' # "granted"
    BY <1>4 DEF PollSteps, RunAuthLogin, FetchDiscovery, RequestDeviceCode, PollDeviceToken,
                BeginPolling, Granted, Refused, AuthorizationPending, SlowDown, Continue, Wait, Cancel, Returns
  <2> QED BY <1>4, <2>1, <2>2, ServiceStays DEF service, serverVars
<1> QED BY <1>1, <1>2, <1>3, <1>4 DEF Login, PollSteps

------------------------------------------------------------------------------

LEMMA Initially == Init => IInv
<1> SUFFICES ASSUME Init PROVE IInv
  OBVIOUS
<1>1. /\ LoginInit /\ kind \in Kinds /\ spent = {} /\ unrecorded = {} /\ lock = None
      /\ req = [r \in Requests |-> Idle] /\ authorized = NoToken
  BY DEF Init
<1>2. LoginInv /\ LoginTypeOK /\ Awaited = {} /\ Rotated = {}
  BY <1>1 DEF LoginInit, LoginInv, LoginTypeOK, PollsPaced, Told, Awaited, Rotated
<1>3. NoState \in States /\ NoState.access = NoToken /\ NoState.refresh = NoToken
  BY DEF NoState, States
<1>4. kind.life \in Remaining /\ kind.tells \in BOOLEAN /\ StartDisks \subseteq Disks /\ MaxGrants \in Nat \ {0}
  BY <1>1, BridgeAssumption DEF BridgeAssumption
<1>5. /\ disk \in Disks /\ store \in States /\ left \in Seq(Remaining)
      /\ Issued \subseteq Grants /\ live \subseteq Issued
      /\ {store.access, store.refresh} \subseteq Issued \cup {NoToken}
  <2>1. CASE disk \in StartDisks /\ store = NoState /\ left = <<>> /\ live = {}
    BY <1>3, <1>4, <2>1 DEF Issued
  <2>2. CASE /\ disk = [dirs |-> <<"safe", "safe">>, file |-> "safe"]
             /\ store = [access |-> 1, refresh |-> 1, dated |-> kind.tells, error |-> None]
             /\ left = <<kind.life>> /\ live = {1}
    <3>1. left \in Seq(Remaining) /\ Issued = {1} /\ 1 \in Grants
      BY <1>4, <2>2 DEF Issued, Grants
    <3>2. disk \in Disks
      BY <2>2 DEF Disks, Dirs, Files
    <3>3. store \in States /\ store.access = 1 /\ store.refresh = 1
      BY <1>4, <2>2, <3>1 DEF States
    <3> QED BY <2>2, <3>1, <3>2, <3>3
  <2> QED BY <2>1, <2>2 DEF Init
<1>6. left \in [Issued -> Remaining]
  BY <1>5, LenProperties DEF Issued
<1>7. Idle \in RequestStates
  BY <1>3 DEF Idle, RequestStates, Steps
<1>8. /\ Idle.pc = "idle" /\ Idle.state = NoState /\ Idle.forced = FALSE
      /\ Idle.token = NoToken /\ Idle.successor = NoState /\ Idle.tried = {}
      /\ Idle.status # "unauthorized"
  BY DEF Idle, None
<1>9. TypeOK
  BY <1>1, <1>2, <1>5, <1>6, <1>7 DEF TypeOK, RequestStates
<1>10. ServerInv /\ LockInv /\ StoreInv
  BY <1>1, <1>2, <1>5, <1>8 DEF ServerInv, LockInv, StoreInv, Holding
<1>11. RequestsInv
  BY <1>1, <1>2, <1>3, <1>8 DEF RequestsInv, HoldsSound, TriedSound
<1> QED BY <1>2, <1>9, <1>10, <1>11 DEF IInv

LEMMA Inductive == IInv /\ [Next]_vars => IInv'
<1> SUFFICES ASSUME IInv, [Next]_vars PROVE IInv'
  OBVIOUS
<1>1. CASE Login
  BY <1>1, LoginKeeps
<1>2. CASE \E r \in Requests : Request(r)
  BY <1>2, HandleKeeps, GetKeeps, ReloadKeeps, ForceKeeps, RefreshedKeeps, RefusedKeeps,
     FailsKeeps, WrittenKeeps, LostKeeps, CallKeeps DEF Request, Refresh
<1>3. CASE Tick \/ Revoke \/ Crash
  BY <1>3, TickKeeps, RevokeKeeps, CrashKeeps
<1>4. CASE UNCHANGED vars
  <2>1. LoginInv'
    BY <1>4, LoginOver DEF vars, loginVars, IInv
  <2> QED BY <1>4, <2>1, ServiceStays DEF vars, loginVars
<1> QED BY <1>1, <1>2, <1>3, <1>4 DEF Next

LEMMA Invariant == Spec => []IInv
BY Initially, Inductive, PTL DEF Spec

\* No handler presents a refresh token that was rotated already, however many refresh at
\* once and whenever a login writes the file, unless the rotation's answer was lost.
THEOREM PresentedOnce == Spec => []RefreshTokenOnce
<1>1. IInv => RefreshTokenOnce
  BY DEF IInv, RequestsInv, HoldsSound, RefreshTokenOnce, Rotated
<1> QED BY <1>1, Invariant, PTL

\* A 401 is passed on only after two access tokens of different grants were refused.
THEOREM RetriedFreshly == Spec => []RetriedOnFreshToken
<1>1. IInv => RetriedOnFreshToken
  BY DEF IInv, RequestsInv, TriedSound, RetriedOnFreshToken
<1> QED BY <1>1, Invariant, PTL

\* Whatever intervals the server asks for, above the maximum or below: between two polls
\* passes the interval that came with the device code, one more for every slow_down, up to
\* the maximum once there was one; and none is sent past the deadline set when the polls
\* began (PollDeviceToken).
THEOREM Paced == Spec => []PollsPaced
<1>1. IInv => PollsPaced
  BY DEF IInv, LoginInv
<1> QED BY <1>1, Invariant, PTL

\* What a login wrote the service can read, whatever directory and file it found, and it
\* stays readable until the authorization server refuses a refresh: no other step of a
\* handler, a crash or a login takes both tokens or the file's safety away
\* (CompleteLogin, writeOAuthState, refreshAndWriteLocked, handleRefreshError).
THEOREM Usable == Spec => LoginUsable
<1> DEFINE Healthy == HandleHealthz(disk, store) = 200
<1>1. ASSUME CheckStateFileSafe(disk'), store'.access # NoToken PROVE Healthy'
  BY <1>1 DEF HandleHealthz, AuthJSONReadable
<1>2. ASSUME UNCHANGED <<disk, store>>, Healthy PROVE Healthy'
  BY <1>2
<1>3. ASSUME IInv, CompleteLogin PROVE Healthy' \/ (UNCHANGED <<disk, store>> /\ login' = "failed")
  <2>1. CASE UNCHANGED <<store, disk>> /\ login' = "failed"
    BY <2>1
  <2>2. CASE /\ store' = [access |-> authorized, refresh |-> authorized,
                          dated |-> kind.tells, error |-> None]
             /\ disk' = Written(disk)
    <3>1. store'.access # NoToken /\ CheckStateFileSafe(disk')
      BY <1>3, <2>2, LoginWrites DEF CompleteLogin
    <3> QED BY <1>1, <3>1
  <2> HIDE DEF Healthy
  <2> QED BY <1>3, <2>1, <2>2 DEF CompleteLogin
<1>4. ASSUME IInv, NEW r \in Requests, Request(r), ~ RefreshRefused(r), Healthy
      PROVE  Healthy' /\ UNCHANGED login
  <2>1. CASE RefreshWritten(r)
    <3>1. /\ store'.access # NoToken /\ disk' = Written(disk) /\ UNCHANGED login
      <4>1. req[r].successor.access # NoToken
        BY <1>4, <2>1 DEF RefreshWritten, IInv, RequestsInv, HoldsSound
      <4> QED BY <2>1, <4>1 DEF RefreshWritten, loginVars
    <3>2. CheckStateFileSafe(disk')
      BY <1>4, <3>1, WrittenSafe DEF IInv, TypeOK
    <3> QED BY <1>1, <3>1, <3>2
  <2>2. CASE ~ RefreshWritten(r)
    <3>1. UNCHANGED <<disk, store, login>>
      BY <1>4, <2>2 DEF Request, Refresh, Handle, GetAccessToken, Reload, ForceRefresh,
        Refreshed, RefreshFails, RefreshLost, Call, loginVars
    <3> QED BY <1>2, <1>4, <3>1
  <2> QED BY <2>1, <2>2
<1>5. ASSUME PollSteps /\ UNCHANGED <<service, left, live, authorized>>
      PROVE  UNCHANGED <<disk, store>> /\ ~ (login = "granted")
  BY <1>5 DEF service, PollSteps, RunAuthLogin, FetchDiscovery, RequestDeviceCode, PollDeviceToken,
    BeginPolling, Granted, Refused, AuthorizationPending, SlowDown, Continue, Wait, Cancel
<1>6. ASSUME LoginGranted \/ LoginUngranted
      PROVE  UNCHANGED <<disk, store>> /\ login' # "done"
  BY <1>6 DEF LoginGranted, LoginUngranted, service
<1>7. ASSUME Tick \/ Revoke \/ Crash \/ UNCHANGED vars
      PROVE  UNCHANGED <<disk, store, login>>
  BY <1>7 DEF Tick, Revoke, Crash, vars, loginVars
<1> HIDE DEF Healthy
<1>8. ASSUME IInv, [Next]_vars, login = "granted", login' = "done"
      PROVE  Healthy'
  <2>1. ASSUME NEW r \in Requests, Request(r) PROVE UNCHANGED login
    BY <2>1 DEF Request, Refresh, Handle, GetAccessToken, Reload, ForceRefresh, Refreshed,
      RefreshRefused, RefreshFails, RefreshWritten, RefreshLost, Call, loginVars
  <2> QED BY <1>3, <1>5, <1>6, <1>7, <1>8, <2>1 DEF Next, Login, PollSteps
<1>9. ASSUME IInv, [Next]_vars, Healthy, ~ Healthy'
      PROVE  \E r \in Requests : RefreshRefused(r)
  BY <1>2, <1>3, <1>4, <1>5, <1>6, <1>7, <1>9 DEF Next, Login, PollSteps
<1>10. IInv /\ [Next]_vars
         => [/\ login = "granted" /\ login' = "done" => HandleHealthz(disk', store') = 200
             /\ HandleHealthz(disk, store) = 200 /\ HandleHealthz(disk', store') # 200 =>
                  \E r \in Requests : RefreshRefused(r)]_vars
  BY <1>8, <1>9 DEF Healthy
<1> QED BY <1>10, Invariant, PTL DEF Spec, LoginUsable
==============================================================================
