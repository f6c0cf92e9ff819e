------------------------------- MODULE Bridge -------------------------------
(***************************************************************************)
(* The xAI bridge (internal/bridge): a service that forwards requests with *)
(* an access token of its own, and a command that logs in.  Both work on   *)
(* one state file; the service's handlers take turns by a mutex            *)
(* (XAIOAuthProvider.mu), the command takes part in none of it.            *)
(*                                                                         *)
(* The authorization server rotates refresh tokens: one that was used is   *)
(* spent.  It may also keep one, refuse (400, 401, 403), fail, or have its *)
(* answer lost, which is what a client that hangs up during a refresh      *)
(* amounts to, since the refresh runs under the request's context.         *)
(*                                                                         *)
(* Control of a handler: idle, get and force (wanting the lock), reload,   *)
(* post, answer (holding it), call (at xAI's API), done.                   *)
(***************************************************************************)
EXTENDS OAuthState, DeviceLogin, FiniteSets, Sequences

CONSTANTS
  Requests,
  AllowUnauthenticatedLoopback,
  StartDisks,     \* what a first start may find instead of a state file it can read
  Kinds,          \* what the server may grant: [jwt, tells (expires_in), life]
  MaxGrants,      \* bound of the model: grants the server issues
  MaxFaults       \* bound of the model: failures of the server, the network, the disk

ASSUME BridgeAssumption ==
  /\ "none" \notin Requests
  /\ AllowUnauthenticatedLoopback \in BOOLEAN
  /\ StartDisks \subseteq Disks
  /\ Kinds \subseteq [jwt : BOOLEAN, tells : BOOLEAN, life : Remaining]
  /\ MaxGrants \in Nat \ {0} /\ MaxFaults \in Nat

VARIABLES
  disk,       \* the state directory and file, as Lstat shows them
  store,      \* the credentials in the file
  kind,       \* what the server grants
  left,       \* what remains of each access token issued
  live,       \* the refresh tokens the server accepts
  spent,      \* those it has rotated
  unrecorded, \* spent ones whose successor was lost on its way to the file
  lock,       \* holder of mu, or None
  req,        \* the requests
  authorized, \* the grant the login command holds
  faults      \* failures so far

serverVars == <<kind, left, live, spent>>
vars == <<disk, store, serverVars, unrecorded, lock, req, faults, loginVars, authorized>>

None == "none"
Grants == 1 .. MaxGrants
Issued == DOMAIN left
NoState == [access |-> NoToken, refresh |-> NoToken, dated |-> FALSE, error |-> None]
Idle == [pc |-> "idle", state |-> NoState, forced |-> FALSE, token |-> NoToken,
         successor |-> NoState, tried |-> {}, status |-> None]
Steps == {"idle", "get", "force", "reload", "post", "answer", "call", "done"}

States == [access : Grants \cup {NoToken}, refresh : Grants \cup {NoToken}, dated : BOOLEAN,
           error : {None, "xai_refresh_failed", "xai_oauth_tier_denied"}]

TypeOK ==
  /\ LoginTypeOK
  /\ disk \in Disks /\ store \in States
  /\ Issued \subseteq Grants /\ left \in [Issued -> Remaining]
  /\ live \subseteq Grants /\ spent \subseteq Grants /\ unrecorded \subseteq spent
  /\ lock \in Requests \cup {None}
  /\ authorized \in Grants \cup {NoToken}
  /\ req \in [Requests -> [pc : Steps, state : States, forced : BOOLEAN, token : Grants \cup {NoToken},
                           successor : States, tried : SUBSET Grants,
                           status : {None, "refused", "bad_gateway", "served", "unauthorized"}]]

Init ==
  /\ LoginInit
  /\ kind \in Kinds
  /\ \/ /\ disk \in StartDisks /\ store = NoState
        /\ left = <<>> /\ live = {}
     \/ /\ disk = [dirs |-> <<"safe", "safe">>, file |-> "safe"]
        /\ store = [access |-> 1, refresh |-> 1, dated |-> kind.tells, error |-> None]
        /\ left = <<kind.life>> /\ live = {1}
  /\ spent = {} /\ unrecorded = {} /\ lock = None /\ faults = 0
  /\ req = [r \in Requests |-> Idle]
  /\ authorized = NoToken

Fault == faults < MaxFaults /\ faults' = faults + 1

------------------------------------------------------------------------------
(* The authorization server, xAI's API and time *)

\* The next grant is issued with the rest of its life.
Issue ==
  /\ Cardinality(Issued) < MaxGrants
  /\ left' = Append(left, kind.life)
NewGrant == Len(left) + 1

Tick ==
  /\ \E g \in Issued : left[g] > Expired
  /\ left' = [g \in Issued |-> IF left[g] = Expired THEN Expired ELSE left[g] - 1]
  /\ UNCHANGED <<disk, store, kind, live, spent, unrecorded, lock, req, faults, loginVars, authorized>>

\* The user or xAI withdraws a refresh token.
Revoke ==
  /\ Fault
  /\ \E g \in live : live' = live \ {g}
  /\ UNCHANGED <<disk, store, kind, left, spent, unrecorded, lock, req, loginVars, authorized>>

------------------------------------------------------------------------------
(* XAIOAuthProvider *)

loadStateLocked == IF CheckStateFileSafe(disk) THEN store ELSE NoState

\* The handler is through; what it held is gone.
Ended(r, status) ==
  [req EXCEPT ![r] = [Idle EXCEPT !.pc = "done", !.status = status]]
Answer502(r) == lock' = None /\ req' = Ended(r, "bad_gateway")

\* A token in hand: the handler goes to xAI with it.
Token(r, token) ==
  req' = [req EXCEPT ![r].pc = "call", ![r].token = token,
                     ![r].state = NoState, ![r].successor = NoState]

\* GetAccessToken: no usable file and no tokens are errors; without an access token,
\* or within the window, it is refreshed.
GetAccessToken(r) ==
  LET state == loadStateLocked
  IN /\ req[r].pc = "get" /\ lock = None
     /\ \/ /\ state.access = NoToken /\ state.refresh = NoToken
           /\ Answer502(r)
        \/ /\ state.access = NoToken /\ state.refresh # NoToken
           /\ lock' = r
           /\ req' = [req EXCEPT ![r].pc = "post", ![r].state = state]
        \/ /\ state.access # NoToken
           /\ IF NeedsRefresh(state, kind.jwt, left[state.access])
              THEN lock' = r /\ req' = [req EXCEPT ![r].pc = "reload", ![r].state = state]
              ELSE lock' = None /\ Token(r, state.access)
     /\ UNCHANGED <<disk, store, serverVars, unrecorded, faults, loginVars, authorized>>

\* The second read, under the same lock, sees what a login wrote since the first.
Reload(r) ==
  LET fresh == loadStateLocked
  IN /\ req[r].pc = "reload"
     /\ IF fresh.access # NoToken /\ ~ NeedsRefresh(fresh, kind.jwt, left[fresh.access])
        THEN lock' = None /\ Token(r, fresh.access)
        ELSE UNCHANGED lock /\ req' = [req EXCEPT ![r].pc = "post", ![r].state = fresh]
     /\ UNCHANGED <<disk, store, serverVars, unrecorded, faults, loginVars, authorized>>

\* mutant: the lock is not taken.
ForceUnlocked(r) ==
  LET state == loadStateLocked
  IN /\ req[r].pc = "force"
     /\ IF state.refresh = NoToken
        THEN Answer502(r)
        ELSE lock' = r /\ req' = [req EXCEPT ![r].pc = "post", ![r].state = state]
     /\ UNCHANGED <<disk, store, serverVars, unrecorded, faults, loginVars, authorized>>

\* mutant: a token that is not due is taken as refreshed by someone else.
ForceReuses(r) ==
  LET state == loadStateLocked
  IN /\ req[r].pc = "force" /\ lock = None
     /\ IF state.refresh = NoToken
        THEN Answer502(r)
        ELSE IF ~ NeedsRefresh(state, kind.jwt, left[state.access])
        THEN lock' = None /\ Token(r, state.access)
        ELSE lock' = r /\ req' = [req EXCEPT ![r].pc = "post", ![r].state = state]
     /\ UNCHANGED <<disk, store, serverVars, unrecorded, faults, loginVars, authorized>>

ForceRefresh(r) ==
  LET state == loadStateLocked
  IN /\ req[r].pc = "force" /\ lock = None
     /\ IF state.refresh = NoToken
        THEN Answer502(r)
        ELSE lock' = r /\ req' = [req EXCEPT ![r].pc = "post", ![r].state = state]
     /\ UNCHANGED <<disk, store, serverVars, unrecorded, faults, loginVars, authorized>>

\* The refresh request reaches the server, which grants: it rotates the refresh
\* token or leaves it, and the answer is on its way.
Refreshed(r) ==
  LET state == req[r].state
  IN /\ req[r].pc = "post" /\ state.refresh \in live
     /\ Issue
     /\ \E rotates \in BOOLEAN :
          /\ live' = IF rotates THEN (live \ {state.refresh}) \cup {NewGrant} ELSE live
          /\ spent' = IF rotates THEN spent \cup {state.refresh} ELSE spent
          /\ req' = [req EXCEPT
               ![r].pc = "answer",
               ![r].successor = [access |-> NewGrant,
                                 refresh |-> IF rotates THEN NewGrant ELSE state.refresh,
                                 dated |-> state.dated \/ kind.tells, error |-> None]]
     /\ UNCHANGED <<disk, store, kind, unrecorded, lock, faults, loginVars, authorized>>

\* handleRefreshError on 400, 401 and 403, and on a grant without an access token:
\* both tokens are wiped.
handleRefreshError(r, code) ==
  /\ store' = [req[r].state EXCEPT !.access = NoToken, !.refresh = NoToken, !.error = code]
  /\ disk' = Written(disk)

\* The server refuses a refresh token it does not know, or access as such.
RefreshRefused(r) ==
  /\ req[r].pc = "post"
  /\ \/ req[r].state.refresh \notin live /\ handleRefreshError(r, "xai_refresh_failed") /\ UNCHANGED faults
     \/ Fault /\ handleRefreshError(r, "xai_oauth_tier_denied")
  /\ Answer502(r)
  /\ UNCHANGED <<serverVars, unrecorded, loginVars, authorized>>

\* mutant: the error path returns without the unlock.
FailsLocked(r) ==
  /\ req[r].pc = "post"
  /\ Fault \/ (Cardinality(Issued) = MaxGrants /\ UNCHANGED faults)
  /\ req' = Ended(r, "bad_gateway")
  /\ UNCHANGED <<disk, store, serverVars, unrecorded, lock, loginVars, authorized>>

FailsWiping(r) ==   \* mutant: whatever failed, the tokens are wiped
  /\ req[r].pc = "post"
  /\ Fault \/ (Cardinality(Issued) = MaxGrants /\ UNCHANGED faults)
  /\ handleRefreshError(r, "xai_refresh_failed")
  /\ Answer502(r)
  /\ UNCHANGED <<serverVars, unrecorded, loginVars, authorized>>

\* Another status, the request never arrives, or a refusal cannot be written: the
\* state is left as it is. A server at the model's bound of grants fails.
RefreshFails(r) ==
  /\ req[r].pc = "post"
  /\ Fault \/ (Cardinality(Issued) = MaxGrants /\ UNCHANGED faults)
  /\ Answer502(r)
  /\ UNCHANGED <<disk, store, serverVars, unrecorded, loginVars, authorized>>

Lost(r) ==
  unrecorded' = unrecorded \cup ({req[r].state.refresh} \cap spent)

\* The answer arrives and the state is written, by a rename.
RefreshWritten(r) ==
  /\ req[r].pc = "answer" /\ CanWrite(disk)
  /\ store' = req[r].successor /\ disk' = Written(disk)
  /\ lock' = None
  /\ Token(r, req[r].successor.access)
  /\ UNCHANGED <<serverVars, unrecorded, faults, loginVars, authorized>>

\* The answer is lost: the client hung up, 20 s passed, the body broke. Or it
\* arrives and cannot be written: the token in hand is dropped with the error.
RefreshLost(r) ==
  /\ req[r].pc = "answer" /\ Fault
  /\ Lost(r)
  /\ Answer502(r)
  /\ UNCHANGED <<disk, store, serverVars, loginVars, authorized>>

------------------------------------------------------------------------------
(* BridgeHandler *)

\* What the guards of a handler tell apart: the bearer token, the provider header,
\* the content type, which /v1/models does not look at, and the body.
Asks == [authenticated : BOOLEAN, provider : {"", "xai-oauth", "other"},
         json : BOOLEAN, readable : BOOLEAN, route : {"responses", "chat", "models"}]
Accepted(q) ==
  /\ q.authenticated \/ AllowUnauthenticatedLoopback
  /\ q.provider = "xai-oauth"
  /\ q.route = "models" \/ (q.json /\ q.readable)

Handle(r) ==
  /\ req[r].pc = "idle"
  /\ \E accepted \in {Accepted(q) : q \in Asks} :
       req' = IF accepted THEN [req EXCEPT ![r].pc = "get"] ELSE Ended(r, "refused")
  /\ UNCHANGED <<disk, store, serverVars, unrecorded, lock, faults, loginVars, authorized>>

\* xAI answers a request that carries a token: 401 to one that expired or, for
\* reasons of its own, to any; no answer is a 502.  The first 401 forces a refresh,
\* the second is the client's.
Call(r) ==
  LET token == req[r].token
      Tried == req[r].tried \cup {token}
  IN /\ req[r].pc = "call"
     /\ \/ /\ left[token] # Expired /\ req' = Ended(r, "served") /\ UNCHANGED faults
        \/ /\ \/ left[token] = Expired /\ UNCHANGED faults
              \/ Fault
           /\ IF req[r].forced
              THEN req' = [Ended(r, "unauthorized") EXCEPT ![r].tried = Tried]
              ELSE req' = [req EXCEPT ![r].pc = "force", ![r].forced = TRUE, ![r].tried = Tried,
                                      ![r].token = NoToken]
        \/ Fault /\ req' = Ended(r, "bad_gateway")
     /\ UNCHANGED <<disk, store, serverVars, unrecorded, lock, loginVars, authorized>>

\* The service goes down, with a refresh under way or not, and starts again: it keeps
\* nothing but the file.
Crash ==
  /\ Fault
  /\ lock' = None
  /\ unrecorded' = unrecorded \cup
       ({req[r].state.refresh : r \in {x \in Requests : req[x].pc = "answer"}} \cap spent)
  /\ req' = [r \in Requests |->
       IF req[r].pc \in {"idle", "done"} THEN req[r] ELSE [Idle EXCEPT !.pc = "done"]]
  /\ UNCHANGED <<disk, store, serverVars, loginVars, authorized>>

------------------------------------------------------------------------------
(* The login command, another process *)

service == <<disk, store, kind, spent, unrecorded, lock, req, faults>>

\* The user has authorized: the poll's answer is a new grant, whatever becomes of
\* the former.
LoginGranted ==
  /\ login = "granting" /\ login' = "granted"
  /\ UNCHANGED pollVars
  /\ Issue
  /\ live' = live \cup {NewGrant}
  /\ authorized' = NewGrant
  /\ UNCHANGED service

\* The last poll fails; so does a server at the model's bound of grants.
LoginUngranted ==
  /\ login = "granting" /\ login' = "failed"
  /\ UNCHANGED <<pollVars, left, live, authorized, service>>

\* CompleteLogin writes the file, without the service's lock.
CompleteLogin ==
  /\ login = "granted"
  /\ \/ /\ CanWrite(disk)
        /\ login' = "done"
        /\ store' = [access |-> authorized, refresh |-> authorized,
                     dated |-> kind.tells, error |-> None]
        /\ disk' = Written(disk)
        /\ UNCHANGED faults
     \/ /\ \/ ~ CanWrite(disk) /\ UNCHANGED faults
           \/ Fault
        /\ login' = "failed"
        /\ UNCHANGED <<store, disk>>
  /\ UNCHANGED <<pollVars, serverVars, unrecorded, lock, req, authorized>>

\* Until its last poll is answered a login touches nothing of the service: its steps
\* commute with the service's and are taken before them.
Untouched == faults = 0 /\ \A r \in Requests : req[r] = Idle
Polling == login \in {"discovery", "ask", "show", "poll", "wait"}

Login ==
  \/ LoginGranted \/ LoginUngranted \/ CompleteLogin
  \/ Untouched /\ RunAuthLogin /\ UNCHANGED <<service, left, live, authorized>>
  \/ (FetchDiscovery \/ RequestDeviceCode \/ PollDeviceToken \/ Cancel)
     /\ UNCHANGED <<service, left, live, authorized>>

------------------------------------------------------------------------------

Refresh(r) ==
  \/ Refreshed(r) \/ RefreshRefused(r) \/ RefreshFails(r)
  \/ RefreshWritten(r) \/ RefreshLost(r)

Request(r) ==
  \/ Handle(r) \/ GetAccessToken(r) \/ Reload(r) \/ ForceRefresh(r) \/ Refresh(r) \/ Call(r)

Next ==
  \/ Login
  \/ ~ Polling /\ ((\E r \in Requests : Request(r)) \/ Tick \/ Revoke \/ Crash)

Proceed(r) ==
  /\ ~ Polling
  /\ GetAccessToken(r) \/ Reload(r) \/ ForceRefresh(r) \/ Refresh(r) \/ Call(r)

\* Handlers run on and every HTTP client has a timeout; the login's calls too. Users,
\* clients, time and failures are under no obligation.
Fairness ==
  /\ \A r \in Requests : WF_vars(Proceed(r))
  /\ WF_vars((FetchDiscovery \/ RequestDeviceCode \/ PollDeviceToken)
             /\ UNCHANGED <<service, left, live, authorized>>)
  /\ WF_vars(LoginGranted \/ LoginUngranted \/ CompleteLogin)

Spec == Init /\ [][Next]_vars /\ Fairness

------------------------------------------------------------------------------
(* Properties *)

\* Rotation never turns against the bridge: no handler presents a refresh token the
\* server has already rotated, however many requests refresh at once and whenever a
\* login writes the file - unless the answer that rotated it was lost on its way to
\* the file (XAIOAuthProvider.mu, refreshAndWriteLocked).
RefreshTokenOnce ==
  \A r \in Requests : req[r].pc = "post" => req[r].state.refresh \notin spent \ unrecorded

\* A 401 is passed on only after two access tokens of different grants were refused:
\* the retry never repeats the token that failed (handleProxyPost, HandleModels).
RetriedOnFreshToken ==
  \A r \in Requests : req[r].status = "unauthorized" => Cardinality(req[r].tried) = 2

\* What a login wrote the service can read, whatever directory and file it found: healthz
\* answers 200, and stops to only when the authorization server refuses a refresh, which
\* may be one begun with the tokens before the login's and wipes those too (CompleteLogin,
\* writeOAuthState, checkStateFileSafe, handleRefreshError).
LoginUsable ==
  [][/\ login = "granted" /\ login' = "done" => HandleHealthz(disk', store') = 200
     /\ HandleHealthz(disk, store) = 200 /\ HandleHealthz(disk', store') # 200 =>
          \E r \in Requests : RefreshRefused(r)]_vars

\* A login's tokens are wiped only by a refusal of these.  A refresh of older ones does, if
\* it is refused after the login has written the file.
LoginKept ==
  [][authorized # NoToken /\ store.refresh = authorized /\ store'.refresh = NoToken =>
       \E r \in Requests : req[r].pc = "post" /\ req[r].state.refresh = authorized]_vars

\* A refresh that fails never blocks the ones that wait for it: every request is
\* answered.
Answered == \A r \in Requests : req[r].pc # "idle" ~> req[r].pc = "done"

\* Both end: every request is answered and the login is over, whatever fails between
\* them and the authorization server.
AllEnd == Answered /\ LoginEnds
=============================================================================
