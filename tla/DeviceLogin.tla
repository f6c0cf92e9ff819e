---------------------------- MODULE DeviceLogin ----------------------------
(***************************************************************************)
(* The device-code login of the bridge's command line (runAuthLogin,       *)
(* bridge/xai_login.go): discovery, a device code, then polls of the token *)
(* endpoint until the user has authorized, the server ends it, the code    *)
(* expires or the wait is cancelled.  Completing the login is the          *)
(* composing module's: it writes the state file the service reads.         *)
(*                                                                         *)
(* Control: idle, discovery, ask, show, poll, wait, granting, granted,     *)
(* done, failed.                                                           *)
(* Time is counted from the device code's issue; the deadline of the polls *)
(* from when they begin, after the code has been shown.                    *)
(***************************************************************************)
EXTENDS Naturals, FiniteSetsExt

CONSTANTS
  ExpiresIn,            \* life of a device code
  Intervals,            \* polling intervals the server may ask for
  SlowDownMaxInterval   \* slowDownMaxInterval, 30 in the code

ASSUME DeviceLoginAssumption ==
  /\ ExpiresIn \in Nat \ {0}
  /\ Intervals \in SUBSET (Nat \ {0})
  /\ SlowDownMaxInterval \in Nat \ {0}

VARIABLES
  login,      \* control
  interval,   \* of the poll loop
  firstPoll,  \* no answer was seen yet
  clock,      \* time since the device code was issued
  deadline,   \* when PollDeviceToken gives up
  asked,      \* when the last poll was sent
  given,      \* the interval that came with the device code
  slowDowns   \* answers "slow_down" so far

pollVars == <<interval, firstPoll, clock, deadline, asked, given, slowDowns>>
loginVars == <<login, pollVars>>

LoginTypeOK ==
  /\ login \in {"idle", "discovery", "ask", "show", "poll", "wait", "granting", "granted",
               "done", "failed"}
  /\ interval \in Nat /\ firstPoll \in BOOLEAN
  /\ clock \in Nat /\ deadline \in Nat /\ asked \in Nat
  /\ given \in Nat /\ slowDowns \in Nat

LoginInit ==
  /\ login = "idle" /\ interval = 1 /\ firstPoll = TRUE
  /\ clock = 0 /\ deadline = 0 /\ asked = 0
  /\ given = 1 /\ slowDowns = 0

\* A poll, answered at once or a moment later.
Delays == {0, 1}

RunAuthLogin ==
  /\ login = "idle"
  /\ login' = "discovery"
  /\ UNCHANGED pollVars

\* Both endpoints must be on x.ai and https.
FetchDiscovery ==
  /\ login = "discovery"
  /\ login' \in {"ask", "failed"}
  /\ UNCHANGED pollVars

RequestDeviceCode ==
  /\ login = "ask"
  /\ \/ login' = "show" /\ given' \in Intervals
     \/ login' = "failed" /\ UNCHANGED given
  /\ UNCHANGED <<interval, firstPoll, clock, deadline, asked, slowDowns>>

\* The answer has travelled, the code is shown and a browser opened; only then does
\* PollDeviceToken set its deadline.
BeginPolling ==
  /\ login = "show" /\ login' = "poll"
  /\ clock' \in {clock + d : d \in Delays}
  /\ deadline' = clock' + ExpiresIn
  /\ interval' = given
  /\ UNCHANGED <<firstPoll, asked, given, slowDowns>>

\* PollDeviceToken returns.
Returns(outcome) ==
  /\ login' = outcome
  /\ interval' = 1 /\ firstPoll' = TRUE
  /\ clock' = 0 /\ deadline' = 0 /\ asked' = 0
  /\ given' = 1 /\ slowDowns' = 0

\* The answers of the token endpoint: the tokens, an invalid answer or a terminal
\* error, and the two that continue the loop.
Continue(i) ==
  /\ login = "poll"
  /\ login' = "wait"
  /\ asked' = clock
  /\ clock' \in {clock + d : d \in Delays}
  /\ interval' = i
  /\ firstPoll' = FALSE
  /\ UNCHANGED <<deadline, given>>

Granted == login = "poll" /\ Returns("granting")
Refused == login = "poll" /\ Returns("failed")
AuthorizationPending == Continue(interval) /\ UNCHANGED slowDowns
SlowDownUnheard ==   \* mutant: the interval does not grow
  Continue(interval) /\ slowDowns' = slowDowns + 1
SlowDown == Continue(Min({interval + 1, SlowDownMaxInterval})) /\ slowDowns' = slowDowns + 1

\* mutant: a wait that was cut short is followed by another poll.
WaitsThenPolls ==
  /\ login = "wait"
  /\ \/ deadline <= clock /\ Returns("failed")
     \/ /\ clock < deadline
        /\ clock' = clock + Min({interval, deadline - clock}) /\ login' = "poll"
        /\ UNCHANGED <<interval, firstPoll, deadline, asked, given, slowDowns>>

\* mutant: nobody looks at the deadline, a wait of no length never returns.
WaitsForEver ==
  /\ login = "wait" /\ clock < deadline
  /\ clock' = clock + Min({interval, deadline - clock})
  /\ login' = IF clock' = deadline THEN "wait" ELSE "poll"
  /\ UNCHANGED <<interval, firstPoll, deadline, asked, given, slowDowns>>

\* The wait is cut at the deadline. A timer fires after its time, so that a cut
\* wait ends past the deadline.
Wait ==
  /\ login = "wait"
  /\ \/ deadline <= clock /\ Returns("failed")
     \/ /\ clock < deadline
        /\ \E late \in Delays :
             LET wait == Min({interval, deadline - clock})
                 fires == clock + wait + late
             IN /\ wait < interval => late > 0
                /\ IF fires > deadline
                   THEN Returns("failed")
                   ELSE /\ clock' = fires /\ login' = "poll"
                        /\ UNCHANGED <<interval, firstPoll, deadline, asked, given, slowDowns>>

\* The command is interrupted.
Cancel ==
  /\ login \in {"discovery", "ask", "show", "poll", "wait"}
  /\ Returns("failed")

PollDeviceToken == BeginPolling \/ Granted \/ Refused \/ AuthorizationPending \/ SlowDown \/ Wait

------------------------------------------------------------------------------
(* Properties *)

\* What the server has told to wait between polls.  Above the maximum a slow_down cuts
\* the interval down to it.
Told == IF slowDowns = 0 THEN given ELSE Min({given + slowDowns, SlowDownMaxInterval})

\* The command does not press the server: between two polls passes the interval that came
\* with the device code, one more for every slow_down, up to the maximum once there was
\* one; and none is sent past the deadline, although a wait may be cut short at it
\* (PollDeviceToken).
PollsPaced ==
  login = "poll" /\ ~ firstPoll =>
    /\ clock - asked >= Told
    /\ clock <= deadline

\* "slow_down" never makes polls come faster.  Of an interval above the maximum it does.
SlowDownSlows == login = "poll" /\ ~ firstPoll => clock - asked >= given + slowDowns

\* The device code polled with is still good.  The deadline is counted from the first poll.
CodeStillGood == login = "poll" => clock <= ExpiresIn

\* A login ends, whether or not the user ever authorizes it.
LoginEnds == login # "idle" ~> login \in {"done", "failed"}
=============================================================================
