----------------------------- MODULE Race_proofs -----------------------------
(***************************************************************************)
(* For every group, however many children race: the answer of a race can   *)
(* be read and nothing else of it is held, and the race keeps the contract *)
(* of a schedule.  The run race checks the same of two groups.             *)
(***************************************************************************)
EXTENDS Race, FiniteSetTheorems, SequenceTheorems, TLAPS

\* The groups asked for are sets of children.
InputInv == children \in Families

\* Nobody runs before the race; while it lasts, its children are the racers and
\* their contexts live.  A wait, of a leaf, and a schedule of one child have one racer.
RacersInv ==
  /\ phase = "entry" => Racers = {} /\ attemptCtx = {}
  /\ phase = "permit" => \A c \in Racers : worker[c] = "running" /\ c \notin Groups
  /\ phase = "alone" => \A c \in Racers : worker[c] \in {"running", "returned"}
  /\ phase \in {"permit", "alone"} => \E c \in Cands : Racers = {c}
  /\ phase \in {"permit", "alone", "racing", "won"} => Racers # {} /\ attemptCtx = Racers

Ready == {c \in Cands : worker[c] \in {"returned", "over"}}

\* What a racer returned is its own, and every open body is of a result returned.
ResultsInv ==
  /\ \A c \in Ready : result[c] \in Outcomes /\ result[c].of = c
  /\ \A r \in open : r.of \in Ready /\ r = result[r.of]

\* An outcome is in the channel once, from a racer that is over and was not heard.
ChannelInv ==
  /\ \A i \in 1 .. Len(ch) :
       /\ ch[i].of \in Cands /\ worker[ch[i].of] = "over" /\ ch[i].of \notin heard
       /\ ch[i] = result[ch[i].of]
  /\ \A i, j \in 1 .. Len(ch) : ch[i].of = ch[j].of => i = j
  /\ phase \in {"entry", "permit", "alone"} => ch = <<>> /\ heard = {}
  /\ \A c \in heard : worker[c] = "over"

Heard(r) == r.of \in heard /\ r = result[r.of]

\* What is held was heard, each result in its place, and something is held as soon
\* as one was heard.  Only a race that is won holds a success.
HeldInv ==
  /\ held.hard = Nothing \/ (Heard(held.hard) /\ held.hard.kind \in Failures \cup {"success"})
  /\ held.err = Nothing \/ (Heard(held.err) /\ held.err.kind \in Errors)
  /\ held.soft = Nothing \/ (Heard(held.soft) /\ held.soft.kind = "soft")
  /\ phase \in {"racing", "won"} /\ heard # {} => Held # Nothing
  /\ phase = "racing" => held.hard.kind # "success"
  /\ phase = "won" => held.hard.kind = "success" /\ held.err = Nothing /\ held.soft = Nothing
  /\ phase \notin {"racing", "won"} => held = NothingHeld

\* Who may still run after the race runs under a context that is cancelled, and there
\* is no answer before its end.
DoneInv ==
  /\ phase = "done" => \A c \in attemptCtx : worker[c] # "running"
  /\ phase # "done" => answer = Nothing

\* What the run checks, and what makes it inductive.
IInv ==
  /\ OneStreamLeft
  /\ InputInv /\ RacersInv /\ ResultsInv /\ ChannelInv /\ HeldInv /\ DoneInv

------------------------------------------------------------------------------
(* The breaker and outcomes *)

\* What is reported of an attempt keeps the types of the breaker's maps.
LEMMA HealthTyped ==
  ASSUME BreakerTypeOK, NEW k \in Keys, NEW r, ApplyHealth(r, k) \/ ReportFailure(k)
  PROVE  BreakerTypeOK'
<1> USE BreakerAssumption DEF BreakerAssumption, BreakerTypeOK
<1>1. CASE ReportSuccess(k)
  BY <1>1 DEF ReportSuccess
<1>4. CASE MarkUnhealthy(k)
  BY <1>4 DEF MarkUnhealthy
<1>2. CASE ReportFailure(k)
  <2>1. failureCounts' \in [Keys -> 0 .. Threshold]
    BY <1>2 DEF ReportFailure, Bump
  <2>2. (healthy[k] /\ Bump(failureCounts[k]) < Threshold) \in BOOLEAN
    OBVIOUS
  <2>3. healthy' \in [Keys -> BOOLEAN]
    BY <1>2, <2>2, Zenon DEF ReportFailure
  <2> QED BY <2>1, <2>3
<1>3. CASE UNCHANGED breakerVars
  BY <1>3 DEF breakerVars
<1> QED BY <1>1, <1>2, <1>3, <1>4 DEF ApplyHealth

\* An outcome is of a child, so it is not what stands for none.
LEMMA OutcomesSay ==
  /\ Nothing \notin Outcomes
  /\ \A r \in Outcomes : r.kind \in Kinds /\ r.of \in Cands
  /\ \A k \in Kinds, c \in Cands : [kind |-> k, of |-> c] \in Outcomes
BY OutcomeAssumption DEF OutcomeAssumption, Outcomes, Nothing

\* The racers can be counted.
LEMMA Finite ==
  ASSUME InputInv, NEW S \in SUBSET children
  PROVE  /\ S \subseteq Cands
         /\ Cardinality(S) = 1 <=> \E c \in Cands : S = {c}
<1>1. IsFiniteSet(children) /\ children \subseteq Cands
  BY OutcomeAssumption DEF InputInv, OutcomeAssumption
<1>2. IsFiniteSet(S)
  BY <1>1, FS_Subset
<1>3. Cardinality(S) = 1 <=> \E c : S = {c}
  BY <1>2, FS_Singleton
<1> QED BY <1>1, <1>3

\* What is held when the race is decided: the outcome of a racer that was heard.
LEMMA HeldSays ==
  ASSUME IInv, phase = "won" \/ (phase = "racing" /\ heard = Racers)
  PROVE  /\ Held \in Outcomes /\ Held.of \in Racers /\ Held = result[Held.of]
         /\ worker[Held.of] = "over"
         /\ attemptCtx = Racers
         /\ Held.kind \notin Errors => held.err = Nothing \/ held.hard # Nothing
<1>0. RacersInv /\ ResultsInv /\ ChannelInv /\ HeldInv
  BY DEF IInv
<1>1. Held # Nothing
  <2>1. CASE phase = "won"
    BY <1>0, <2>1 DEF HeldInv, Held, Nothing
  <2>2. CASE phase = "racing" /\ heard = Racers
    BY <1>0, <2>2 DEF HeldInv, RacersInv
  <2> QED BY <2>1, <2>2
<1>2. Heard(Held)
  BY <1>0, <1>1 DEF HeldInv, Held
<1>3. worker[Held.of] = "over" /\ Held.of \in Cands
  BY <1>0, <1>2 DEF ChannelInv, Heard, IInv, OneStreamLeft, TypeOK
<1>4. Held \in Outcomes
  BY <1>0, <1>2, <1>3 DEF ResultsInv, Ready, Heard
<1>5. Held.of \in Racers /\ attemptCtx = Racers
  BY <1>0, <1>3 DEF Racers, RacersInv
<1>6. Held.kind \notin Errors => held.err = Nothing \/ held.hard # Nothing
  BY <1>0, <1>1 DEF HeldInv, Held
<1> QED BY <1>2, <1>3, <1>4, <1>5, <1>6 DEF Heard

------------------------------------------------------------------------------
(* The actions *)

LEMMA Initially == Init => IInv
<1> SUFFICES ASSUME Init PROVE IInv
  OBVIOUS
<1> USE DEF Init
<1>1. TypeOK
  <2>1. BreakerTypeOK
    BY BreakerAssumption DEF BreakerAssumption, BreakerInit, BreakerTypeOK
  <2>2. /\ held \in [hard : Outcomes \cup {Nothing}, err : Outcomes \cup {Nothing},
                     soft : Outcomes \cup {Nothing}]
        /\ result \in [Cands -> Outcomes \cup {Nothing}]
    BY DEF NothingHeld
  <2>3. ch \in Seq(Outcomes)
    OBVIOUS
  <2>4. answer = Said("nothing")
    BY DEF Nothing, Said
  <2> QED BY <2>1, <2>2, <2>3, <2>4 DEF TypeOK
<1>2. WinnerReadable /\ LosersReleased
  BY DEF WinnerReadable, LosersReleased
<1>3. InputInv /\ RacersInv /\ ResultsInv /\ DoneInv
  BY DEF RequestInit, InputInv, RacersInv, Racers, ResultsInv, Ready, DoneInv
<1>4. ChannelInv /\ HeldInv
  BY EmptySeq DEF ChannelInv, HeldInv, Held, NothingHeld, Nothing
<1> QED BY <1>1, <1>2, <1>3, <1>4 DEF IInv, OneStreamLeft

\* Starting the goroutines of some children.
LEMMA RunsKeeps ==
  ASSUME IInv, phase = "entry", NEW S \in SUBSET children, S # {}, Runs(S),
         \/ phase' \in {"permit", "alone"} /\ Cardinality(S) = 1
         \/ phase' = "racing",
         phase' = "permit" => ~ Mixed,
         UNCHANGED <<client, result, ch, lost, heard, held, open, answer, breakerVars, requestInput>>
  PROVE  IInv'
<1>0. /\ TypeOK /\ InputInv /\ RacersInv /\ ResultsInv /\ ChannelInv /\ HeldInv /\ DoneInv
      /\ S \subseteq Cands
  BY Finite DEF IInv, OneStreamLeft
<1>1. /\ worker' = [c \in Cands |-> IF c \in S THEN "running" ELSE "off"]
      /\ attemptCtx' = S /\ Racers' = S
  BY <1>0 DEF Runs, Racers
<1>2. TypeOK'
  BY <1>0, <1>1 DEF TypeOK, breakerVars, BreakerTypeOK
<1>3. WinnerReadable' /\ LosersReleased' /\ InputInv' /\ DoneInv'
  BY <1>0 DEF WinnerReadable, LosersReleased, InputInv, DoneInv, requestInput
<1>4. RacersInv'
  <2>1. phase' = "permit" => \A c \in S : c \notin Groups
    BY DEF Mixed
  <2> QED BY <1>0, <1>1, <2>1, Finite DEF RacersInv
<1>5. Ready = {} /\ Ready' = {}
  BY <1>0, <1>1 DEF Ready, RacersInv, Racers, TypeOK
<1>6. ResultsInv'
  BY <1>0, <1>5 DEF ResultsInv
<1>7. ch = <<>> /\ heard = {} /\ held = NothingHeld
  BY <1>0 DEF ChannelInv, HeldInv
<1>8. ChannelInv' /\ HeldInv'
  BY <1>7, EmptySeq DEF ChannelInv, HeldInv, NothingHeld, Nothing
<1> QED BY <1>2, <1>3, <1>4, <1>6, <1>8 DEF IInv, OneStreamLeft

\* Ending without a race.
LEMMA EndsUnraced ==
  ASSUME IInv, phase \in {"entry", "permit"},
         NEW k \in {"abort", "unavailable", "rateLimited"}, Finish(Said(k)),
         \/ phase = "entry" /\ UNCHANGED worker
         \/ worker' = [c \in Cands |-> "off"],
         BreakerTypeOK',
         UNCHANGED <<client, attemptCtx, result, ch, lost, heard, held, open, requestInput>>
  PROVE  IInv'
<1>0. TypeOK /\ InputInv /\ RacersInv /\ ResultsInv /\ ChannelInv /\ HeldInv
  BY DEF IInv, OneStreamLeft
<1>1. /\ phase' = "done" /\ answer' = Said(k)
      /\ \A c \in Cands : worker'[c] = "off"
      /\ worker' \in [Cands -> {"off"}]
  BY <1>0 DEF Finish, RacersInv, Racers, TypeOK
<1>2. Said(k).kind = k /\ Said(k) # Nothing
  BY DEF Said, Nothing
<1>3. TypeOK'
  BY <1>0, <1>1, <1>2 DEF TypeOK
<1>4. Ready = {} /\ Ready' = {}
  BY <1>0, <1>1 DEF Ready, RacersInv, Racers, TypeOK
<1>5. ResultsInv' /\ open = {}
  BY <1>0, <1>4 DEF ResultsInv
<1>6. WinnerReadable' /\ LosersReleased'
  BY <1>1, <1>2, <1>5 DEF WinnerReadable, LosersReleased, Failures
<1>7. InputInv' /\ RacersInv' /\ DoneInv'
  BY <1>0, <1>1 DEF InputInv, RacersInv, DoneInv, requestInput, TypeOK
<1>8. ch = <<>> /\ heard = {} /\ held = NothingHeld
  BY <1>0 DEF ChannelInv, HeldInv
<1>9. ChannelInv' /\ HeldInv'
  BY <1>1, <1>8, EmptySeq DEF ChannelInv, HeldInv, NothingHeld, Nothing
<1> QED BY <1>3, <1>5, <1>6, <1>7, <1>9 DEF IInv, OneStreamLeft

LEMMA StartKeeps ==
  ASSUME IInv, Start, UNCHANGED requestInput
  PROVE  IInv'
<1>0. BreakerTypeOK'
  BY DEF IInv, OneStreamLeft, TypeOK, Start, breakerVars, BreakerTypeOK
<1>1. /\ phase = "entry"
      /\ UNCHANGED <<client, result, ch, lost, heard, held, open, breakerVars>>
  BY DEF Start
<1>2. ASSUME NEW k \in {"abort", "unavailable", "rateLimited"}, Finish(Said(k)),
             UNCHANGED <<worker, attemptCtx>>
      PROVE  IInv'
  BY <1>0, <1>1, <1>2, EndsUnraced
<1>3. ASSUME NEW S \in SUBSET children, Runs(S), UNCHANGED answer,
             \/ phase' = "permit" /\ Cardinality(S) = 1
             \/ phase' = IF Cardinality(S) = 1 THEN "alone" ELSE "racing",
             phase' = "permit" => ~ Mixed, S # {}
      PROVE  IInv'
  BY <1>1, <1>3, RunsKeeps
<1>4. ASSUME NEW able \in SUBSET children, Cardinality(able) = 1
      PROVE  able # {}
  BY <1>4, Finite DEF IInv
<1>5. CASE client = "gone" /\ Finish(Said("abort")) /\ UNCHANGED <<worker, attemptCtx>>
  BY <1>2, <1>5
<1>6. CASE client = "live"
  <2>1. PICK able \in SUBSET children :
             /\ children \cap Groups \subseteq able
             /\ \/ able = {} /\ Finish(Said("unavailable"))
                   /\ UNCHANGED <<worker, attemptCtx>>
                \/ /\ Cardinality(able) = 1 /\ ~ Mixed
                   /\ phase' = "permit" /\ Runs(able)
                   /\ UNCHANGED answer
                \/ /\ Cardinality(able) > 1 \/ Mixed
                   /\ \E granted \in SUBSET able :
                        /\ children \cap Groups \subseteq granted
                        /\ \/ /\ granted = {}
                              /\ Finish(Said("rateLimited"))
                              /\ UNCHANGED <<worker, attemptCtx>>
                           \/ /\ granted # {}
                              /\ phase' = IF Cardinality(granted) = 1 THEN "alone" ELSE "racing"
                              /\ Runs(granted)
                              /\ UNCHANGED answer
    BY <1>6 DEF Start
  <2>2. CASE Finish(Said("unavailable")) /\ UNCHANGED <<worker, attemptCtx>>
    BY <1>2, <2>2
  <2>3. CASE /\ Cardinality(able) = 1 /\ ~ Mixed
             /\ phase' = "permit" /\ Runs(able) /\ UNCHANGED answer
    BY <1>3, <1>4, <2>3
  <2>4. ASSUME NEW granted \in SUBSET able,
               \/ granted = {} /\ Finish(Said("rateLimited")) /\ UNCHANGED <<worker, attemptCtx>>
               \/ /\ granted # {}
                  /\ phase' = IF Cardinality(granted) = 1 THEN "alone" ELSE "racing"
                  /\ Runs(granted) /\ UNCHANGED answer
        PROVE  IInv'
    BY <1>2, <1>3, <2>4
  <2> QED BY <2>1, <2>2, <2>3, <2>4
<1> QED BY <1>5, <1>6 DEF Start

\* The wait for the permit of the only leaf.
LEMMA WaitReturnsKeeps ==
  ASSUME IInv, WaitReturns, UNCHANGED requestInput
  PROVE  IInv'
<1>0. /\ TypeOK /\ InputInv /\ RacersInv /\ ResultsInv /\ ChannelInv /\ HeldInv /\ DoneInv
      /\ phase = "permit"
      /\ UNCHANGED <<client, attemptCtx, result, ch, lost, heard, held, open>>
  BY DEF IInv, OneStreamLeft, WaitReturns
<1>1. CASE phase' = "alone" /\ UNCHANGED <<worker, answer, breakerVars>>
  <2>1. TypeOK'
    BY <1>0, <1>1 DEF TypeOK, breakerVars, BreakerTypeOK
  <2>2. WinnerReadable' /\ LosersReleased' /\ InputInv' /\ DoneInv' /\ RacersInv'
    BY <1>0, <1>1
    DEF WinnerReadable, LosersReleased, InputInv, DoneInv, RacersInv, Racers, requestInput
  <2>3. ResultsInv' /\ ChannelInv' /\ HeldInv'
    BY <1>0, <1>1 DEF ResultsInv, ChannelInv, HeldInv, Ready, Held, Heard
  <2> QED BY <2>1, <2>2, <2>3 DEF IInv, OneStreamLeft
<1>2. ASSUME NEW k \in {"abort", "rateLimited"}, Finish(Said(k)),
             worker' = [c \in Cands |-> "off"], BreakerTypeOK'
      PROVE  IInv'
  BY <1>0, <1>2, EndsUnraced
<1>3. CASE /\ Finish(Said("abort")) /\ worker' = [c \in Cands |-> "off"]
           /\ UNCHANGED breakerVars
  <2>1. BreakerTypeOK'
    BY <1>0, <1>3 DEF TypeOK, breakerVars, BreakerTypeOK
  <2> QED BY <1>2, <1>3, <2>1
<1>4. CASE /\ Finish(Said("rateLimited")) /\ worker' = [c \in Cands |-> "off"]
           /\ \E c \in Racers : ReportFailure(KeyOf[c])
  <2>1. PICK c \in Racers : ReportFailure(KeyOf[c])
    BY <1>4
  <2>2. KeyOf[c] \in Keys
    BY <1>0, OutcomeAssumption DEF OutcomeAssumption, RacersInv, Racers
  <2>3. BreakerTypeOK'
    BY <1>0, <2>1, <2>2, HealthTyped DEF TypeOK
  <2> QED BY <1>2, <1>4, <2>3
<1> QED BY <1>1, <1>3, <1>4 DEF WaitReturns

\* A racer comes back: what it brings is its own, and if the race is over its
\* context was cancelled.
LEMMA ReturnsKeeps ==
  ASSUME IInv, NEW c \in Cands, Returns(c), UNCHANGED requestInput
  PROVE  IInv'
<1>0. /\ TypeOK /\ WinnerReadable /\ LosersReleased
      /\ InputInv /\ RacersInv /\ ResultsInv /\ ChannelInv /\ HeldInv /\ DoneInv
  BY DEF IInv, OneStreamLeft
<1>1. /\ worker[c] = "running" /\ phase # "permit"
      /\ worker' = [worker EXCEPT ![c] = "returned"]
      /\ UNCHANGED <<client, phase, attemptCtx, ch, lost, heard, held, answer>>
  BY DEF Returns
<1>2. PICK k \in Kinds :
        /\ result' = [result EXCEPT ![c] = [kind |-> k, of |-> c]]
        /\ open' = open \/ open' = open \cup {[kind |-> k, of |-> c]}
        /\ IF c \in Groups THEN UNCHANGED breakerVars
           ELSE ApplyHealth([kind |-> k, of |-> c], KeyOf[c])
  BY DEF Returns, Arrivals
<1> DEFINE r == [kind |-> k, of |-> c]
<1>3. r \in Outcomes /\ r.of = c
  BY DEF Outcomes
<1> HIDE DEF r
<1>4. /\ result' = [result EXCEPT ![c] = r]
      /\ open' = open \/ open' = open \cup {r}
  BY <1>2 DEF r
<1>5. BreakerTypeOK'
  <2>1. CASE c \in Groups
    BY <1>0, <1>2, <2>1 DEF TypeOK, breakerVars, BreakerTypeOK
  <2>2. CASE c \notin Groups
    <3>1. KeyOf[c] \in Keys
      BY <2>2, OutcomeAssumption DEF OutcomeAssumption
    <3> QED BY <1>0, <1>2, <2>2, <3>1, HealthTyped DEF TypeOK
  <2> QED BY <2>1, <2>2
<1>6. TypeOK'
  BY <1>0, <1>1, <1>3, <1>4, <1>5 DEF TypeOK
<1>7. WinnerReadable'
  BY <1>0, <1>1 DEF WinnerReadable
<1>8. phase = "done" => c \notin attemptCtx
  BY <1>0, <1>1 DEF DoneInv
<1>9. LosersReleased'
  BY <1>0, <1>1, <1>3, <1>4, <1>8 DEF LosersReleased
<1>10. Racers' = Racers /\ Ready' = Ready \cup {c} /\ c \notin Ready
  BY <1>0, <1>1 DEF TypeOK, Racers, Ready
<1>11. InputInv' /\ RacersInv'
  BY <1>0, <1>1, <1>10 DEF InputInv, requestInput, RacersInv, TypeOK
<1>12. ResultsInv'
  BY <1>0, <1>3, <1>4, <1>10 DEF ResultsInv, TypeOK
<1>13. \A d \in Cands : worker[d] = "over" => worker'[d] = "over" /\ result'[d] = result[d]
  BY <1>0, <1>1, <1>4 DEF TypeOK
<1>14. ChannelInv'
  BY <1>0, <1>1, <1>13 DEF ChannelInv, TypeOK
<1>15. HeldInv'
  <2>1. \A h : Heard(h) => h.of \in heard /\ h = result'[h.of]
    BY <1>0, <1>13 DEF Heard, ChannelInv, TypeOK
  <2> QED BY <1>0, <1>1, <2>1 DEF HeldInv, Held, Heard
<1>16. DoneInv'
  BY <1>0, <1>1 DEF DoneInv, TypeOK
<1> QED BY <1>6, <1>7, <1>9, <1>11, <1>12, <1>14, <1>15, <1>16 DEF IInv, OneStreamLeft

\* A racer's select: its outcome is in the channel, once, or it is dropped.
LEMMA DeliversKeeps ==
  ASSUME IInv, NEW c \in Cands, Delivers(c), UNCHANGED requestInput
  PROVE  IInv'
<1>0. /\ TypeOK /\ WinnerReadable /\ LosersReleased
      /\ InputInv /\ RacersInv /\ ResultsInv /\ ChannelInv /\ HeldInv /\ DoneInv
  BY DEF IInv, OneStreamLeft
<1>1. /\ worker[c] = "returned" /\ phase # "alone"
      /\ worker' = [worker EXCEPT ![c] = "over"]
      /\ UNCHANGED <<client, phase, attemptCtx, result, lost, heard, held, answer, breakerVars>>
      /\ (ch' = Append(ch, result[c]) /\ UNCHANGED open)
           \/ (open' = open \ {result[c]} /\ UNCHANGED ch)
  BY DEF Delivers
<1>2. /\ Racers' = Racers /\ Ready' = Ready /\ c \in Racers /\ c \in Ready
      /\ phase \notin {"entry", "permit", "alone"}
  BY <1>0, <1>1 DEF TypeOK, Racers, Ready, RacersInv
<1>3. result[c] \in Outcomes /\ result[c].of = c
  BY <1>0, <1>2 DEF ResultsInv
<1>4. ch' \in Seq(Outcomes)
  BY <1>0, <1>1, <1>3, AppendProperties DEF TypeOK
<1>5. TypeOK'
  BY <1>0, <1>1, <1>4 DEF TypeOK, breakerVars, BreakerTypeOK
<1>6. WinnerReadable' /\ LosersReleased' /\ InputInv'
  BY <1>0, <1>1 DEF WinnerReadable, LosersReleased, InputInv, requestInput
<1>7. RacersInv'
  BY <1>0, <1>1, <1>2 DEF RacersInv
<1>8. ResultsInv'
  BY <1>0, <1>1, <1>2 DEF ResultsInv
<1>9. \A d \in Cands : worker[d] = "over" => worker'[d] = "over"
  BY <1>0, <1>1 DEF TypeOK
<1>10. ChannelInv'
  <2>1. \A d \in heard : worker'[d] = "over"
    BY <1>0, <1>9 DEF ChannelInv, TypeOK
  <2>2. CASE UNCHANGED ch
    BY <1>0, <1>1, <1>9, <2>1, <2>2 DEF ChannelInv
  <2>3. CASE ch' = Append(ch, result[c])
    <3>1. Len(ch') = Len(ch) + 1 /\ Len(ch) \in Nat
      BY <1>0, <1>3, <2>3, AppendProperties, LenProperties DEF TypeOK
    <3>2. \A i \in 1 .. Len(ch) : ch'[i] = ch[i]
      BY <1>0, <1>3, <2>3, AppendProperties DEF TypeOK
    <3>3. ch'[Len(ch) + 1] = result[c]
      BY <1>0, <1>3, <2>3, AppendProperties DEF TypeOK
    <3>4. \A i \in 1 .. Len(ch') : i \in 1 .. Len(ch) \/ i = Len(ch) + 1
      BY <3>1
    <3>5. \A i \in 1 .. Len(ch) : ch[i].of # c
      BY <1>0, <1>1 DEF ChannelInv
    <3>6. c \notin heard /\ worker'[c] = "over"
      BY <1>0, <1>1 DEF ChannelInv, TypeOK
    <3>7. \A i \in 1 .. Len(ch') :
            /\ ch'[i].of \in Cands /\ worker'[ch'[i].of] = "over" /\ ch'[i].of \notin heard
            /\ ch'[i] = result[ch'[i].of]
      <4> SUFFICES ASSUME NEW i \in 1 .. Len(ch')
                   PROVE  /\ ch'[i].of \in Cands /\ worker'[ch'[i].of] = "over"
                          /\ ch'[i].of \notin heard /\ ch'[i] = result[ch'[i].of]
        OBVIOUS
      <4>1. CASE i \in 1 .. Len(ch)
        BY <1>0, <1>9, <3>2, <4>1 DEF ChannelInv
      <4>2. CASE i = Len(ch) + 1
        BY <1>3, <3>3, <3>6, <4>2
      <4> QED BY <3>4, <4>1, <4>2
    <3>8. \A i, j \in 1 .. Len(ch') : ch'[i].of = ch'[j].of => i = j
      <4>1. \A i, j \in 1 .. Len(ch) : ch'[i].of = ch'[j].of => i = j
        BY <1>0, <3>2 DEF ChannelInv
      <4>2. \A i \in 1 .. Len(ch) : ch'[i].of # c
        BY <3>2, <3>5
      <4>3. ch'[Len(ch) + 1].of = c
        BY <1>3, <3>3
      <4> QED BY <3>4, <4>1, <4>2, <4>3
    <3> QED BY <1>1, <1>2, <2>1, <3>7, <3>8 DEF ChannelInv
  <2> QED BY <1>1, <2>2, <2>3
<1>11. HeldInv' /\ DoneInv'
  BY <1>0, <1>1 DEF HeldInv, Held, Heard, DoneInv, TypeOK
<1> QED BY <1>5, <1>6, <1>7, <1>8, <1>10, <1>11 DEF IInv, OneStreamLeft

\* What the only child returns is the answer, and it alone is held.
LEMMA AloneReturnsKeeps ==
  ASSUME IInv, AloneReturns, UNCHANGED requestInput
  PROVE  IInv'
<1>0. /\ TypeOK /\ InputInv /\ RacersInv /\ ResultsInv /\ ChannelInv /\ HeldInv /\ DoneInv
  BY DEF IInv, OneStreamLeft
<1>1. PICK c \in Racers :
        /\ worker[c] = "returned"
        /\ worker' = [worker EXCEPT ![c] = "over"]
        /\ heard' = {c}
        /\ phase' = "done" /\ answer' = result[c]
  BY DEF AloneReturns, Finish
<1>2. /\ phase = "alone" /\ ch = <<>> /\ held = NothingHeld
      /\ UNCHANGED <<client, attemptCtx, result, ch, lost, held, open, breakerVars>>
  BY <1>0 DEF AloneReturns, ChannelInv, HeldInv
<1>3. c \in Cands /\ Racers = {c} /\ attemptCtx = {c}
  BY <1>0, <1>2 DEF RacersInv, Racers
<1>4. Ready' = Ready /\ c \in Ready /\ worker'[c] = "over"
  BY <1>0, <1>1, <1>3 DEF TypeOK, Ready
<1>5. result[c] \in Outcomes /\ result[c].of = c
  BY <1>0, <1>4 DEF ResultsInv
<1>6. TypeOK'
  BY <1>0, <1>1, <1>2, <1>3, <1>5, OutcomesSay DEF TypeOK, breakerVars, BreakerTypeOK
<1>7. WinnerReadable'
  BY <1>1, <1>2, <1>3, <1>5 DEF WinnerReadable
<1>8. LosersReleased'
  BY <1>0, <1>1, <1>2, <1>3 DEF LosersReleased, ResultsInv
<1>9. InputInv' /\ RacersInv' /\ DoneInv'
  BY <1>0, <1>1, <1>2, <1>3, <1>4 DEF InputInv, requestInput, RacersInv, DoneInv
<1>10. ResultsInv'
  BY <1>0, <1>2, <1>4 DEF ResultsInv
<1>11. ChannelInv'
  BY <1>1, <1>2, <1>4, EmptySeq DEF ChannelInv
<1>12. HeldInv'
  BY <1>1, <1>2 DEF HeldInv, NothingHeld, Nothing
<1> QED BY <1>6, <1>7, <1>8, <1>9, <1>10, <1>11, <1>12 DEF IInv, OneStreamLeft

\* The outcome received: of a racer that is over, and that was not heard.
LEMMA Received ==
  ASSUME IInv, ch # <<>>
  PROVE  /\ Head(ch) \in Outcomes /\ Head(ch).of \in Cands \ heard
         /\ worker[Head(ch).of] = "over" /\ Head(ch) = result[Head(ch).of]
         /\ Len(ch) \in Nat \ {0} /\ Head(ch) = ch[1]
<1>1. ch \in Seq(Outcomes) /\ ChannelInv
  BY DEF IInv, OneStreamLeft, TypeOK
<1>2. Len(ch) \in Nat \ {0} /\ Head(ch) = ch[1] /\ 1 \in 1 .. Len(ch)
  BY <1>1, LenProperties, EmptySeq
<1>3. ch[1] \in Outcomes
  BY <1>1, <1>2, ElementOfSeq
<1> QED BY <1>1, <1>2, <1>3 DEF ChannelInv

\* The loop hears a racer and keeps the outcome in its place.
LEMMA ReceiveKeeps ==
  ASSUME IInv, Receive, UNCHANGED requestInput
  PROVE  IInv'
<1>0. /\ TypeOK /\ InputInv /\ RacersInv /\ ResultsInv /\ ChannelInv /\ HeldInv /\ DoneInv
  BY DEF IInv, OneStreamLeft
<1> DEFINE r == Head(ch)
<1>1. /\ r \in Outcomes /\ r.of \in Cands \ heard
      /\ worker[r.of] = "over" /\ r = result[r.of]
      /\ Len(ch) \in Nat \ {0} /\ r = ch[1]
      /\ r # Nothing
  BY Received, OutcomesSay DEF Receive
<1>2. /\ phase = "racing" /\ ch # <<>> /\ ch' = Tail(ch)
      /\ UNCHANGED <<client, worker, attemptCtx, result, answer, breakerVars>>
      /\ heard' = heard \cup {r.of}
  BY DEF Receive, Hear
<1>3. \/ /\ r.kind = "success" /\ phase' = "won" /\ lost' = TRUE
         /\ held' = [NothingHeld EXCEPT !.hard = r]
         /\ open' = open \ {held.hard, held.soft}
      \/ /\ r.kind = "soft" /\ held' = [held EXCEPT !.soft = r]
         /\ open' = open \ {held.soft} /\ UNCHANGED <<phase, lost>>
      \/ /\ r.kind \in Failures /\ held' = [held EXCEPT !.hard = r]
         /\ open' = open \ {held.hard} /\ UNCHANGED <<phase, lost>>
      \/ /\ r.kind \in Errors /\ held' = [held EXCEPT !.err = r]
         /\ UNCHANGED <<phase, lost, open>>
  BY DEF Receive
<1> HIDE DEF r
<1>4. /\ phase' \in {"racing", "won"} /\ open' \subseteq open /\ lost' \in BOOLEAN
      /\ held' \in [hard : Outcomes \cup {Nothing}, err : Outcomes \cup {Nothing},
                     soft : Outcomes \cup {Nothing}]
  BY <1>0, <1>1, <1>2, <1>3 DEF TypeOK, NothingHeld
<1>5. ch' \in Seq(Outcomes) /\ Len(ch') = Len(ch) - 1
      /\ \A i \in 1 .. Len(ch') : ch'[i] = ch[i + 1]
  BY <1>0, <1>2, HeadTailProperties DEF TypeOK
<1>6. TypeOK'
  BY <1>0, <1>1, <1>2, <1>4, <1>5 DEF TypeOK, breakerVars, BreakerTypeOK
<1>7. WinnerReadable' /\ LosersReleased' /\ InputInv' /\ DoneInv'
  BY <1>0, <1>2, <1>4 DEF WinnerReadable, LosersReleased, InputInv, requestInput, DoneInv
<1>8. Racers' = Racers /\ Ready' = Ready
  BY <1>2 DEF Racers, Ready
<1>9. RacersInv' /\ ResultsInv'
  BY <1>0, <1>2, <1>4, <1>8 DEF RacersInv, ResultsInv
<1>10. ChannelInv'
  <2>1. \A i \in 1 .. Len(ch') : i + 1 \in 1 .. Len(ch) /\ i + 1 # 1
    BY <1>1, <1>5
  <2>2. 1 \in 1 .. Len(ch)
    BY <1>1
  <2>3. \A i \in 1 .. Len(ch') : ch'[i].of # r.of
    BY <1>0, <1>1, <1>5, <2>1, <2>2 DEF ChannelInv
  <2>4. \A i \in 1 .. Len(ch') :
          /\ ch'[i].of \in Cands /\ worker'[ch'[i].of] = "over" /\ ch'[i].of \notin heard'
          /\ ch'[i] = result'[ch'[i].of]
    BY <1>0, <1>2, <1>5, <2>1, <2>3 DEF ChannelInv
  <2>5. \A i, j \in 1 .. Len(ch') : ch'[i].of = ch'[j].of => i = j
    <3> SUFFICES ASSUME NEW i \in 1 .. Len(ch'), NEW j \in 1 .. Len(ch'), ch'[i].of = ch'[j].of
                 PROVE  i = j
      OBVIOUS
    <3>1. i + 1 = j + 1
      BY <1>0, <1>5, <2>1 DEF ChannelInv
    <3> QED BY <3>1
  <2>6. \A c \in heard' : worker'[c] = "over"
    BY <1>0, <1>1, <1>2 DEF ChannelInv
  <2> QED BY <1>4, <2>4, <2>5, <2>6 DEF ChannelInv
<1>11. \A h : Heard(h) => h.of \in heard' /\ h = result'[h.of]
  BY <1>2 DEF Heard
<1>12. r.of \in heard' /\ r = result'[r.of]
  BY <1>1, <1>2
<1>13. HeldInv'
  <2>1. CASE r.kind = "success"
    <3>1. /\ phase' = "won" /\ held'.hard = r /\ held'.err = Nothing /\ held'.soft = Nothing
      BY <1>3, <2>1 DEF Failures, Errors, NothingHeld
    <3> QED BY <1>1, <1>12, <2>1, <3>1 DEF HeldInv, Held, Heard
  <2>2. CASE r.kind = "soft"
    <3>1. /\ phase' = "racing" /\ held'.hard = held.hard /\ held'.err = held.err
          /\ held'.soft = r
      BY <1>0, <1>2, <1>3, <2>2 DEF Failures, Errors, TypeOK
    <3> QED BY <1>0, <1>1, <1>2, <1>11, <1>12, <2>2, <3>1 DEF HeldInv, Held, Heard
  <2>3. CASE r.kind \in Failures
    <3>1. /\ phase' = "racing" /\ held'.hard = r /\ held'.err = held.err
          /\ held'.soft = held.soft
      BY <1>0, <1>2, <1>3, <2>3 DEF Failures, Errors, TypeOK
    <3>2. r.kind # "success"
      BY <2>3 DEF Failures
    <3> QED BY <1>0, <1>1, <1>2, <1>11, <1>12, <2>3, <3>1, <3>2 DEF HeldInv, Held, Heard
  <2>4. CASE r.kind \in Errors
    <3>1. /\ phase' = "racing" /\ held'.hard = held.hard /\ held'.err = r
          /\ held'.soft = held.soft
      BY <1>0, <1>2, <1>3, <2>4 DEF Failures, Errors, TypeOK
    <3> QED BY <1>0, <1>1, <1>2, <1>11, <1>12, <2>4, <3>1 DEF HeldInv, Held, Heard
  <2> QED BY <1>3, <2>1, <2>2, <2>3, <2>4
<1> QED BY <1>6, <1>7, <1>9, <1>10, <1>13 DEF IInv, OneStreamLeft

\* The race is decided: its result keeps its context and nothing else does.
LEMMA ConcludeKeeps ==
  ASSUME IInv, Conclude, UNCHANGED requestInput
  PROVE  IInv'
<1>0. /\ TypeOK /\ InputInv /\ RacersInv /\ ResultsInv /\ ChannelInv /\ HeldInv /\ DoneInv
  BY DEF IInv, OneStreamLeft
<1> DEFINE r == Held
<1>1. /\ r \in Outcomes /\ r.of \in Racers /\ r = result[r.of] /\ worker[r.of] = "over"
      /\ attemptCtx = Racers
  BY HeldSays DEF Conclude
<1>2. /\ phase' = "done" /\ answer' = r /\ lost' = TRUE /\ held' = NothingHeld
      /\ attemptCtx' = (IF r.kind \in Errors THEN {} ELSE attemptCtx \cap {r.of})
      /\ open' \subseteq open
      /\ UNCHANGED <<client, worker, result, ch, heard, breakerVars>>
      /\ phase \in {"racing", "won"}
  BY DEF Conclude, Finish, CancelLosers
<1> HIDE DEF r
<1>3. TypeOK'
  BY <1>0, <1>1, <1>2, OutcomesSay DEF TypeOK, breakerVars, BreakerTypeOK, NothingHeld, Racers
<1>4. WinnerReadable'
  BY <1>1, <1>2 DEF WinnerReadable, Failures, Errors
<1>5. LosersReleased'
  BY <1>0, <1>1, <1>2 DEF LosersReleased, ResultsInv
<1>6. Racers' = Racers /\ Ready' = Ready
  BY <1>2 DEF Racers, Ready
<1>7. InputInv' /\ RacersInv' /\ DoneInv'
  BY <1>0, <1>1, <1>2, <1>6 DEF InputInv, requestInput, RacersInv, DoneInv
<1>8. ResultsInv' /\ ChannelInv'
  BY <1>0, <1>2, <1>6 DEF ResultsInv, ChannelInv
<1>9. HeldInv'
  BY <1>2 DEF HeldInv, NothingHeld, Nothing
<1> QED BY <1>3, <1>4, <1>5, <1>7, <1>8, <1>9 DEF IInv, OneStreamLeft

LEMMA RaceAbortsKeeps ==
  ASSUME IInv, RaceAborts, UNCHANGED requestInput
  PROVE  IInv'
<1>0. /\ TypeOK /\ InputInv /\ RacersInv /\ ResultsInv /\ ChannelInv /\ HeldInv /\ DoneInv
  BY DEF IInv, OneStreamLeft
<1>1. /\ phase' = "done" /\ answer' = Said("abort") /\ lost' = TRUE /\ held' = NothingHeld
      /\ attemptCtx' = {} /\ open' \subseteq open
      /\ UNCHANGED <<client, worker, result, ch, heard, breakerVars>>
      /\ phase = "racing"
  BY DEF RaceAborts, Finish
<1>2. Said("abort").kind = "abort" /\ Said("abort") # Nothing
  BY DEF Said, Nothing
<1>3. TypeOK'
  BY <1>0, <1>1, <1>2 DEF TypeOK, breakerVars, BreakerTypeOK, NothingHeld
<1>4. WinnerReadable' /\ LosersReleased'
  BY <1>1, <1>2 DEF WinnerReadable, LosersReleased, Failures
<1>5. Racers' = Racers /\ Ready' = Ready
  BY <1>1 DEF Racers, Ready
<1>6. InputInv' /\ RacersInv' /\ DoneInv' /\ ResultsInv' /\ ChannelInv'
  BY <1>0, <1>1, <1>5
  DEF InputInv, requestInput, RacersInv, DoneInv, ResultsInv, ChannelInv
<1>7. HeldInv'
  BY <1>1 DEF HeldInv, NothingHeld, Nothing
<1> QED BY <1>3, <1>4, <1>6, <1>7 DEF IInv, OneStreamLeft

\* The client leaves, or nothing happens.
LEMMA AroundKeeps ==
  ASSUME IInv, ClientGone \/ UNCHANGED vars
  PROVE  IInv'
<1>1. /\ UNCHANGED <<requestInput, phase, worker, attemptCtx, result, ch, lost, heard, held,
                     open, answer, breakerVars>>
      /\ client' = client \/ (client' = "gone" /\ phase # "done")
  BY DEF ClientGone, vars
<1>2. TypeOK'
  BY <1>1 DEF IInv, OneStreamLeft, TypeOK, breakerVars, BreakerTypeOK
<1>3. WinnerReadable' /\ LosersReleased'
  BY <1>1 DEF IInv, OneStreamLeft, WinnerReadable, LosersReleased
<1>4. InputInv' /\ RacersInv' /\ ResultsInv' /\ ChannelInv' /\ DoneInv'
  BY <1>1 DEF IInv, InputInv, requestInput, RacersInv, Racers, ResultsInv, Ready, ChannelInv, DoneInv
<1>5. HeldInv'
  BY <1>1 DEF IInv, HeldInv, Held, Heard
<1> QED BY <1>2, <1>3, <1>4, <1>5 DEF IInv, OneStreamLeft

LEMMA Inductive == IInv /\ [Next]_vars => IInv'
<1> SUFFICES ASSUME IInv, [Next]_vars PROVE IInv'
  OBVIOUS
<1>1. CASE Schedule
  BY <1>1, StartKeeps, WaitReturnsKeeps, AloneReturnsKeeps, ReceiveKeeps, ConcludeKeeps,
     RaceAbortsKeeps DEF Schedule
<1>2. CASE \E c \in Cands : Goroutine(c)
  BY <1>2, ReturnsKeeps, DeliversKeeps DEF Goroutine
<1>3. CASE ClientGone \/ UNCHANGED vars
  BY <1>3, AroundKeeps
<1> QED BY <1>1, <1>2, <1>3 DEF Next

LEMMA Invariant == Spec => []IInv
BY Initially, Inductive, PTL DEF Spec

\* However the race ends, whoever hears of the losers and whenever the client
\* leaves: its answer can be read, and no other stream of it stays held.
THEOREM OneStream == Spec => []OneStreamLeft
<1>1. IInv => OneStreamLeft
  BY DEF IInv
<1> QED BY <1>1, Invariant, PTL

------------------------------------------------------------------------------
(* The contract of a schedule *)

\* A step, as the contract sees it.
ContractStep == [Promise!ContractNext]_(Promise!contractVars)

\* How the contract reads an outcome: every failure and error is a hard one.
LEMMA RacedSays ==
  /\ \A r \in Outcomes :
       Raced(r) = [kind |-> IF r.kind \in {"success", "soft"} THEN r.kind ELSE "hard", of |-> r.of]
  /\ Raced(Nothing) = Nothing
  /\ \A k \in {"abort", "rateLimited", "unavailable"} : Raced(Said(k)) = Said(k)
<1>1. ASSUME NEW r \in Outcomes
      PROVE  Raced(r) = [kind |-> IF r.kind \in {"success", "soft"} THEN r.kind ELSE "hard",
                         of |-> r.of]
  <2>1. r.of # "nobody" /\ r.kind \in Kinds /\ r = [kind |-> r.kind, of |-> r.of]
    BY OutcomeAssumption DEF OutcomeAssumption, Outcomes
  <2>2. [r EXCEPT !.kind = "hard"] = [kind |-> "hard", of |-> r.of]
    BY <2>1
  <2> QED BY <2>1, <2>2 DEF Raced, Class, Kept, Kinds, Failures, Errors
<1>2. Raced(Nothing) = Nothing
  BY DEF Raced, Class, Kept, Nothing, Failures
<1>3. \A k \in {"abort", "rateLimited", "unavailable"} : Raced(Said(k)) = Said(k)
  BY DEF Raced, Class, Kept, Said, Failures
<1> QED BY <1>1, <1>2, <1>3

\* Only a schedule of one child stands on an outcome that it does not hold.
LEMMA StandsOnHeld ==
  /\ phase # "alone" => Alone = {} /\ Standing = Raced(Held)
  /\ phase' # "alone" => Alone' = {} /\ Standing' = Raced(Held)'
BY DEF Alone, Standing

\* Nothing is held, and nobody was heard, before the race.
LEMMA BeforeRace ==
  ASSUME IInv, phase \in {"entry", "permit", "alone"}
  PROVE  heard = {} /\ held = NothingHeld /\ Held = Nothing /\ answer = Nothing
<1>1. held = NothingHeld /\ heard = {} /\ answer = Nothing
  BY DEF IInv, HeldInv, ChannelInv, DoneInv
<1> QED BY <1>1 DEF Held, NothingHeld

\* What the contract does not see.
LEMMA Silent ==
  ASSUME UNCHANGED <<heard, held, answer>>, Alone = {}, Alone' = {}
  PROVE  ContractStep
<1>1. Standing = Raced(Held) /\ Standing' = Raced(Held)' /\ Held' = Held
  BY DEF Standing, Held
<1>2. UNCHANGED <<heard \cup Alone, Standing, Raced(answer)>>
  BY <1>1 DEF Raced
<1> QED BY <1>2 DEF ContractStep, Promise!contractVars

\* An end without a race gives up, or tells that nothing could be tried.
LEMMA UnracedReturns ==
  ASSUME IInv, phase \in {"entry", "permit"}, UNCHANGED <<heard, held>>,
         NEW k \in {"abort", "unavailable", "rateLimited"}, Finish(Said(k))
  PROVE  ContractStep
<1>1. heard = {} /\ held = NothingHeld /\ Held = Nothing /\ answer = Nothing
  BY BeforeRace
<1>2. phase' = "done" /\ answer' = Said(k) /\ Held' = Nothing
  BY <1>1 DEF Finish, Held
<1>3. Alone = {} /\ Standing = Nothing /\ Alone' = {} /\ Standing' = Nothing
  BY <1>1, <1>2, StandsOnHeld, RacedSays DEF Raced
<1>4. Raced(answer) = Nothing /\ Raced(answer)' = Said(k)
  BY <1>1, <1>2, RacedSays DEF Raced
<1>5. CASE k = "abort"
  <2>1. Promise!GiveUp
    BY <1>1, <1>3, <1>4, <1>5 DEF Promise!GiveUp, Promise!Nothing, Promise!Said, Nothing, Said
  <2> QED BY <2>1 DEF ContractStep, Promise!ContractNext
<1>6. CASE k \in {"unavailable", "rateLimited"}
  <2>1. Promise!Return
    BY <1>1, <1>3, <1>4, <1>6 DEF Promise!Return, Promise!Nothing, Promise!Said, Nothing, Said
  <2> QED BY <2>1 DEF ContractStep, Promise!ContractNext
<1> QED BY <1>5, <1>6

\* The end of a schedule that had something to stand on.
LEMMA EndReturns ==
  ASSUME NEW r \in Outcomes, Standing = Raced(r), answer = Nothing, answer' = r,
         Standing' = Nothing, heard' \cup Alone' = heard \cup Alone
  PROVE  ContractStep
<1>1. Raced(answer) = Nothing /\ Raced(answer)' = Raced(r)
  BY RacedSays DEF Raced
<1>2. Raced(r).kind \in {"success", "soft", "hard"}
  BY RacedSays
<1>3. Promise!Return
  BY <1>1, <1>2 DEF Promise!Return, Promise!Nothing, Nothing
<1> QED BY <1>3 DEF ContractStep, Promise!ContractNext

\* A turn: of a child that had none, with nothing final in hand, and what is stood
\* on afterwards is what the contract admits.
LEMMA TurnIsTry ==
  ASSUME NEW r \in Outcomes, UNCHANGED answer, answer = Nothing,
         r.of \notin heard \cup Alone,
         heard' \cup Alone' = (heard \cup Alone) \cup {r.of},
         Standing.kind \notin {"success", "abort"},
         \/ Standing' = Raced(r) /\ (r.kind = "soft" => Standing.kind # "hard")
         \/ Standing' = Standing /\ Standing.kind = "hard" /\ r.kind # "success"
  PROVE  ContractStep
<1>1. Raced(answer) = Nothing /\ Raced(answer)' = Nothing
  BY RacedSays DEF Raced
<1> DEFINE k == IF r.kind \in {"success", "soft"} THEN r.kind ELSE "hard"
<1>2. Raced(r) = [kind |-> k, of |-> r.of] /\ k \in {"success", "soft", "hard"} /\ r.of \in Cands
  BY RacedSays, OutcomesSay
<1>3. Standing' \in Promise!Standing(r.of, k)
  BY <1>2 DEF Promise!Standing
<1> HIDE DEF k
<1>4. Promise!Try(r.of)
  BY <1>1, <1>2, <1>3 DEF Promise!Try, Promise!Nothing, Nothing
<1> QED BY <1>2, <1>4 DEF ContractStep, Promise!ContractNext

LEMMA StartContract == ASSUME IInv, Start PROVE ContractStep
<1>1. phase = "entry" /\ UNCHANGED <<heard, held>>
  BY DEF Start
<1>2. ASSUME NEW k \in {"abort", "unavailable", "rateLimited"}, Finish(Said(k))
      PROVE  ContractStep
  BY <1>1, <1>2, UnracedReturns
<1>3. ASSUME NEW S \in SUBSET Cands, Runs(S), UNCHANGED answer
      PROVE  ContractStep
  <2>1. Alone = {}
    BY <1>1 DEF Alone
  <2>2. \A c \in Racers' : worker'[c] # "returned"
    BY <1>3 DEF Runs, Racers
  <2>3. Alone' = {}
    BY <2>2 DEF Alone
  <2> QED BY <1>1, <1>3, <2>1, <2>3, Silent
<1>4. CASE client = "live"
  <2>1. children \subseteq Cands
    BY OutcomeAssumption DEF OutcomeAssumption, IInv, InputInv
  <2>2. PICK able \in SUBSET children :
          \/ Finish(Said("unavailable"))
          \/ Runs(able) /\ UNCHANGED answer
          \/ \E granted \in SUBSET able :
               Finish(Said("rateLimited")) \/ (Runs(granted) /\ UNCHANGED answer)
    BY <1>4 DEF Start
  <2> QED BY <1>2, <1>3, <2>1, <2>2
<1> QED BY <1>2, <1>4 DEF Start

LEMMA WaitContract == ASSUME IInv, WaitReturns PROVE ContractStep
<1>1. phase = "permit" /\ UNCHANGED <<heard, held>>
  BY DEF WaitReturns
<1>2. ASSUME NEW k \in {"abort", "unavailable", "rateLimited"}, Finish(Said(k))
      PROVE  ContractStep
  BY <1>1, <1>2, UnracedReturns
<1>3. CASE phase' = "alone" /\ UNCHANGED <<worker, answer, breakerVars>>
  BY <1>1, <1>3, Silent DEF IInv, RacersInv, Alone, Racers
<1> QED BY <1>2, <1>3 DEF WaitReturns

\* The return of the only child is its turn; in a race it is not seen yet.
LEMMA ReturnsContract == ASSUME IInv, NEW c \in Cands, Returns(c) PROVE ContractStep
<1>1. /\ worker[c] = "running" /\ worker' = [worker EXCEPT ![c] = "returned"]
      /\ UNCHANGED <<phase, heard, held, answer>>
  BY DEF Returns
<1>2. PICK k \in Kinds : result' = [result EXCEPT ![c] = [kind |-> k, of |-> c]]
  BY DEF Returns, Arrivals
<1>3. CASE phase # "alone"
  BY <1>1, <1>3, Silent DEF Alone
<1>4. CASE phase = "alone"
  <2>1. Racers = {c}
    BY <1>1, <1>4 DEF IInv, RacersInv, Racers
  <2>2. Alone = {} /\ Alone' = {c}
    <3>1. worker \in [Cands -> {"off", "running", "returned", "over"}]
      BY DEF IInv, OneStreamLeft, TypeOK
    <3>2. Racers' = {c} /\ worker'[c] = "returned" /\ phase' = "alone"
      BY <1>1, <1>4, <2>1, <3>1 DEF Racers
    <3> QED BY <1>1, <2>1, <3>2 DEF Alone
  <2>3. heard = {} /\ Held = Nothing /\ answer = Nothing
    BY <1>4, BeforeRace
  <2>4. Standing = Nothing
    BY <2>2, <2>3, RacedSays DEF Standing
  <2> DEFINE r == [kind |-> k, of |-> c]
  <2>5. r \in Outcomes /\ r.of = c
    BY DEF Outcomes
  <2>6. Standing' = Raced(r)
    <3>1. (CHOOSE d \in Alone' : TRUE) = c
      BY <2>2
    <3>2. result'[c] = r
      BY <1>2 DEF IInv, OneStreamLeft, TypeOK
    <3>3. Standing' = Raced(result'[CHOOSE d \in Alone' : TRUE])
      BY <2>2 DEF Standing, Raced, Class, Kept
    <3> QED BY <3>1, <3>2, <3>3
  <2> HIDE DEF r
  <2> QED BY <1>1, <2>2, <2>3, <2>4, <2>5, <2>6, TurnIsTry DEF Nothing
<1> QED BY <1>3, <1>4

LEMMA AloneContract == ASSUME IInv, AloneReturns PROVE ContractStep
<1>1. PICK c \in Racers :
        /\ worker[c] = "returned" /\ heard' = {c}
        /\ phase' = "done" /\ answer' = result[c]
  BY DEF AloneReturns, Finish
<1>2. phase = "alone" /\ UNCHANGED held
  BY DEF AloneReturns
<1>3. Racers = {c} /\ Alone = {c} /\ c \in Cands
  BY <1>1, <1>2 DEF IInv, RacersInv, Alone, Racers
<1>4. heard = {} /\ Held = Nothing /\ answer = Nothing /\ held = NothingHeld
  BY <1>2, BeforeRace
<1>5. Standing = Raced(result[c])
  BY <1>3 DEF Standing
<1>6. result[c] \in Outcomes
  BY <1>1, <1>3 DEF IInv, ResultsInv, Ready
<1>7. Alone' = {} /\ Standing' = Nothing
  BY <1>1, <1>2, <1>4, StandsOnHeld, RacedSays DEF Held, Raced
<1> QED BY <1>1, <1>3, <1>4, <1>5, <1>6, <1>7, EndReturns

\* An outcome received is the turn of its child.
LEMMA ReceiveContract == ASSUME IInv, Receive PROVE ContractStep
<1>0. TypeOK /\ HeldInv /\ answer = Nothing
  BY DEF IInv, OneStreamLeft, DoneInv, Receive
<1> DEFINE r == Head(ch)
<1>1. r \in Outcomes /\ r.of \in Cands \ heard /\ r # Nothing
  BY Received, OutcomesSay DEF Receive
<1>2. /\ phase = "racing" /\ UNCHANGED answer
      /\ heard' = heard \cup {r.of}
  BY DEF Receive, Hear
<1>3. \/ /\ r.kind = "success" /\ phase' = "won"
         /\ held' = [NothingHeld EXCEPT !.hard = r]
      \/ r.kind = "soft" /\ held' = [held EXCEPT !.soft = r] /\ UNCHANGED phase
      \/ r.kind \in Failures /\ held' = [held EXCEPT !.hard = r] /\ UNCHANGED phase
      \/ r.kind \in Errors /\ held' = [held EXCEPT !.err = r] /\ UNCHANGED phase
  BY DEF Receive
<1> HIDE DEF r
<1>4. /\ Alone = {} /\ Standing = Raced(Held)
      /\ Alone' = {} /\ Standing' = Raced(Held)'
  BY <1>2, <1>3, StandsOnHeld
<1>5. /\ held.hard = Nothing \/ (held.hard \in Outcomes /\ held.hard.kind \in Failures)
      /\ held.err = Nothing \/ (held.err \in Outcomes /\ held.err.kind \in Errors)
      /\ held.soft = Nothing \/ (held.soft \in Outcomes /\ held.soft.kind = "soft")
  BY <1>0, <1>2 DEF TypeOK, HeldInv
<1>6. /\ Standing.kind \in {"nothing", "soft", "hard"}
      /\ held.hard # Nothing \/ held.err # Nothing => Standing.kind = "hard"
      /\ held.hard = Nothing /\ held.err = Nothing => Standing.kind # "hard"
  BY <1>4, <1>5, RacedSays DEF Held, Nothing, Failures, Errors
<1>7. held' = [hard |-> held'.hard, err |-> held'.err, soft |-> held'.soft]
  BY <1>0, <1>3 DEF TypeOK, NothingHeld
<1>8. \/ Held' = r /\ (r.kind = "soft" => held.hard = Nothing /\ held.err = Nothing)
      \/ /\ Held' = Held /\ r.kind # "success"
         /\ held.hard # Nothing \/ held.err # Nothing
  <2>1. CASE r.kind = "success"
    BY <1>1, <1>3, <2>1 DEF Held, NothingHeld, Failures, Errors
  <2>2. CASE r.kind = "soft"
    BY <1>0, <1>1, <1>3, <2>2 DEF Held, TypeOK, Failures, Errors
  <2>3. CASE r.kind \in Failures
    BY <1>0, <1>1, <1>3, <2>3 DEF Held, TypeOK, Failures, Errors
  <2>4. CASE r.kind \in Errors
    BY <1>0, <1>1, <1>3, <2>4 DEF Held, TypeOK, Failures, Errors
  <2> QED BY <1>3, <2>1, <2>2, <2>3, <2>4
<1>9. \/ Standing' = Raced(r) /\ (r.kind = "soft" => Standing.kind # "hard")
      \/ Standing' = Standing /\ Standing.kind = "hard" /\ r.kind # "success"
  <2>1. Raced(Held)' = Raced(Held')
    BY DEF Raced, Class, Kept
  <2> QED BY <1>4, <1>6, <1>8, <2>1
<1> QED BY <1>0, <1>1, <1>2, <1>4, <1>6, <1>9, TurnIsTry

LEMMA ConcludeContract == ASSUME IInv, Conclude PROVE ContractStep
<1>1. Held \in Outcomes
  BY HeldSays DEF Conclude
<1>2. /\ phase \in {"racing", "won"} /\ phase' = "done" /\ answer' = Held
      /\ held' = NothingHeld /\ heard' = heard /\ answer = Nothing
  BY DEF Conclude, Finish, IInv, DoneInv
<1>3. Held' = Nothing
  BY <1>2 DEF Held, NothingHeld
<1>4. /\ Alone = {} /\ Standing = Raced(Held)
      /\ Alone' = {} /\ Standing' = Nothing
  BY <1>2, <1>3, StandsOnHeld, RacedSays DEF Raced
<1> QED BY <1>1, <1>2, <1>4, EndReturns

LEMMA AbortContract == ASSUME IInv, RaceAborts PROVE ContractStep
<1>1. /\ phase = "racing" /\ phase' = "done" /\ answer' = Said("abort")
      /\ held' = NothingHeld /\ heard' = heard /\ answer = Nothing
  BY DEF RaceAborts, Finish, IInv, DoneInv
<1>2. Held' = Nothing
  BY <1>1 DEF Held, NothingHeld
<1>3. /\ Alone = {} /\ Standing = Raced(Held)
      /\ Alone' = {} /\ Standing' = Nothing
  BY <1>1, <1>2, StandsOnHeld, RacedSays DEF Raced
<1>4. Held = Nothing \/ (Held \in Outcomes /\ Held.kind # "success")
  BY <1>1 DEF IInv, OneStreamLeft, TypeOK, HeldInv, Held, Errors
<1>5. Standing.kind # "success"
  BY <1>3, <1>4, RacedSays DEF Nothing
<1>6. Raced(answer) = Nothing /\ Raced(answer)' = Said("abort")
  BY <1>1, RacedSays DEF Raced
<1>7. Promise!GiveUp
  BY <1>1, <1>3, <1>5, <1>6 DEF Promise!GiveUp, Promise!Nothing, Promise!Said, Nothing, Said
<1> QED BY <1>7 DEF ContractStep, Promise!ContractNext

\* Whatever the order in which the racers return, deliver or are dropped, the race
\* does what the callers of the scheduler are promised: the first success received
\* is the answer, a soft result never outranks a failure, an abort ends the race.
THEOREM Contract == Spec => KeepsContract
<1>1. Init => Promise!ContractInit
  <2> SUFFICES ASSUME Init PROVE Promise!ContractInit
    OBVIOUS
  <2>1. phase = "entry" /\ heard = {} /\ answer = Nothing /\ Held = Nothing
    BY DEF Init, Held, NothingHeld
  <2>2. Alone = {} /\ Standing = Nothing /\ Raced(answer) = Nothing
    BY <2>1, StandsOnHeld, RacedSays
  <2> QED BY <2>1, <2>2 DEF Promise!ContractInit, Promise!Nothing, Nothing
<1>2. IInv /\ [Next]_vars => ContractStep
  <2> SUFFICES ASSUME IInv, [Next]_vars PROVE ContractStep
    OBVIOUS
  <2>1. CASE Schedule
    BY <2>1, StartContract, WaitContract, AloneContract, ReceiveContract, ConcludeContract,
       AbortContract DEF Schedule
  <2>2. CASE \E c \in Cands : Returns(c)
    BY <2>2, ReturnsContract
  <2>3. ASSUME NEW c \in Cands, Delivers(c)
        PROVE  ContractStep
    BY <2>3, Silent DEF Delivers, Alone
  <2>4. CASE ClientGone \/ UNCHANGED vars
    <3>1. UNCHANGED <<heard, held, answer, worker, result, phase>>
      BY <2>4 DEF ClientGone, vars
    <3>2. Alone' = Alone /\ Standing' = Standing /\ Raced(answer)' = Raced(answer)
      BY <3>1 DEF Alone, Racers, Standing, Held, Raced
    <3> QED BY <3>1, <3>2 DEF ContractStep, Promise!contractVars
  <2> QED BY <2>1, <2>2, <2>3, <2>4 DEF Next, Goroutine
<1> QED BY <1>1, <1>2, Invariant, PTL DEF Spec, KeepsContract, Promise!Contract, ContractStep
==============================================================================
