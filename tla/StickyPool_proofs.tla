------------------------- MODULE StickyPool_proofs -------------------------
(***************************************************************************)
(* Theorems of StickyPool for any number of requests, keys, leaves, rules  *)
(* and Applies, any weights and rates: the sharing of successes, the       *)
(* sessions and the permits, which the run sticky_pool checks on one       *)
(* instance.                                                               *)
(***************************************************************************)
EXTENDS StickyPool, FiniteSetTheorems, SequenceTheorems, WellFoundedInduction, TLAPS

Requests ==
  [pc : {"idle", "materialized", "pick", "admit", "sent"}, key : Keys \cup {NoKey},
   rules : Managers, sched : Managers, now : Nat, remaining : SUBSET Cands,
   picked : Cands \cup {Nobody}]

\* A request read the rules and the scheduler of a version there is, and its clock
\* before now; as long as it schedules, somebody remains.
RequestOK(x, v, t) ==
  /\ x \in Requests
  /\ x.rules <= v /\ x.sched <= v /\ x.now <= t
  /\ x.pc = "pick" => x.remaining # {}
  /\ x.pc \in {"admit", "sent"} => x.picked \in x.remaining

PoolInv ==
  /\ clock \in Nat /\ version \in Managers
  /\ successCnt \in [Cands -> Nat] /\ served = successCnt /\ swayed \in BOOLEAN
  /\ req = [s \in Slots |-> req[s]]
  /\ \A s \in Slots : RequestOK(req[s], version, clock)

\* The store holds the binding of every session that is still good.
SessionInv ==
  /\ DOMAIN stickies \subseteq Keys
  /\ last \in [Keys -> [candidate : Cands \cup {Nobody}, at : Nat]]
  /\ \A k \in Keys :
       last[k].candidate # Nobody /\ clock < last[k].at + IdleTimeout =>
         /\ k \in DOMAIN stickies
         /\ stickies[k].candidate = last[k].candidate
         /\ stickies[k].expiresAt = last[k].at + IdleTimeout

Bucket == [qpm : Nat, tokens : Nat]

ManagerOK(m) ==
  /\ m = [limiters |-> m.limiters, modelLimiters |-> m.modelLimiters]
  /\ m.limiters \in [DOMAIN m.limiters -> Bucket]
  /\ m.modelLimiters \in [DOMAIN m.modelLimiters -> Bucket]

Log == Seq([at : Nat, rules : Managers])

\* Since each of its permits, a bucket gave what it held or was filled with in between, and
\* what it still holds it has not given; between two of them it gave no more than that.
BucketOK(b, log, c, t) ==
  /\ b.qpm > 0 /\ b.tokens <= Full(b.qpm)
  /\ log # <<>> => b.qpm = Rules[log[1].rules].models[c]
  /\ \A i \in DOMAIN log :
       PermitCost * (Len(log) + 1 - i) + b.tokens <= Full(b.qpm) + b.qpm * (t - log[i].at)
  /\ Keeps(log, b.qpm)

\* Nothing was given before there was a bucket to give it.
RateOK(m, g, t) ==
  /\ g \in [Cands -> Log]
  /\ DOMAIN m.modelLimiters \subseteq Cands
  /\ \A c \in Cands :
       IF c \in DOMAIN m.modelLimiters
       THEN /\ Provider[c] \in DOMAIN m.limiters
            /\ g[c] # <<>> /\ BucketOK(m.modelLimiters[c], g[c], c, t)
       ELSE Provider[c] \in DOMAIN m.limiters => g[c] = <<>>

RateInv ==
  /\ manager = [v \in 1 .. version |-> manager[v]]
  /\ given = [v \in Managers |-> given[v]]
  /\ \A v \in 1 .. version : ManagerOK(manager[v]) /\ RateOK(manager[v], given[v], clock)
  /\ \A v \in Managers : v > version => given[v] = [c \in Cands |-> <<>>]

InFlight(c) == {s \in Slots : req[s].pc \in {"admit", "sent"} /\ req[s].picked = c}

\* Counting what is in flight as if it were served, a candidate is ahead of another by
\* no more than the requests there can be: each was the least served when it was picked.
ShareInv ==
  ~ swayed =>
    /\ \A s \in Slots : req[s].pc \in {"pick", "admit", "sent"} => req[s].remaining = Cands
    /\ \A a, b \in Cands :
         (served[a] + Cardinality(InFlight(a))) * Weight[b]
           <= served[b] * Weight[a] + Cardinality(Slots) * Weight[b]

\* What makes the properties inductive.
IInv == PoolInv /\ SessionInv /\ RateInv /\ ShareInv

------------------------------------------------------------------------------
(* Minimal elements *)

\* Every set of naturals has a least one.
LEMMA Least ==
  ASSUME NEW T \in SUBSET Nat, T # {}
  PROVE  \E m \in T : \A n \in T : m <= n
<1> DEFINE R == {ss \in Nat \X Nat : ss[1] < ss[2]}
<1>1. IsWellFoundedOn(R, Nat)
  BY NatLessThanWellFounded DEF OpToRel
<1>2. ASSUME NEW n \in Nat, NEW m \in Nat, n < m PROVE <<n, m>> \in R
  BY <1>2
<1> HIDE DEF R
<1>3. PICK m \in T : \A n \in T : ~ (<<n, m>> \in R)
  BY <1>1, WFMin
<1>4. ASSUME NEW n \in T PROVE m <= n
  <2>1. m \in Nat /\ n \in Nat /\ ~ (n < m)
    BY <1>2, <1>3
  <2> QED BY <2>1
<1> QED BY <1>4

\* A strict order on a finite set has a minimal element: the one with the fewest before it.
LEMMA Minimal ==
  ASSUME NEW S, IsFiniteSet(S), S # {}, NEW R,
         \A x \in S : <<x, x>> \notin R,
         \A x, y, z \in S : <<x, y>> \in R /\ <<y, z>> \in R => <<x, z>> \in R
  PROVE  \E x \in S : \A y \in S : <<y, x>> \notin R
<1> DEFINE Before(x) == {y \in S : <<y, x>> \in R}
           T == {Cardinality(Before(x)) : x \in S}
<1>1. ASSUME NEW x \in S
      PROVE  IsFiniteSet(Before(x)) /\ Cardinality(Before(x)) \in Nat
  <2>1. IsFiniteSet(Before(x))
    BY FS_Subset
  <2> QED BY <2>1, FS_CardinalityType
<1>2. T \in SUBSET Nat /\ T # {}
  <2>1. ASSUME NEW t \in T PROVE t \in Nat
    <3>1. PICK x \in S : t = Cardinality(Before(x))
      OBVIOUS
    <3> QED BY <1>1, <3>1
  <2>2. T # {}
    <3>1. PICK x \in S : TRUE
      OBVIOUS
    <3>2. Cardinality(Before(x)) \in T
      OBVIOUS
    <3> QED BY <3>2
  <2> QED BY <2>1, <2>2
<1>3. PICK m \in T : \A n \in T : m <= n
  BY <1>2, Least
<1>4. PICK x \in S : m = Cardinality(Before(x))
  BY <1>3
<1>5. ASSUME NEW y \in S, <<y, x>> \in R PROVE FALSE
  <2>1. Before(y) \in SUBSET Before(x)
    BY <1>5
  <2>2. y \in Before(x) /\ y \notin Before(y)
    BY <1>5
  <2>3. Cardinality(Before(y)) <= Cardinality(Before(x))
    BY <1>1, <2>1, FS_Subset
  <2>4. Cardinality(Before(y)) # Cardinality(Before(x))
    BY <1>1, <2>1, <2>2, FS_Subset
  <2>5. Cardinality(Before(y)) \in T
    OBVIOUS
  <2>6. m <= Cardinality(Before(y))
    BY <1>3, <2>5
  <2>7. Cardinality(Before(y)) \in Nat /\ Cardinality(Before(x)) \in Nat
    BY <1>1
  <2> HIDE DEF Before, T
  <2> QED BY <1>4, <2>3, <2>4, <2>6, <2>7
<1> QED BY <1>5

------------------------------------------------------------------------------
(* The deficit *)

LEMMA Multiplied ==
  ASSUME NEW p \in Nat, NEW q \in Nat, NEW r \in Nat, p <= q
  PROVE  p * r <= q * r
OBVIOUS

LEMMA MultipliedStrictly ==
  ASSUME NEW p \in Nat, NEW q \in Nat, NEW r \in Nat \ {0}, p < q
  PROVE  p * r < q * r
OBVIOUS

LEMMA Swapped ==
  ASSUME NEW p \in Nat, NEW q \in Nat, NEW r \in Nat
  PROVE  (p * q) * r = (p * r) * q
OBVIOUS

\* Comparing quotients by cross-multiplication is transitive.
LEMMA CrossTransitive ==
  ASSUME NEW a \in Nat, NEW b \in Nat, NEW c \in Nat,
         NEW x \in Nat \ {0}, NEW y \in Nat \ {0}, NEW z \in Nat \ {0},
         a * y <= b * x, b * z <= c * y
  PROVE  /\ a * z <= c * x
         /\ (a * y < b * x \/ b * z < c * y) => a * z < c * x
<1>1. (a * y) * z <= (b * x) * z /\ (b * z) * x <= (c * y) * x
  BY Multiplied
<1>2. a * y < b * x => (a * y) * z < (b * x) * z
  BY MultipliedStrictly
<1>3. b * z < c * y => (b * z) * x < (c * y) * x
  BY MultipliedStrictly
<1>4. /\ (a * y) * z = (a * z) * y /\ (b * x) * z = (b * z) * x
      /\ (c * y) * x = (c * x) * y
  BY Swapped
<1>0. /\ a * y \in Nat /\ b * x \in Nat /\ b * z \in Nat /\ c * y \in Nat
       /\ a * z \in Nat /\ c * x \in Nat
       /\ (a * y) * z \in Nat /\ (b * x) * z \in Nat /\ (b * z) * x \in Nat
       /\ (c * y) * x \in Nat
  OBVIOUS
<1>5. (a * z) * y <= (c * x) * y
  BY <1>1, <1>4, <1>0
<1>6. (a * y < b * x \/ b * z < c * y) => (a * z) * y < (c * x) * y
  BY <1>1, <1>2, <1>3, <1>4, <1>0
<1>7. a * z \in Nat /\ c * x \in Nat
  OBVIOUS
<1>8. ASSUME ~ (a * z <= c * x) PROVE FALSE
  <2>1. (c * x) * y < (a * z) * y
    BY <1>7, <1>8, MultipliedStrictly
  <2> QED BY <1>5, <2>1
<1>9. ASSUME a * y < b * x \/ b * z < c * y, ~ (a * z < c * x) PROVE FALSE
  <2>1. (c * x) * y <= (a * z) * y
    BY <1>7, <1>9, Multiplied
  <2> QED BY <1>6, <1>9, <2>1
<1> QED BY <1>8, <1>9

LEMMA CandsFinite == IsFiniteSet(Cands) /\ Cands # {}
<1>1. Candidates \in Seq(Cands) /\ Candidates # <<>>
  BY PoolAssumption DEF PoolAssumption
<1>2. IsFiniteSet(1 .. Len(Candidates))
  BY <1>1, FS_Interval
<1>3. Candidates \in Surjection(1 .. Len(Candidates), Cands)
  <2>1. DOMAIN Candidates = 1 .. Len(Candidates)
    BY <1>1
  <2>2. Candidates \in [1 .. Len(Candidates) -> Cands]
    BY <1>1, <2>1
  <2>3. \A c \in Cands : \E i \in 1 .. Len(Candidates) : Candidates[i] = c
    BY <2>1 DEF Cands, ToSet
  <2> QED BY <2>2, <2>3 DEF Surjection
<1>4. Candidates[1] \in Cands
  BY <1>1
<1> QED BY <1>2, <1>3, <1>4, FS_Surjection

LEMMA Places ==
  ASSUME NEW c \in Cands
  PROVE  Place(c) \in Nat /\ Candidates[Place(c)] = c
<1>1. Candidates \in Seq(Cands)
  BY PoolAssumption DEF PoolAssumption
<1>2. DOMAIN Candidates \subseteq Nat
  BY <1>1
<1>3. \E i \in DOMAIN Candidates : Candidates[i] = c
  BY DEF Cands, ToSet
<1> QED BY <1>2, <1>3 DEF Place

\* The order in which PickDeficit looks for the least: the quotient of successes and
\* weight, then the greater weight, then the place.
LEMMA DeficitPicks ==
  ASSUME successCnt \in [Cands -> Nat], NEW S \in SUBSET Cands, S # {}
  PROVE  /\ PickDeficit(S) \in S
         /\ \A d \in S : successCnt[PickDeficit(S)] * Weight[d] <= successCnt[d] * Weight[PickDeficit(S)]
<1> DEFINE Score(a, b) == successCnt[a] * Weight[b]
           Better(a, b) == \/ Score(a, b) < Score(b, a)
                           \/ Score(a, b) = Score(b, a) /\ Weight[a] > Weight[b]
           Before(a, b) == Better(a, b) \/ (~ Better(b, a) /\ Place(a) < Place(b))
           R == {ss \in S \X S : Before(ss[1], ss[2])}
<1>1. \A a \in S : /\ successCnt[a] \in Nat /\ Weight[a] \in Nat \ {0} /\ Place(a) \in Nat
                   /\ Candidates[Place(a)] = a
  BY Places, PoolAssumption DEF PoolAssumption
<1>2. \A a, b \in S : Score(a, b) \in Nat
  BY <1>1
<1>3. \A a, b, c \in S :
        Score(a, b) <= Score(b, a) /\ Score(b, c) <= Score(c, b) =>
          /\ Score(a, c) <= Score(c, a)
          /\ (Score(a, b) < Score(b, a) \/ Score(b, c) < Score(c, b)) => Score(a, c) < Score(c, a)
  BY <1>1, CrossTransitive
<1> HIDE DEF Score
<1>4. \A a, b \in S :
        Before(a, b) <=>
          \/ Score(a, b) < Score(b, a)
          \/ /\ Score(a, b) = Score(b, a)
             /\ Weight[a] > Weight[b] \/ (Weight[a] = Weight[b] /\ Place(a) < Place(b))
  BY <1>1, <1>2
<1>5. \A a \in S : ~ Before(a, a)
  BY <1>1, <1>2
<1>6. \A a, b \in S : a # b => Before(a, b) \/ Before(b, a)
  BY <1>1, <1>2
<1> HIDE DEF Before
<1>7. ASSUME NEW a \in S, NEW b \in S, NEW c \in S, Before(a, b), Before(b, c)
      PROVE  Before(a, c)
  <2>1. Score(a, b) <= Score(b, a) /\ Score(b, c) <= Score(c, b)
    BY <1>2, <1>4, <1>7
  <2>2. CASE Score(a, b) < Score(b, a) \/ Score(b, c) < Score(c, b)
    BY <1>3, <1>4, <2>1, <2>2
  <2>3. CASE Score(a, b) = Score(b, a) /\ Score(b, c) = Score(c, b)
    <3>1. Score(a, c) <= Score(c, a) /\ Score(c, a) <= Score(a, c)
      BY <1>2, <1>3, <2>3
    <3>2. Score(a, c) = Score(c, a)
      BY <1>2, <3>1
    <3>3. /\ Weight[a] > Weight[b] \/ (Weight[a] = Weight[b] /\ Place(a) < Place(b))
          /\ Weight[b] > Weight[c] \/ (Weight[b] = Weight[c] /\ Place(b) < Place(c))
      BY <1>2, <1>4, <1>7, <2>3
    <3>4. Weight[a] > Weight[c] \/ (Weight[a] = Weight[c] /\ Place(a) < Place(c))
      BY <1>1, <3>3
    <3> QED BY <1>4, <3>2, <3>4
  <2> QED BY <1>2, <2>1, <2>2, <2>3
<1>8. \A a, b \in S : <<a, b>> \in R <=> Before(a, b)
  OBVIOUS
<1> HIDE DEF R
<1>9. PICK m \in S : \A y \in S : <<y, m>> \notin R
  <2>1. IsFiniteSet(S)
    BY CandsFinite, FS_Subset
  <2>2. \A x \in S : <<x, x>> \notin R
    BY <1>5, <1>8
  <2>3. \A x, y, z \in S : <<x, y>> \in R /\ <<y, z>> \in R => <<x, z>> \in R
    BY <1>7, <1>8
  <2> QED BY <2>1, <2>2, <2>3, Minimal
<1>10. \A d \in S \ {m} : Before(m, d)
  BY <1>6, <1>8, <1>9
<1> DEFINE p == PickDeficit(S)
<1>11. p \in S /\ \A d \in S \ {p} : Before(p, d)
  <2>1. p = CHOOSE c \in S : \A d \in S \ {c} : Before(c, d)
    BY DEF PickDeficit, Before, Score
  <2> QED BY <1>10, <2>1
<1>12. ASSUME NEW d \in S PROVE Score(p, d) <= Score(d, p)
  <2>1. CASE d = p
    BY <1>2, <1>11, <2>1
  <2>2. CASE d # p
    BY <1>2, <1>4, <1>11, <2>2
  <2> QED BY <2>1, <2>2
<1> QED BY <1>11, <1>12 DEF Score

------------------------------------------------------------------------------
(* The buckets *)

LEMMA VersionsAre == Managers = 1 .. Len(Rules) /\ Len(Rules) \in Nat /\ 1 \in Managers
BY PoolAssumption DEF PoolAssumption, Managers

LEMMA CostMore ==
  ASSUME NEW k \in Nat \ {0}, NEW n \in Nat \ {0}
  PROVE  k * n \in Nat /\ k * n >= k
<1>1. n - 1 \in Nat /\ k * (n - 1) \in Nat
  OBVIOUS
<1>2. k * n = k * (n - 1) + k
  OBVIOUS
<1> QED BY <1>1, <1>2

LEMMA OneMore ==
  ASSUME NEW k \in Nat, NEW n \in Int, NEW i \in Int
  PROVE  k * ((n + 1) - i) = k * (n - i) + k
OBVIOUS

LEMMA MaxOfTwo ==
  ASSUME NEW a \in Nat, NEW b \in Nat
  PROVE  Max({a, b}) \in {a, b} /\ Max({a, b}) >= a /\ Max({a, b}) >= b
BY DEF Max

LEMMA MinOfTwo ==
  ASSUME NEW a \in Nat, NEW b \in Nat
  PROVE  Min({a, b}) \in {a, b} /\ Min({a, b}) <= a /\ Min({a, b}) <= b
BY DEF Min

LEMMA Rates ==
  /\ PermitCost \in Nat \ {0}
  /\ \A qpm \in Nat : Full(qpm) \in Nat /\ Full(qpm) >= PermitCost
<1>1. PermitCost \in Nat \ {0}
  BY RateAssumption DEF RateAssumption, PermitCost
<1>2. ASSUME NEW qpm \in Nat PROVE Full(qpm) \in Nat /\ Full(qpm) >= PermitCost
  <2>1. qpm \div 60 \in Nat
    OBVIOUS
  <2>2. Burst(qpm) \in Nat \ {0}
    BY <2>1, MaxOfTwo DEF Burst
  <2> QED BY <1>1, <2>2, CostMore DEF Full
<1> QED BY <1>1, <1>2

\* A bucket is made full, is never overdrawn and never overflows.
LEMMA Buckets ==
  /\ \A qpm \in Nat :
       /\ NewLimiter(qpm) \in Bucket /\ NewLimiter(qpm).qpm = qpm
       /\ NewLimiter(qpm).tokens <= Full(qpm)
  /\ \A b \in Bucket : Permits(b) =>
       /\ Spent(b) \in Bucket /\ Spent(b).qpm = b.qpm
       /\ b.qpm > 0 => Spent(b).tokens + PermitCost = b.tokens
  /\ \A b \in Bucket :
       /\ Refilled(b) \in Bucket /\ Refilled(b).qpm = b.qpm
       /\ b.qpm > 0 => /\ Refilled(b).tokens <= Full(b.qpm)
                       /\ Refilled(b).tokens <= b.tokens + b.qpm
<1>1. ASSUME NEW qpm \in Nat
      PROVE  /\ NewLimiter(qpm) \in Bucket /\ NewLimiter(qpm).qpm = qpm
             /\ NewLimiter(qpm).tokens <= Full(qpm)
  BY Rates DEF NewLimiter, Unlimited, Bucket
<1>2. ASSUME NEW b \in Bucket, Permits(b)
      PROVE  /\ Spent(b) \in Bucket /\ Spent(b).qpm = b.qpm
             /\ b.qpm > 0 => Spent(b).tokens + PermitCost = b.tokens
  BY <1>2, Rates DEF Spent, Permits, Bucket
<1>3. ASSUME NEW b \in Bucket
      PROVE  /\ Refilled(b) \in Bucket /\ Refilled(b).qpm = b.qpm
             /\ b.qpm > 0 => /\ Refilled(b).tokens <= Full(b.qpm)
                             /\ Refilled(b).tokens <= b.tokens + b.qpm
  <2>1. b.qpm \in Nat /\ b.tokens \in Nat
    BY DEF Bucket
  <2>2. CASE b.qpm = 0
    BY <2>2 DEF Refilled
  <2>3. CASE b.qpm # 0
    <3> DEFINE t == Min({Full(b.qpm), b.tokens + b.qpm})
    <3>1. t \in Nat /\ t <= Full(b.qpm) /\ t <= b.tokens + b.qpm
      <4>1. Full(b.qpm) \in Nat /\ b.tokens + b.qpm \in Nat
        BY <2>1, Rates
      <4> QED BY <4>1, MinOfTwo
    <3>2. Refilled(b) = [b EXCEPT !.tokens = t]
      BY <2>3 DEF Refilled
    <3> HIDE DEF t
    <3> QED BY <2>1, <3>1, <3>2 DEF Bucket
  <2> QED BY <2>2, <2>3
<1> QED BY <1>1, <1>2, <1>3

\* The elements of a log, and what one more changes.
LEMMA Logs ==
  ASSUME NEW log \in Log
  PROVE  /\ Len(log) \in Nat /\ DOMAIN log = 1 .. Len(log)
         /\ \A i \in DOMAIN log : log[i].at \in Nat /\ log[i].rules \in Managers
<1> DEFINE E == [at : Nat, rules : Managers]
<1>1. \A x \in E : x.at \in Nat /\ x.rules \in Managers
  OBVIOUS
<1>2. log \in Seq(E)
  BY DEF Log
<1> HIDE DEF E
<1>3. Len(log) \in Nat /\ DOMAIN log = 1 .. Len(log) /\ \A i \in 1 .. Len(log) : log[i] \in E
  BY <1>2
<1> QED BY <1>1, <1>3

LEMMA LongerLog ==
  ASSUME NEW log \in Log, NEW t \in Nat, NEW v \in Managers,
         NEW more, more = Append(log, [at |-> t, rules |-> v])
  PROVE  /\ more \in Log /\ Len(more) = Len(log) + 1 /\ DOMAIN more = 1 .. Len(log) + 1
         /\ \A i \in DOMAIN log : more[i] = log[i]
         /\ more[Len(log) + 1].at = t /\ more[Len(log) + 1].rules = v
<1> DEFINE E == [at : Nat, rules : Managers]
           e == [at |-> t, rules |-> v]
<1>1. e \in E /\ log \in Seq(E) /\ e.at = t /\ e.rules = v /\ more = Append(log, e)
  BY DEF Log
<1>2. Log = Seq(E)
  BY DEF Log
<1> HIDE DEF E, e
<1>3. more \in Seq(E) /\ Len(more) = Len(log) + 1
      /\ (\A i \in 1 .. Len(log) : more[i] = log[i])
      /\ more[Len(log) + 1] = e
  BY <1>1, AppendProperties
<1>4. DOMAIN more = 1 .. Len(log) + 1
  BY <1>3, <1>1
<1> QED BY <1>1, <1>2, <1>3, <1>4, Logs

\* Time brings a bucket its rate, or less.
LEMMA BucketFills ==
  ASSUME NEW b \in Bucket, NEW log \in Log, NEW c, NEW t \in Nat, BucketOK(b, log, c, t)
  PROVE  BucketOK(Refilled(b), log, c, t + 1)
<1>1. /\ b.qpm \in Nat /\ b.tokens \in Nat /\ b.qpm > 0 /\ Full(b.qpm) \in Nat /\ PermitCost \in Nat
      /\ Len(log) \in Nat /\ DOMAIN log = 1 .. Len(log) /\ \A i \in DOMAIN log : log[i].at \in Nat
  <2>1. b.qpm \in Nat /\ b.tokens \in Nat /\ b.qpm > 0
    BY DEF Bucket, BucketOK
  <2>2. Managers # {}
    BY VersionsAre
  <2> QED BY <2>1, <2>2, Rates, Logs
<1>2. /\ Refilled(b).qpm = b.qpm /\ Refilled(b).tokens \in Nat
      /\ Refilled(b).tokens <= Full(b.qpm) /\ Refilled(b).tokens <= b.tokens + b.qpm
  BY <1>1, Buckets DEF Bucket
<1>3. ASSUME NEW i \in DOMAIN log
      PROVE  PermitCost * (Len(log) + 1 - i) + Refilled(b).tokens
               <= Full(b.qpm) + b.qpm * ((t + 1) - log[i].at)
  <2>1. PermitCost * (Len(log) + 1 - i) + b.tokens <= Full(b.qpm) + b.qpm * (t - log[i].at)
    BY DEF BucketOK
  <2>2. log[i].at \in Nat /\ Len(log) + 1 - i \in Int
    BY <1>1
  <2>3. b.qpm * ((t + 1) - log[i].at) = b.qpm * (t - log[i].at) + b.qpm
    <3>1. b.qpm \in Nat /\ t \in Int /\ log[i].at \in Int
      BY <1>1, <2>2
    <3> QED BY <3>1, OneMore
  <2>4. PermitCost * (Len(log) + 1 - i) \in Int /\ b.qpm * (t - log[i].at) \in Int
    BY <1>1, <2>2
  <2>5. b.qpm \in Int /\ b.tokens \in Int /\ Full(b.qpm) \in Int /\ Refilled(b).tokens \in Int
        /\ Refilled(b).tokens <= b.tokens + b.qpm
    BY <1>1, <1>2
  <2> QED BY <2>1, <2>3, <2>4, <2>5
<1> QED BY <1>1, <1>2, <1>3 DEF BucketOK

\* What is given is taken from the bucket; its first permit is given under the rules that
\* made it.
LEMMA BucketPays ==
  ASSUME NEW b \in Bucket, NEW log \in Log, NEW c, NEW t \in Nat, NEW v \in Managers,
         BucketOK(b, log, c, t), log = <<>> => b.qpm = Rules[v].models[c],
         NEW left, left.qpm = b.qpm, left.tokens \in Nat, left.tokens + PermitCost = b.tokens,
         NEW more, more = Append(log, [at |-> t, rules |-> v])
  PROVE  BucketOK(left, more, c, t)
<1> DEFINE n == Len(log)
           q == b.qpm
           full == Full(b.qpm)
<1>1. /\ q \in Nat /\ q > 0 /\ b.tokens \in Nat /\ full \in Nat /\ PermitCost \in Nat
      /\ b.tokens <= full
  BY Rates DEF Bucket, BucketOK
<1>2. n \in Nat /\ DOMAIN log = 1 .. n /\ \A i \in DOMAIN log : log[i].at \in Nat
  BY Logs
<1>3. /\ Len(more) = n + 1 /\ DOMAIN more = 1 .. n + 1 /\ (\A i \in DOMAIN log : more[i] = log[i])
      /\ more[n + 1].at = t /\ more[n + 1].rules = v
  BY LongerLog
<1>4. log = <<>> <=> n = 0
  BY EmptySeq DEF Log
<1>5. /\ \A i \in DOMAIN log : PermitCost * (n + 1 - i) + b.tokens <= full + q * (t - log[i].at)
      /\ \A i, j \in DOMAIN log : i <= j =>
           PermitCost * (j + 1 - i) <= full + q * (log[j].at - log[i].at)
  BY DEF BucketOK, Keeps
<1>6. log # <<>> => q = Rules[log[1].rules].models[c]
  BY DEF BucketOK
<1> HIDE DEF n, q, full
<1>7. \A i \in DOMAIN more : more[i].at \in Nat /\ i \in Nat /\ (i \in DOMAIN log \/ i = n + 1)
  BY <1>2, <1>3
<1>8. ASSUME NEW i \in DOMAIN more
      PROVE  PermitCost * ((n + 1) + 1 - i) + left.tokens <= full + q * (t - more[i].at)
  <2>1. CASE i \in DOMAIN log
    <3>1. PermitCost * (n + 1 - i) + b.tokens <= full + q * (t - log[i].at)
      BY <1>5, <2>1
    <3>2. PermitCost * ((n + 1) + 1 - i) = PermitCost * (n + 1 - i) + PermitCost
      <4>1. PICK k \in Nat : k = PermitCost
        BY <1>1
      <4>2. PICK m \in Int : m = n + 1
        BY <1>2
      <4>3. i \in Int
        BY <1>7
      <4>4. k * ((m + 1) - i) = k * (m - i) + k
        BY <4>3, OneMore
      <4>5. (m + 1) - i = (n + 1) + 1 - i /\ m - i = n + 1 - i
        BY <1>2, <4>2, <4>3
      <4>6. k * ((n + 1) + 1 - i) = k * (n + 1 - i) + k
        BY <4>4, <4>5, Zenon
      <4> QED BY <4>1, <4>6, Zenon
    <3>3. PermitCost * (n + 1 - i) \in Int /\ q * (t - log[i].at) \in Int /\ more[i] = log[i]
      BY <1>1, <1>2, <1>3, <2>1
    <3>4. left.tokens \in Int /\ PermitCost \in Int /\ b.tokens = left.tokens + PermitCost /\ full \in Int
      BY <1>1
    <3> QED BY <3>1, <3>2, <3>3, <3>4
  <2>2. CASE i = n + 1
    <3>1. (n + 1) + 1 - i = 1 /\ t - more[i].at = 0
      BY <1>2, <1>3, <2>2
    <3>2. PermitCost * 1 = PermitCost /\ q * 0 = 0
      BY <1>1
    <3>3. PermitCost + left.tokens <= full
      BY <1>1
    <3> QED BY <1>1, <3>1, <3>2, <3>3
  <2> QED BY <1>7, <2>1, <2>2
<1>9. ASSUME NEW i \in DOMAIN more, NEW j \in DOMAIN more, i <= j
      PROVE  PermitCost * (j + 1 - i) <= full + q * (more[j].at - more[i].at)
  <2>1. CASE j = n + 1
    <3>1. PermitCost * (j + 1 - i) \in Int /\ q * (t - more[i].at) \in Int
      BY <1>1, <1>2, <1>7, <2>1
    <3>2. PermitCost * (j + 1 - i) + left.tokens <= full + q * (t - more[i].at)
      BY <1>8, <2>1
    <3>3. left.tokens \in Nat /\ full \in Int /\ more[j].at = t
      BY <1>1, <1>3, <2>1
    <3>4. PermitCost * (j + 1 - i) <= full + q * (t - more[i].at)
      <4> DEFINE paid == PermitCost * (j + 1 - i)
                 filled == q * (t - more[i].at)
      <4>1. paid \in Int /\ filled \in Int /\ paid + left.tokens <= full + filled
        BY <3>1, <3>2
      <4> HIDE DEF paid, filled
      <4>2. paid <= full + filled
        BY <3>3, <4>1
      <4> QED BY <4>2 DEF paid, filled
    <3> QED BY <3>3, <3>4
  <2>2. CASE j # n + 1
    <3>1. j \in DOMAIN log /\ j <= n
      BY <1>2, <1>7, <2>2
    <3>2. i \in DOMAIN log
      BY <1>2, <1>7, <1>9, <3>1
    <3>3. PermitCost * (j + 1 - i) <= full + q * (log[j].at - log[i].at)
      BY <1>5, <1>9, <3>1, <3>2
    <3> QED BY <1>3, <3>1, <3>2, <3>3
  <2> QED BY <2>1, <2>2
<1>10. q = Rules[more[1].rules].models[c]
  <2>1. CASE n = 0
    <3>1. more[1].rules = v
      BY <1>3, <2>1
    <3> QED BY <1>4, <2>1, <3>1 DEF q
  <2>2. CASE n # 0
    <3>1. 1 \in DOMAIN log
      BY <1>2, <2>2
    <3>2. more[1] = log[1]
      BY <1>3, <3>1
    <3> QED BY <1>4, <1>6, <2>2, <3>2
  <2> QED BY <2>1, <2>2
<1>11. left.tokens <= full
  BY <1>1
<1>12. full = Full(left.qpm) /\ q = left.qpm
  BY DEF full, q
<1> QED BY <1>1, <1>3, <1>8, <1>9, <1>10, <1>11, <1>12 DEF BucketOK, Keeps

LEMMA Tables ==
  ASSUME NEW m, ManagerOK(m)
  PROVE  /\ \A p \in DOMAIN m.limiters : m.limiters[p] \in Bucket
         /\ \A i \in DOMAIN m.modelLimiters : m.modelLimiters[i] \in Bucket
BY DEF ManagerOK

\* A manager begins without identities, so before anything was given.
LEMMA NewManagerOK ==
  ASSUME NEW v \in DOMAIN Rules, NEW t
  PROVE  /\ ManagerOK(NewManager(Rules[v].providers))
         /\ RateOK(NewManager(Rules[v].providers), [c \in Cands |-> <<>>], t)
<1>1. \A p \in DOMAIN Rules[v].providers : NewLimiter(Rules[v].providers[p]) \in Bucket
  BY Buckets, PoolAssumption DEF PoolAssumption
<1>2. DOMAIN <<>> = {} /\ <<>> \in Log
  BY DEF Log
<1> QED BY <1>1, <1>2 DEF NewManager, ManagerOK, RateOK

\* A tick fills every bucket.
LEMMA RefilledOK ==
  ASSUME NEW m, NEW g, NEW t \in Nat, ManagerOK(m), RateOK(m, g, t)
  PROVE  ManagerOK(ManagerRefilled(m)) /\ RateOK(ManagerRefilled(m), g, t + 1)
<1>1. /\ \A p \in DOMAIN m.limiters : Refilled(m.limiters[p]) \in Bucket
      /\ \A i \in DOMAIN m.modelLimiters : Refilled(m.modelLimiters[i]) \in Bucket
  BY Tables, Buckets
<1>2. ManagerOK(ManagerRefilled(m))
  BY <1>1 DEF ManagerRefilled, ManagerOK
<1>3. /\ DOMAIN ManagerRefilled(m).limiters = DOMAIN m.limiters
      /\ DOMAIN ManagerRefilled(m).modelLimiters = DOMAIN m.modelLimiters
      /\ \A i \in DOMAIN m.modelLimiters :
           ManagerRefilled(m).modelLimiters[i] = Refilled(m.modelLimiters[i])
  BY DEF ManagerRefilled
<1>4. ASSUME NEW c \in Cands, c \in DOMAIN m.modelLimiters
      PROVE  BucketOK(Refilled(m.modelLimiters[c]), g[c], c, t + 1)
  <2>1. m.modelLimiters[c] \in Bucket /\ g[c] \in Log /\ BucketOK(m.modelLimiters[c], g[c], c, t)
    BY <1>4, Tables DEF RateOK
  <2> QED BY <2>1, BucketFills
<1> QED BY <1>2, <1>3, <1>4 DEF RateOK

\* What Allow gives, it takes from the bucket, whoever made it.
LEMMA AllowOK ==
  ASSUME NEW m, NEW g, NEW t \in Nat, ManagerOK(m), RateOK(m, g, t), NEW c \in Cands,
         NEW v \in Managers, NEW qpm \in Nat, qpm = Rules[v].models[c],
         NEW a, a = Allow(m, Provider[c], c, qpm)
  PROVE  /\ ManagerOK(a.manager)
         /\ RateOK(a.manager, IF a.ok /\ qpm > 0 THEN [g EXCEPT ![c] = Append(@, [at |-> t, rules |-> v])] ELSE g, t)
<1> DEFINE p == Provider[c]
           paid == [m EXCEPT !.limiters[p] = Spent(@)]
           bucket == ModelLimiter(m, c, qpm)
           more == Append(g[c], [at |-> t, rules |-> v])
<1>0. g[c] \in Log /\ more \in Log /\ g = [d \in Cands |-> g[d]]
  BY LongerLog DEF RateOK
<1> HIDE DEF more
<1>1. CASE p \notin DOMAIN m.limiters
  <2>1. a.ok = TRUE /\ a.manager = m
    BY <1>1 DEF Allow
  <2>2. c \notin DOMAIN m.modelLimiters
    BY <1>1 DEF RateOK
  <2> DEFINE u == IF a.ok /\ qpm > 0 THEN [g EXCEPT ![c] = more] ELSE g
  <2>3. u \in [Cands -> Log] /\ \A d \in Cands : d # c => u[d] = g[d]
    BY <1>0 DEF RateOK
  <2> HIDE DEF u
  <2>4. RateOK(m, u, t)
    BY <1>1, <2>2, <2>3 DEF RateOK
  <2> QED BY <2>1, <2>4 DEF u, more
<1>2. CASE p \in DOMAIN m.limiters /\ ~ Permits(m.limiters[p])
  <2>1. a.ok = FALSE /\ a.manager = m
    BY <1>2 DEF Allow
  <2> QED BY <2>1
<1>3. ASSUME p \in DOMAIN m.limiters, Permits(m.limiters[p])
      PROVE  /\ ManagerOK(paid) /\ RateOK(paid, g, t) /\ paid.modelLimiters = m.modelLimiters
             /\ DOMAIN paid.limiters = DOMAIN m.limiters
  <2>1. Spent(m.limiters[p]) \in Bucket
    BY <1>3, Tables, Buckets
  <2>2. /\ paid.modelLimiters = m.modelLimiters
        /\ paid.limiters = [m.limiters EXCEPT ![p] = Spent(m.limiters[p])]
        /\ paid = [limiters |-> paid.limiters, modelLimiters |-> paid.modelLimiters]
    BY DEF ManagerOK
  <2> HIDE DEF paid
  <2>3. DOMAIN paid.limiters = DOMAIN m.limiters /\ paid.limiters \in [DOMAIN m.limiters -> Bucket]
    BY <2>1, <2>2 DEF ManagerOK
  <2> QED BY <2>2, <2>3 DEF ManagerOK, RateOK
<1>4. CASE p \in DOMAIN m.limiters /\ Permits(m.limiters[p]) /\ qpm = 0
  <2>1. a.ok = TRUE /\ a.manager = paid
    BY <1>4 DEF Allow
  <2> QED BY <1>3, <1>4, <2>1
<1>5. CASE p \in DOMAIN m.limiters /\ Permits(m.limiters[p]) /\ qpm # 0
  <2> DEFINE left == IF Permits(bucket) THEN Spent(bucket) ELSE bucket
             u == IF Permits(bucket) THEN [g EXCEPT ![c] = more] ELSE g
             after == WithModel(paid, c, left)
  <2>1. (a.ok <=> Permits(bucket)) /\ a.manager = after
    BY <1>5 DEF Allow
  <2>2. /\ bucket \in Bucket /\ BucketOK(bucket, g[c], c, t)
        /\ g[c] = <<>> => bucket.qpm = qpm /\ Permits(bucket)
    <3>1. CASE c \in DOMAIN m.modelLimiters
      BY <3>1, Tables DEF ModelLimiter, RateOK
    <3>2. CASE c \notin DOMAIN m.modelLimiters
      <4>1. bucket = NewLimiter(qpm) /\ g[c] = <<>>
        BY <1>5, <3>2 DEF ModelLimiter, RateOK
      <4>2. DOMAIN g[c] = {}
        BY <4>1
      <4>3. Permits(bucket)
        <5>1. bucket = [qpm |-> qpm, tokens |-> Full(qpm)]
          BY <1>5, <4>1 DEF NewLimiter
        <5>2. Full(qpm) >= PermitCost
          BY Rates
        <5> HIDE DEF bucket
        <5> QED BY <5>1, <5>2 DEF Permits
      <4> QED BY <1>5, <4>1, <4>2, <4>3, Buckets DEF BucketOK, Keeps
    <3> QED BY <3>1, <3>2
  <2> HIDE DEF bucket, paid
  <2>3. /\ left \in Bucket /\ BucketOK(left, u[c], c, t) /\ u[c] # <<>>
        /\ u \in [Cands -> Log] /\ (\A d \in Cands : d # c => u[d] = g[d])
    <3>1. CASE Permits(bucket)
      <4>1. /\ Spent(bucket) \in Bucket /\ Spent(bucket).qpm = bucket.qpm
            /\ Spent(bucket).tokens + PermitCost = bucket.tokens
        BY <2>2, <3>1, Buckets DEF BucketOK
      <4>2. BucketOK(Spent(bucket), more, c, t)
        <5>1. Spent(bucket).tokens \in Nat
          BY <4>1 DEF Bucket
        <5>2. g[c] = <<>> => bucket.qpm = Rules[v].models[c]
          BY <2>2
        <5> QED BY <1>0, <2>2, <4>1, <5>1, <5>2, BucketPays DEF more
      <4>3. more # <<>>
        <5>1. Len(more) = Len(g[c]) + 1 /\ Len(g[c]) \in Nat
          BY <1>0, Logs, LongerLog DEF more
        <5> QED BY <5>1
      <4>4. u[c] = more /\ u \in [Cands -> Log] /\ \A d \in Cands : d # c => u[d] = g[d]
        BY <1>0, <3>1 DEF RateOK
      <4> QED BY <3>1, <4>1, <4>2, <4>3, <4>4
    <3>2. CASE ~ Permits(bucket)
      BY <2>2, <3>2 DEF RateOK
    <3> QED BY <3>1, <3>2
  <2> HIDE DEF left, u
  <2>4. /\ after = [limiters |-> paid.limiters, modelLimiters |-> after.modelLimiters]
        /\ DOMAIN after.modelLimiters = DOMAIN m.modelLimiters \cup {c}
        /\ after.modelLimiters[c] = left
        /\ \A d \in DOMAIN m.modelLimiters : d # c => after.modelLimiters[d] = m.modelLimiters[d]
        /\ after.modelLimiters = [i \in DOMAIN m.modelLimiters \cup {c} |-> after.modelLimiters[i]]
    BY <1>3, <1>5 DEF WithModel, ManagerOK
  <2> HIDE DEF after
  <2>5. after.limiters = paid.limiters
    BY <2>4
  <2>6. ManagerOK(after)
    <3>1. \A i \in DOMAIN m.modelLimiters \cup {c} : after.modelLimiters[i] \in Bucket
      BY <2>3, <2>4, Tables
    <3> QED BY <1>3, <1>5, <2>4, <2>5, <3>1 DEF ManagerOK
  <2>7. RateOK(after, u, t)
    <3>1. DOMAIN after.modelLimiters \subseteq Cands
      BY <2>4 DEF RateOK
    <3>2. ASSUME NEW d \in Cands
          PROVE  IF d \in DOMAIN after.modelLimiters
                 THEN /\ Provider[d] \in DOMAIN after.limiters
                      /\ u[d] # <<>> /\ BucketOK(after.modelLimiters[d], u[d], d, t)
                 ELSE Provider[d] \in DOMAIN after.limiters => u[d] = <<>>
      <4>1. CASE d = c
        BY <1>3, <1>5, <2>3, <2>4, <2>5, <4>1
      <4>2. CASE d # c
        BY <1>3, <1>5, <2>3, <2>4, <2>5, <4>2 DEF RateOK
      <4> QED BY <4>1, <4>2
    <3> QED BY <2>3, <3>1, <3>2 DEF RateOK
  <2>8. (IF a.ok /\ qpm > 0 THEN [g EXCEPT ![c] = Append(@, [at |-> t, rules |-> v])] ELSE g) = u
    BY <1>5, <2>1 DEF u, more
  <2> QED BY <2>1, <2>6, <2>7, <2>8
<1> QED BY <1>1, <1>2, <1>4, <1>5

------------------------------------------------------------------------------
(* Requests *)

LEMMA IdleOK ==
  ASSUME NEW v \in Managers, NEW t \in Nat
  PROVE  RequestOK(Idle, v, t)
<1>1. v \in Nat /\ 1 <= v /\ 1 \in Managers
  BY VersionsAre
<1> QED BY <1>1 DEF RequestOK, Requests, Idle

\* A request whose candidate is out goes on with another one, or ends.
LEMMA RemovedOK ==
  ASSUME NEW v \in Managers, NEW t \in Nat, NEW r, RequestOK(r, v, t), r.pc \in {"admit", "sent"}
  PROVE  RequestOK(Removed(r), v, t)
<1>1. CASE r.remaining = {r.picked}
  BY <1>1, IdleOK DEF Removed
<1>2. CASE r.remaining # {r.picked}
  <2>1. r \in Requests /\ r.picked \in r.remaining
    BY DEF RequestOK
  <2>2. r.remaining \ {r.picked} # {}
    BY <1>2, <2>1
  <2> QED BY <1>2, <2>1, <2>2 DEF Removed, RequestOK, Requests
<1> QED BY <1>1, <1>2

LEMMA RemovedMoves ==
  ASSUME NEW r \in Requests
  PROVE  Removed(r).pc \in {"idle", "pick"}
BY DEF Removed, Idle, Requests

\* One request moves, the others stay.
LEMMA PoolMoves ==
  ASSUME PoolInv, NEW s \in Slots, NEW x, req' = [req EXCEPT ![s] = x],
         RequestOK(x, version, clock), UNCHANGED <<clock, version>>,
         successCnt' \in [Cands -> Nat], served' = successCnt', swayed' \in BOOLEAN
  PROVE  PoolInv' /\ req'[s] = x /\ (\A t \in Slots : t # s => req'[t] = req[t])
<1>1. req = [t \in Slots |-> req[t]]
  BY DEF PoolInv
<1>2. /\ req'[s] = x /\ \A t \in Slots : t # s => req'[t] = req[t]
      /\ req' = [t \in Slots |-> req'[t]]
  BY <1>1
<1>3. ASSUME NEW t \in Slots PROVE RequestOK(req'[t], version', clock')
  BY <1>2 DEF PoolInv
<1> QED BY <1>2, <1>3 DEF PoolInv

\* What a step does to the request in slot s.
LEMMA MaterializeMoves ==
  ASSUME PoolInv, NEW s \in Slots, Materialize(s)
  PROVE  /\ PoolInv' /\ req[s].pc = "idle" /\ req'[s].pc = "materialized"
         /\ \A t \in Slots : t # s => req'[t] = req[t]
<1>1. PICK k \in Keys \cup {NoKey} :
        req' = [req EXCEPT ![s] = [Idle EXCEPT !.pc = "materialized", !.key = k, !.rules = version]]
  BY DEF Materialize
<1> DEFINE x == [Idle EXCEPT !.pc = "materialized", !.key = k, !.rules = version]
<1>2. RequestOK(x, version, clock)
  <2>1. Idle \in Requests /\ Idle.sched <= version /\ Idle.now <= clock
    BY IdleOK DEF PoolInv, RequestOK
  <2>2. version \in Managers /\ version \in Nat
    BY VersionsAre DEF PoolInv
  <2> HIDE DEF Idle
  <2>3. x \in Requests
    BY <2>1, <2>2 DEF Requests
  <2>4. x.pc = "materialized" /\ x.rules = version /\ x.sched = Idle.sched /\ x.now = Idle.now
    BY <2>1 DEF Requests
  <2> HIDE DEF x
  <2> QED BY <2>1, <2>2, <2>3, <2>4 DEF RequestOK
<1>3. x.pc = "materialized"
  BY DEF Idle
<1> HIDE DEF x
<1>4. /\ PoolInv' /\ req'[s] = x
      /\ \A t \in Slots : t # s => req'[t] = req[t]
  BY <1>1, <1>2, PoolMoves DEF Materialize, PoolInv, store, history, x
<1> QED BY <1>3, <1>4 DEF Materialize

LEMMA ExecuteMoves ==
  ASSUME PoolInv, NEW s \in Slots, Execute(s)
  PROVE  /\ PoolInv' /\ req[s].pc = "materialized" /\ req'[s].pc = "pick"
         /\ swayed' \/ (~ swayed /\ req'[s].remaining = Cands)
         /\ \A t \in Slots : t # s => req'[t] = req[t]
<1>1. PICK down \in SUBSET Cands :
        /\ (down = {} /\ UNCHANGED swayed) \/ (down # {} /\ down # Cands /\ swayed' = TRUE)
        /\ req' = [req EXCEPT ![s].pc = "pick", ![s].sched = version, ![s].now = clock,
                              ![s].remaining = Cands \ down]
  BY DEF Execute
<1> DEFINE x == [req[s] EXCEPT !.pc = "pick", !.sched = version, !.now = clock,
                               !.remaining = Cands \ down]
<1>0. RequestOK(req[s], version, clock) /\ version \in Managers /\ version \in Nat /\ clock \in Nat
  BY VersionsAre DEF PoolInv
<1>2. req' = [req EXCEPT ![s] = x]
  BY <1>1
<1>3. Cands \ down # {}
  BY <1>1, CandsFinite
<1>4. RequestOK(x, version, clock) /\ x.pc = "pick" /\ x.remaining = Cands \ down
  <2>1. req[s] \in Requests /\ req[s].rules <= version
    BY <1>0 DEF RequestOK
  <2>2. x \in Requests
    BY <1>0, <2>1 DEF Requests
  <2>3. /\ x.pc = "pick" /\ x.remaining = Cands \ down /\ x.now = clock /\ x.sched = version
        /\ x.rules = req[s].rules
    BY <2>1 DEF Requests
  <2> HIDE DEF x
  <2> QED BY <1>0, <1>3, <2>1, <2>2, <2>3 DEF RequestOK
<1> HIDE DEF x
<1>5. /\ PoolInv' /\ req'[s] = x
      /\ \A t \in Slots : t # s => req'[t] = req[t]
  BY <1>2, <1>4, PoolMoves DEF Execute, PoolInv, store
<1>6. swayed' \/ (~ swayed /\ req'[s].remaining = Cands)
  BY <1>1, <1>4, <1>5 DEF PoolInv
<1> QED BY <1>4, <1>5, <1>6 DEF Execute

\* Who is picked remains, and is the least served for its weight unless a binding said
\* otherwise.
LEMMA PickMoves ==
  ASSUME PoolInv, NEW s \in Slots, Pick(s)
  PROVE  /\ PoolInv' /\ req[s].pc = "pick" /\ req'[s].pc = "admit"
         /\ req'[s].remaining = req[s].remaining
         /\ req'[s].picked = PickStickyOrDeficit(req[s]) /\ req'[s].picked \in req[s].remaining
         /\ swayed' \/ (/\ ~ swayed
                        /\ \A d \in req[s].remaining :
                             successCnt[req'[s].picked] * Weight[d]
                               <= successCnt[d] * Weight[req'[s].picked])
         /\ \A t \in Slots : t # s => req'[t] = req[t]
<1> DEFINE r == req[s]
           x == [r EXCEPT !.pc = "admit", !.picked = PickStickyOrDeficit(r)]
           bound == Lookup(r.key, r.now)
           deficit == PickDeficit(r.remaining)
<1>0. /\ RequestOK(r, version, clock) /\ r.pc = "pick" /\ r \in Requests /\ r.remaining # {}
      /\ r.remaining \in SUBSET Cands /\ r.key \in Keys \cup {NoKey}
      /\ successCnt \in [Cands -> Nat]
  BY DEF PoolInv, RequestOK, Requests, Pick
<1>1. /\ deficit \in r.remaining
      /\ \A d \in r.remaining : successCnt[deficit] * Weight[d] <= successCnt[d] * Weight[deficit]
  BY <1>0, DeficitPicks
<1>2. PickStickyOrDeficit(r) = IF r.key # NoKey /\ bound \in r.remaining THEN bound ELSE deficit
  BY DEF PickStickyOrDeficit
<1>3. swayed' = (swayed \/ (r.key # NoKey /\ bound # Nobody))
  BY DEF Pick
<1>4. Nobody \notin r.remaining
  BY <1>0, PoolAssumption DEF PoolAssumption, Nobody
<1> HIDE DEF bound, deficit
<1>5. /\ PickStickyOrDeficit(r) \in r.remaining /\ swayed' \in BOOLEAN
      /\ swayed' \/ (~ swayed /\ PickStickyOrDeficit(r) = deficit)
  BY <1>1, <1>2, <1>3, <1>4
<1>6. req' = [req EXCEPT ![s] = x]
  BY DEF Pick
<1>7. /\ RequestOK(x, version, clock) /\ x.pc = "admit" /\ x.remaining = r.remaining
      /\ x.picked = PickStickyOrDeficit(r)
  BY <1>0, <1>5 DEF RequestOK, Requests
<1> HIDE DEF x
<1>8. /\ PoolInv' /\ req'[s] = x
      /\ \A t \in Slots : t # s => req'[t] = req[t]
  BY <1>6, <1>7, PoolMoves DEF Pick, PoolInv
<1> QED BY <1>0, <1>1, <1>5, <1>7, <1>8

LEMMA AdmitMoves ==
  ASSUME PoolInv, NEW s \in Slots, Admit(s)
  PROVE  /\ PoolInv' /\ req[s].pc = "admit" /\ req'[s].pc # "admit"
         /\ swayed' \/ (/\ ~ swayed /\ req'[s].pc = "sent" /\ req'[s].picked = req[s].picked
                        /\ req'[s].remaining = req[s].remaining)
         /\ \A t \in Slots : t # s => req'[t] = req[t]
<1> DEFINE r == req[s]
           ok == Allow(manager[r.sched], Provider[r.picked], r.picked, Rules[r.rules].models[r.picked]).ok
           x == IF ok THEN [r EXCEPT !.pc = "sent"] ELSE Removed(r)
<1>0. /\ RequestOK(r, version, clock) /\ r.pc = "admit" /\ r \in Requests
      /\ version \in Managers /\ clock \in Nat
  BY DEF PoolInv, RequestOK, Admit
<1>1. req' = [req EXCEPT ![s] = x] /\ swayed' = (swayed \/ ~ ok)
  BY DEF Admit
<1>2. RequestOK(x, version, clock) /\ x.pc # "admit"
  <2>1. CASE ok
    BY <1>0, <2>1 DEF RequestOK, Requests
  <2>2. CASE ~ ok
    BY <1>0, <2>2, RemovedOK, RemovedMoves
  <2> QED BY <2>1, <2>2
<1>3. ok => x.pc = "sent" /\ x.picked = r.picked /\ x.remaining = r.remaining
  BY <1>0 DEF Requests
<1> HIDE DEF x, ok
<1>4. /\ PoolInv' /\ req'[s] = x
      /\ \A t \in Slots : t # s => req'[t] = req[t]
  BY <1>1, <1>2, PoolMoves DEF Admit, PoolInv, store
<1>5. swayed' \/ (~ swayed /\ ok)
  BY <1>1
<1> QED BY <1>0, <1>2, <1>3, <1>4, <1>5

LEMMA FailsMoves ==
  ASSUME PoolInv, NEW s \in Slots, Fails(s)
  PROVE  /\ PoolInv' /\ req[s].pc = "sent" /\ swayed' /\ req'[s].pc # "admit"
         /\ \A t \in Slots : t # s => req'[t] = req[t]
<1>0. /\ RequestOK(req[s], version, clock) /\ req[s].pc = "sent" /\ req[s] \in Requests
      /\ version \in Managers /\ clock \in Nat
  BY DEF PoolInv, RequestOK, Fails
<1>1. RequestOK(Removed(req[s]), version, clock) /\ Removed(req[s]).pc # "admit"
  BY <1>0, RemovedOK, RemovedMoves
<1>2. /\ PoolInv' /\ req'[s] = Removed(req[s])
      /\ \A t \in Slots : t # s => req'[t] = req[t]
  BY <1>1, PoolMoves DEF Fails, PoolInv, store
<1> QED BY <1>0, <1>1, <1>2 DEF Fails

LEMMA SuccessMoves ==
  ASSUME PoolInv, NEW s \in Slots, RecordStickySuccess(s)
  PROVE  /\ PoolInv' /\ req[s].pc = "sent" /\ req'[s].pc = "idle" /\ req[s].picked \in Cands
         /\ served' = [served EXCEPT ![req[s].picked] = @ + 1] /\ (swayed' \/ ~ swayed)
         /\ \A t \in Slots : t # s => req'[t] = req[t]
<1>0. /\ RequestOK(req[s], version, clock) /\ req[s].pc = "sent" /\ req[s].picked \in Cands
      /\ version \in Managers /\ clock \in Nat
  BY DEF PoolInv, RequestOK, Requests, RecordStickySuccess, Noted
<1>1. /\ req' = [req EXCEPT ![s] = Idle] /\ UNCHANGED <<clock, version, swayed>>
      /\ served' = [served EXCEPT ![req[s].picked] = @ + 1]
      /\ successCnt' = [successCnt EXCEPT ![req[s].picked] = @ + 1]
  BY DEF RecordStickySuccess, Noted, IncrSuccess
<1>2. RequestOK(Idle, version, clock)
  BY <1>0, IdleOK
<1>3. successCnt' \in [Cands -> Nat] /\ served' = successCnt' /\ swayed' \in BOOLEAN
  BY <1>0, <1>1 DEF PoolInv
<1>4. /\ PoolInv' /\ req'[s] = Idle
      /\ \A t \in Slots : t # s => req'[t] = req[t]
  BY <1>1, <1>2, <1>3, PoolMoves
<1> QED BY <1>0, <1>1, <1>4 DEF Idle

\* Versions only grow, and time goes on.
LEMMA AroundMoves ==
  ASSUME PoolInv, Apply \/ Tick
  PROVE  PoolInv' /\ UNCHANGED <<req, served, swayed>>
<1>1. /\ version' \in Managers /\ version <= version' /\ clock' \in Nat /\ clock <= clock'
      /\ UNCHANGED <<req, served, swayed, successCnt>>
  BY VersionsAre DEF PoolInv, Apply, Tick, store, history
<1>2. version \in Nat /\ version' \in Nat /\ clock \in Nat
  BY <1>1, VersionsAre DEF PoolInv
<1>3. ASSUME NEW s \in Slots PROVE RequestOK(req'[s], version', clock')
  <2>1. RequestOK(req[s], version, clock)
    BY DEF PoolInv
  <2>2. req[s].rules \in Nat /\ req[s].sched \in Nat /\ req[s].now \in Nat
    BY <2>1, VersionsAre DEF RequestOK, Requests
  <2> QED BY <1>1, <1>2, <2>1, <2>2 DEF RequestOK
<1> QED BY <1>1, <1>3 DEF PoolInv

------------------------------------------------------------------------------
(* Sessions *)

\* Pruning only drops what has expired.
LEMMA PrunedKeeps ==
  ASSUME NEW t
  PROVE  /\ DOMAIN Pruned(t) \subseteq DOMAIN stickies
         /\ \A k \in DOMAIN stickies :
              t < stickies[k].expiresAt => k \in DOMAIN Pruned(t) /\ Pruned(t)[k] = stickies[k]
BY DEF Pruned, Only, Unexpired

\* A look-up deletes a binding of its key only if that has expired.
LEMMA PickKeepsSessions ==
  ASSUME PoolInv, SessionInv, NEW s \in Slots, Pick(s)
  PROVE  SessionInv'
<1> DEFINE r == req[s]
           kept == DOMAIN Pruned(r.now) \ ({r.key} \ Unexpired(stickies, r.now))
<1>0. /\ clock' = clock /\ last' = last /\ r.now <= clock /\ r.now \in Nat /\ clock \in Nat
      /\ stickies' = stickies \/ stickies' = Only(Pruned(r.now), kept)
      /\ DOMAIN stickies \subseteq Keys
  BY DEF Pick, PoolInv, RequestOK, Requests, SessionInv
<1>1. CASE stickies' = stickies
  BY <1>0, <1>1 DEF SessionInv
<1>2. CASE stickies' = Only(Pruned(r.now), kept)
  <2>1. DOMAIN stickies' = kept /\ \A k \in kept : stickies'[k] = Pruned(r.now)[k]
    BY <1>2 DEF Only
  <2>2. kept \subseteq DOMAIN stickies
    BY PrunedKeeps
  <2>3. ASSUME NEW k \in Keys, last[k].candidate # Nobody, clock < last[k].at + IdleTimeout
        PROVE  k \in DOMAIN stickies' /\ stickies'[k] = stickies[k]
    <3>1. k \in DOMAIN stickies /\ stickies[k].expiresAt = last[k].at + IdleTimeout
      BY <2>3 DEF SessionInv
    <3>2. last[k].at \in Nat /\ IdleTimeout \in Nat
      BY PoolAssumption DEF SessionInv, PoolAssumption
    <3>3. r.now < stickies[k].expiresAt
      BY <1>0, <2>3, <3>1, <3>2
    <3>4. k \in DOMAIN Pruned(r.now) /\ Pruned(r.now)[k] = stickies[k]
      BY <3>1, <3>3, PrunedKeeps
    <3>5. k \in Unexpired(stickies, r.now)
      BY <3>1, <3>3 DEF Unexpired
    <3> QED BY <2>1, <3>4, <3>5
  <2> HIDE DEF kept, r
  <2> QED BY <1>0, <2>1, <2>2, <2>3 DEF SessionInv
<1> QED BY <1>0, <1>1, <1>2

\* A success binds its key from now on, and leaves the bindings of others that are good.
LEMMA SuccessKeepsSessions ==
  ASSUME PoolInv, SessionInv, NEW s \in Slots, RecordStickySuccess(s)
  PROVE  SessionInv'
<1> DEFINE r == req[s]
           bound == DOMAIN Pruned(clock) \cup {r.key}
<1>0. /\ clock' = clock /\ clock \in Nat /\ r.picked \in Cands /\ r.key \in Keys \cup {NoKey}
      /\ DOMAIN stickies \subseteq Keys /\ NoKey \notin Keys
      /\ last \in [Keys -> [candidate : Cands \cup {Nobody}, at : Nat]]
  BY PoolAssumption
  DEF RecordStickySuccess, Noted, PoolInv, RequestOK, Requests, SessionInv, PoolAssumption
<1>1. CASE r.key = NoKey
  BY <1>0, <1>1 DEF SessionInv, RecordStickySuccess, Noted
<1>2. CASE r.key \in Keys
  <2>1. /\ last' = [last EXCEPT ![r.key] = [candidate |-> r.picked, at |-> clock]]
        /\ stickies' = Remembered(s, clock + IdleTimeout)
    BY <1>0, <1>2 DEF RecordStickySuccess, Noted
  <2>2. /\ DOMAIN stickies' = bound
        /\ stickies'[r.key].candidate = r.picked /\ stickies'[r.key].expiresAt = clock + IdleTimeout
        /\ \A k \in bound : k # r.key => stickies'[k] = stickies[k]
    BY <2>1 DEF Remembered
  <2>3. DOMAIN stickies' \subseteq Keys
    BY <1>0, <1>2, <2>2, PrunedKeeps
  <2>4. last' \in [Keys -> [candidate : Cands \cup {Nobody}, at : Nat]]
    BY <1>0, <1>2, <2>1
  <2>5. ASSUME NEW k \in Keys, k # r.key,
               last'[k].candidate # Nobody, clock < last'[k].at + IdleTimeout
        PROVE  k \in DOMAIN stickies' /\ stickies'[k] = stickies[k] /\ last'[k] = last[k]
    <3>1. last'[k] = last[k]
      BY <1>0, <2>1, <2>5
    <3>2. k \in DOMAIN stickies /\ stickies[k].expiresAt = last[k].at + IdleTimeout
      BY <2>5, <3>1 DEF SessionInv
    <3>3. k \in DOMAIN Pruned(clock)
      BY <2>5, <3>1, <3>2, PrunedKeeps
    <3> QED BY <2>2, <2>5, <3>1, <3>3
  <2>6. last'[r.key].candidate = r.picked /\ last'[r.key].at = clock /\ r.key \in DOMAIN stickies'
    BY <1>0, <1>2, <2>1, <2>2
  <2> HIDE DEF bound, r
  <2> QED BY <1>0, <2>2, <2>3, <2>4, <2>5, <2>6 DEF SessionInv
<1> QED BY <1>0, <1>1, <1>2

\* The rest leaves the store alone; as time goes on fewer sessions are good.
LEMMA RestKeepsSessions ==
  ASSUME PoolInv, SessionInv, UNCHANGED <<stickies, last>>, clock' \in {clock, clock + 1}
  PROVE  SessionInv'
<1>1. clock \in Nat /\ IdleTimeout \in Nat
  BY PoolAssumption DEF PoolInv, PoolAssumption
<1>2. \A k \in Keys : last[k].at \in Nat
  BY DEF SessionInv
<1> QED BY <1>1, <1>2 DEF SessionInv

------------------------------------------------------------------------------
(* Permits *)

LEMMA AdmitKeepsRates ==
  ASSUME PoolInv, RateInv, NEW s \in Slots, Admit(s)
  PROVE  RateInv'
<1> DEFINE r == req[s]
           v == r.sched
           c == r.picked
           qpm == Rules[r.rules].models[c]
           a == Allow(manager[v], Provider[c], c, qpm)
           log == given[v]
           w == IF a.ok /\ qpm > 0 THEN [log EXCEPT ![c] = Append(@, [at |-> clock, rules |-> r.rules])] ELSE log
<1>0. /\ version \in Managers /\ version \in Nat /\ version' = version
      /\ clock \in Nat /\ clock' = clock /\ v \in Managers /\ v \in 1 .. version /\ c \in Cands /\ r.rules \in Managers
  <2>1. RequestOK(r, version, clock) /\ r.pc = "admit" /\ version' = version /\ version \in Managers
    BY DEF PoolInv, Admit
  <2>2. r \in Requests /\ v <= version /\ c \in r.remaining
    BY <2>1 DEF RequestOK
  <2>3. v \in Managers /\ r.rules \in Managers /\ c \in Cands
    BY <2>2 DEF Requests
  <2>4. version \in Nat /\ v \in 1 .. version
    BY <2>1, <2>2, <2>3, VersionsAre
  <2>5. clock \in Nat /\ clock' = clock
    BY DEF PoolInv, Admit
  <2> QED BY <2>1, <2>3, <2>4, <2>5
<1>1. qpm \in Nat
  BY <1>0, PoolAssumption DEF PoolAssumption, Managers
<1>2. manager' = [manager EXCEPT ![v] = a.manager]
  BY DEF Admit
<1>3. given' = [given EXCEPT ![v] = w]
  <2>1. given' = IF a.ok /\ qpm > 0
                 THEN [given EXCEPT ![v][c] = Append(@, [at |-> clock, rules |-> r.rules])] ELSE given
    BY DEF Admit
  <2>2. given = [x \in Managers |-> given[x]]
    BY DEF RateInv
  <2> HIDE DEF a, v, c, qpm, r
  <2>3. CASE a.ok /\ qpm > 0
    BY <1>0, <2>1, <2>2, <2>3
  <2>4. CASE ~ (a.ok /\ qpm > 0)
    BY <1>0, <2>1, <2>2, <2>4
  <2> QED BY <2>3, <2>4
<1>4. ManagerOK(manager[v]) /\ RateOK(manager[v], log, clock)
  BY <1>0 DEF RateInv
<1>5. ManagerOK(a.manager) /\ RateOK(a.manager, w, clock)
  BY <1>0, <1>1, <1>4, AllowOK
<1> HIDE DEF a, w, v
<1>6. /\ manager' = [x \in 1 .. version |-> manager'[x]]
      /\ given' = [x \in Managers |-> given'[x]]
      /\ \A x \in 1 .. version : manager'[x] = IF x = v THEN a.manager ELSE manager[x]
      /\ \A x \in Managers : given'[x] = IF x = v THEN w ELSE given[x]
  BY <1>0, <1>2, <1>3 DEF RateInv
<1>7. \A x \in 1 .. version : x \in Managers
  BY <1>0, VersionsAre
<1>8. \A x \in 1 .. version : ManagerOK(manager'[x]) /\ RateOK(manager'[x], given'[x], clock)
  BY <1>5, <1>6, <1>7 DEF RateInv
<1>9. \A x \in Managers : x > version => given'[x] = [d \in Cands |-> <<>>]
  BY <1>0, <1>6 DEF RateInv
<1> QED BY <1>0, <1>6, <1>8, <1>9 DEF RateInv

LEMMA ApplyKeepsRates ==
  ASSUME PoolInv, RateInv, Apply
  PROVE  RateInv'
<1> DEFINE new == NewManager(Rules[version + 1].providers)
           S == {manager[v] : v \in 1 .. version} \cup {new}
<1>0. /\ version \in Nat /\ version + 1 \in Managers /\ version' = version + 1
      /\ manager' = Append(manager, new) /\ given' = given /\ clock' = clock
  BY VersionsAre DEF PoolInv, Apply, history
<1>1. manager \in Seq(S) /\ Len(manager) = version /\ new \in S
  <2>1. manager \in [1 .. version -> S] /\ DOMAIN manager = 1 .. version
    BY DEF RateInv
  <2> HIDE DEF S
  <2>2. manager \in Seq(S)
    BY <1>0, <2>1
  <2>3. Len(manager) = version
    BY <1>0, <2>1, <2>2
  <2> QED BY <2>2, <2>3 DEF S
<1> HIDE DEF S
<1>2. /\ manager' \in Seq(S) /\ Len(manager') = version + 1
      /\ \A v \in 1 .. version : manager'[v] = manager[v]
      /\ manager'[version + 1] = new
  BY <1>0, <1>1, AppendProperties
<1>3. manager' = [v \in 1 .. version + 1 |-> manager'[v]]
  BY <1>2
<1>4. given[version + 1] = [c \in Cands |-> <<>>]
  BY <1>0 DEF RateInv
<1>5. ManagerOK(new) /\ RateOK(new, given[version + 1], clock)
  BY <1>0, <1>4, NewManagerOK DEF Managers
<1> HIDE DEF new
<1>6. ASSUME NEW v \in 1 .. version + 1
      PROVE  ManagerOK(manager'[v]) /\ RateOK(manager'[v], given[v], clock)
  <2>1. CASE v = version + 1
    BY <1>2, <1>5, <2>1
  <2>2. CASE v \in 1 .. version
    BY <1>2, <2>2 DEF RateInv
  <2>3. v = version + 1 \/ v \in 1 .. version
    BY <1>0
  <2> QED BY <2>1, <2>2, <2>3
<1>7. \A v \in Managers : v > version + 1 => given[v] = [c \in Cands |-> <<>>]
  BY <1>0, VersionsAre DEF RateInv
<1> QED BY <1>0, <1>3, <1>6, <1>7 DEF RateInv

LEMMA TickKeepsRates ==
  ASSUME PoolInv, RateInv, Tick
  PROVE  RateInv'
<1>0. /\ version' = version /\ DOMAIN manager = 1 .. version
      /\ manager' = [v \in DOMAIN manager |-> ManagerRefilled(manager[v])]
      /\ given' = given /\ clock \in Nat /\ clock' = clock + 1
  BY DEF Tick, RateInv, PoolInv, history
<1>1. manager' = [v \in 1 .. version |-> manager'[v]]
  BY <1>0
<1>2. ASSUME NEW v \in 1 .. version
      PROVE  ManagerOK(manager'[v]) /\ RateOK(manager'[v], given'[v], clock')
  <2>1. manager'[v] = ManagerRefilled(manager[v])
    BY <1>0
  <2>2. ManagerOK(manager[v]) /\ RateOK(manager[v], given[v], clock)
    BY DEF RateInv
  <2>3. ManagerOK(ManagerRefilled(manager[v])) /\ RateOK(ManagerRefilled(manager[v]), given[v], clock + 1)
    BY <1>0, <2>2, RefilledOK
  <2> QED BY <1>0, <2>1, <2>3
<1> QED BY <1>0, <1>1, <1>2 DEF RateInv

LEMMA RestKeepsRates ==
  ASSUME RateInv, UNCHANGED <<clock, version, manager, given>>
  PROVE  RateInv'
BY DEF RateInv

------------------------------------------------------------------------------
(* Shares *)

\* What is in flight is as much as there are slots at most.
LEMMA Flights ==
  /\ Cardinality(Slots) \in Nat
  /\ \A c : /\ IsFiniteSet(InFlight(c)) /\ Cardinality(InFlight(c)) \in Nat
            /\ Cardinality(InFlight(c)) <= Cardinality(Slots)
<1>1. IsFiniteSet(Slots)
  BY PoolAssumption DEF PoolAssumption
<1>2. ASSUME NEW c
      PROVE  /\ IsFiniteSet(InFlight(c)) /\ Cardinality(InFlight(c)) \in Nat
             /\ Cardinality(InFlight(c)) <= Cardinality(Slots)
  <2>1. InFlight(c) \in SUBSET Slots
    BY DEF InFlight
  <2>2. IsFiniteSet(InFlight(c)) /\ Cardinality(InFlight(c)) <= Cardinality(Slots)
    BY <1>1, <2>1, FS_Subset
  <2> QED BY <2>2, FS_CardinalityType
<1>3. Cardinality(Slots) \in Nat
  BY <1>1, FS_CardinalityType
<1> QED BY <1>2, <1>3

\* A request that stays in flight, or out of it, changes nothing.
LEMMA SameShare ==
  ASSUME ShareInv, served' = served, swayed' \/ ~ swayed,
         \A t \in Slots :
           \/ req'[t] = req[t]
           \/ /\ req[t].pc \notin {"admit", "sent"} /\ req'[t].pc \notin {"admit", "sent"}
              /\ req'[t].pc = "pick" => swayed' \/ req'[t].remaining = Cands
           \/ swayed'
           \/ /\ req[t].pc \in {"admit", "sent"} /\ req'[t].pc \in {"admit", "sent"}
              /\ req'[t].picked = req[t].picked /\ req'[t].remaining = req[t].remaining
  PROVE  ShareInv'
<1> SUFFICES ASSUME ~ swayed' PROVE ShareInv'
  BY DEF ShareInv
<1>1. \A t \in Slots : /\ req'[t].pc \in {"pick", "admit", "sent"} => req'[t].remaining = Cands
                       /\ (req'[t].pc \in {"admit", "sent"} <=> req[t].pc \in {"admit", "sent"})
                       /\ req'[t].pc \in {"admit", "sent"} => req'[t].picked = req[t].picked
  BY DEF ShareInv
<1>2. ASSUME NEW c PROVE {t \in Slots : req'[t].pc \in {"admit", "sent"} /\ req'[t].picked = c}
                           = {t \in Slots : req[t].pc \in {"admit", "sent"} /\ req[t].picked = c}
  BY <1>1
<1> QED BY <1>1, <1>2 DEF ShareInv, InFlight

\* n more of what was no more than y.
LEMMA AtMostMore ==
  ASSUME NEW x \in Nat, NEW n \in Nat, NEW m \in Nat, NEW w \in Nat, NEW y \in Nat,
         n <= m, x * w <= y
  PROVE  (x + n) * w <= y + m * w
<1>1. n * w <= m * w
  BY Multiplied
<1>2. (x + n) * w = x * w + n * w
  OBVIOUS
<1>3. x * w \in Nat /\ n * w \in Nat /\ m * w \in Nat
  OBVIOUS
<1> QED BY <1>1, <1>2, <1>3

LEMMA PickShares ==
  ASSUME PoolInv, ShareInv, NEW s \in Slots, Pick(s)
  PROVE  ShareInv'
<1> SUFFICES ASSUME ~ swayed' PROVE ShareInv'
  BY DEF ShareInv
<1> DEFINE p == req'[s].picked
<1>0. /\ PoolInv' /\ req[s].pc = "pick" /\ req'[s].pc = "admit" /\ ~ swayed
      /\ req'[s].remaining = req[s].remaining /\ p \in req[s].remaining
      /\ \A d \in req[s].remaining : successCnt[p] * Weight[d] <= successCnt[d] * Weight[p]
      /\ \A t \in Slots : t # s => req'[t] = req[t]
  BY PickMoves
<1>1. /\ req[s].remaining = Cands /\ p \in Cands /\ served' = served /\ served = successCnt
      /\ \A d \in Cands : served[d] \in Nat /\ Weight[d] \in Nat \ {0}
      /\ Cardinality(Slots) \in Nat
  BY <1>0, Flights, PoolAssumption DEF ShareInv, Pick, PoolInv, PoolAssumption
<1>2. \A t \in Slots : req'[t].pc \in {"pick", "admit", "sent"} => req'[t].remaining = Cands
  BY <1>0, <1>1 DEF ShareInv
<1> HIDE DEF p
<1>3. ASSUME NEW a \in Cands, NEW b \in Cands
      PROVE  (served'[a] + Cardinality(InFlight(a)')) * Weight[b]
               <= served'[b] * Weight[a] + Cardinality(Slots) * Weight[b]
  <2>1. CASE a = p
    <3>1. Cardinality(InFlight(a)') \in Nat /\ Cardinality(InFlight(a)') <= Cardinality(Slots)
      <4>1. InFlight(a)' \in SUBSET Slots /\ IsFiniteSet(Slots)
        BY PoolAssumption DEF InFlight, PoolAssumption
      <4>2. IsFiniteSet(InFlight(a)') /\ Cardinality(InFlight(a)') <= Cardinality(Slots)
        BY <4>1, FS_Subset
      <4> QED BY <4>2, FS_CardinalityType
    <3>2. served[a] * Weight[b] <= served[b] * Weight[a]
      BY <1>0, <1>1, <2>1
    <3>3. served[b] * Weight[a] \in Nat
      BY <1>1
    <3> QED BY <1>1, <3>1, <3>2, <3>3, AtMostMore
  <2>2. CASE a # p
    <3>1. InFlight(a)' = InFlight(a)
      BY <1>0, <2>2 DEF InFlight, p
    <3> QED BY <1>0, <1>1, <3>1 DEF ShareInv
  <2> QED BY <2>1, <2>2
<1> QED BY <1>2, <1>3 DEF ShareInv

LEMMA SuccessShares ==
  ASSUME PoolInv, ShareInv, NEW s \in Slots, RecordStickySuccess(s)
  PROVE  ShareInv'
<1> SUFFICES ASSUME ~ swayed' PROVE ShareInv'
  BY DEF ShareInv
<1> DEFINE p == req[s].picked
           n == Cardinality(Slots)
<1>0. /\ req[s].pc = "sent" /\ req'[s].pc = "idle" /\ p \in Cands /\ ~ swayed
      /\ served' = [served EXCEPT ![p] = @ + 1]
      /\ \A t \in Slots : t # s => req'[t] = req[t]
  BY SuccessMoves
<1>1. /\ served \in [Cands -> Nat] /\ n \in Nat
      /\ \A d \in Cands : served[d] \in Nat /\ Weight[d] \in Nat \ {0}
      /\ \A d \in Cands : Cardinality(InFlight(d)) \in Nat
  BY Flights, PoolAssumption DEF PoolInv, PoolAssumption
<1>2. \A t \in Slots : req'[t].pc \in {"pick", "admit", "sent"} => req'[t].remaining = Cands
  BY <1>0 DEF ShareInv
<1> HIDE DEF p, n
<1>3. \A d \in Cands : served'[d] = IF d = p THEN served[d] + 1 ELSE served[d]
  BY <1>0, <1>1
<1>4. ASSUME NEW a \in Cands
      PROVE  served'[a] + Cardinality(InFlight(a)') = served[a] + Cardinality(InFlight(a))
  <2>1. CASE a = p
    <3>1. InFlight(a)' = InFlight(a) \ {s} /\ s \in InFlight(a)
      BY <1>0, <2>1 DEF InFlight, p
    <3>2. Cardinality(InFlight(a)') = Cardinality(InFlight(a)) - 1
      BY <3>1, Flights, FS_RemoveElement
    <3> QED BY <1>1, <1>3, <2>1, <3>2
  <2>2. CASE a # p
    <3>1. InFlight(a)' = InFlight(a)
      BY <1>0, <2>2 DEF InFlight, p
    <3> QED BY <1>3, <2>2, <3>1
  <2> QED BY <2>1, <2>2
<1>5. ASSUME NEW a \in Cands, NEW b \in Cands
      PROVE  (served'[a] + Cardinality(InFlight(a)')) * Weight[b]
               <= served'[b] * Weight[a] + n * Weight[b]
  <2>1. (served[a] + Cardinality(InFlight(a))) * Weight[b] <= served[b] * Weight[a] + n * Weight[b]
    BY <1>0 DEF ShareInv, n
  <2>2. served[b] * Weight[a] <= served'[b] * Weight[a]
    BY <1>1, <1>3, Multiplied
  <2>3. /\ served[b] * Weight[a] \in Nat /\ served'[b] * Weight[a] \in Nat /\ n * Weight[b] \in Nat
        /\ (served[a] + Cardinality(InFlight(a))) * Weight[b] \in Nat
    BY <1>1, <1>3
  <2> QED BY <1>4, <2>1, <2>2, <2>3
<1> QED BY <1>2, <1>5 DEF ShareInv, n

------------------------------------------------------------------------------
(* The invariant *)

LEMMA Initially == Init => IInv
<1> SUFFICES ASSUME Init PROVE IInv
  OBVIOUS
<1>0. /\ clock = 0 /\ version = 1 /\ req = [s \in Slots |-> Idle]
      /\ successCnt = [c \in Cands |-> 0] /\ served = [c \in Cands |-> 0] /\ swayed = FALSE
      /\ stickies = <<>> /\ last = [k \in Keys |-> [candidate |-> Nobody, at |-> 0]]
      /\ manager = <<NewManager(Rules[1].providers)>> /\ given = NoPermits
  BY DEF Init
<1>1. PoolInv
  <2>1. RequestOK(Idle, 1, 0)
    BY VersionsAre, IdleOK
  <2>2. version \in Managers /\ clock \in Nat /\ successCnt \in [Cands -> Nat]
        /\ served = successCnt /\ swayed \in BOOLEAN
    BY <1>0, VersionsAre
  <2>3. req = [s \in Slots |-> req[s]] /\ \A s \in Slots : req[s] = Idle
    BY <1>0
  <2> QED BY <1>0, <2>1, <2>2, <2>3 DEF PoolInv
<1>2. SessionInv
  <2>1. DOMAIN stickies = {}
    BY <1>0
  <2> QED BY <1>0, <2>1 DEF SessionInv
<1>3. RateInv
  <2>1. manager = [v \in 1 .. version |-> manager[v]]
    BY <1>0
  <2>2. \A v \in 1 .. version : v \in Managers /\ v = 1
    BY <1>0, VersionsAre
  <2>3. given = [v \in Managers |-> given[v]] /\ \A v \in Managers : given[v] = [c \in Cands |-> <<>>]
    BY <1>0 DEF NoPermits
  <2>4. 1 \in DOMAIN Rules
    BY VersionsAre DEF Managers
  <2>5. ManagerOK(manager[1]) /\ RateOK(manager[1], given[1], clock)
    BY <1>0, <2>3, <2>4, VersionsAre, NewManagerOK
  <2> QED BY <2>1, <2>2, <2>3, <2>5 DEF RateInv
<1>4. ShareInv
  <2>1. \A s \in Slots : req[s].pc = "idle"
    BY <1>0 DEF Idle
  <2>2. ASSUME NEW a \in Cands PROVE Cardinality(InFlight(a)) = 0
    <3>1. InFlight(a) = {}
      BY <2>1 DEF InFlight
    <3> QED BY <3>1, FS_EmptySet
  <2>3. ASSUME NEW a \in Cands, NEW b \in Cands
        PROVE  (served[a] + Cardinality(InFlight(a))) * Weight[b]
                 <= served[b] * Weight[a] + Cardinality(Slots) * Weight[b]
    <3>1. served[a] = 0 /\ served[b] = 0 /\ Weight[a] \in Nat /\ Weight[b] \in Nat
      BY <1>0, PoolAssumption DEF PoolAssumption
    <3>2. Cardinality(Slots) * Weight[b] \in Nat
      BY <3>1, Flights
    <3> QED BY <2>2, <3>1, <3>2
  <2> QED BY <2>1, <2>3 DEF ShareInv
<1> QED BY <1>1, <1>2, <1>3, <1>4 DEF IInv

LEMMA Inductive == IInv /\ [Next]_vars => IInv'
<1> SUFFICES ASSUME IInv, [Next]_vars PROVE IInv'
  OBVIOUS
<1>0. PoolInv /\ SessionInv /\ RateInv /\ ShareInv /\ (swayed \/ ~ swayed)
      /\ \A s \in Slots : req[s] \in Requests
  BY DEF IInv, PoolInv, RequestOK
<1>1. ASSUME NEW s \in Slots, Materialize(s) PROVE IInv'
  <2>1. /\ PoolInv' /\ req[s].pc = "idle" /\ req'[s].pc = "materialized"
        /\ \A t \in Slots : t # s => req'[t] = req[t]
    BY <1>0, <1>1, MaterializeMoves
  <2>2. UNCHANGED <<clock, version, manager, stickies, last, given, served, swayed>>
    BY <1>1 DEF Materialize, store, history
  <2>3. ShareInv'
    BY <1>0, <2>1, <2>2, SameShare
  <2> QED BY <1>0, <2>1, <2>2, <2>3, RestKeepsSessions, RestKeepsRates DEF IInv
<1>2. ASSUME NEW s \in Slots, Execute(s) PROVE IInv'
  <2>1. /\ PoolInv' /\ req[s].pc = "materialized" /\ req'[s].pc = "pick"
        /\ swayed' \/ (~ swayed /\ req'[s].remaining = Cands)
        /\ \A t \in Slots : t # s => req'[t] = req[t]
    BY <1>0, <1>2, ExecuteMoves
  <2>2. UNCHANGED <<clock, version, manager, stickies, last, given, served>>
    BY <1>2 DEF Execute, store
  <2>3. ShareInv'
    BY <1>0, <2>1, <2>2, SameShare
  <2> QED BY <1>0, <2>1, <2>2, <2>3, RestKeepsSessions, RestKeepsRates DEF IInv
<1>3. ASSUME NEW s \in Slots, Pick(s) PROVE IInv'
  <2>1. PoolInv'
    BY <1>0, <1>3, PickMoves
  <2>2. UNCHANGED <<clock, version, manager, given>>
    BY <1>3 DEF Pick
  <2> QED BY <1>0, <1>3, <2>1, <2>2, PickKeepsSessions, RestKeepsRates, PickShares DEF IInv
<1>4. ASSUME NEW s \in Slots, Admit(s) PROVE IInv'
  <2>1. /\ PoolInv' /\ req[s].pc = "admit"
        /\ swayed' \/ (/\ ~ swayed /\ req'[s].pc = "sent" /\ req'[s].picked = req[s].picked
                       /\ req'[s].remaining = req[s].remaining)
        /\ \A t \in Slots : t # s => req'[t] = req[t]
    BY <1>0, <1>4, AdmitMoves
  <2>2. UNCHANGED <<clock, stickies, last, served>>
    BY <1>4 DEF Admit, store
  <2>3. ShareInv'
    BY <1>0, <2>1, <2>2, SameShare
  <2> QED BY <1>0, <1>4, <2>1, <2>2, <2>3, RestKeepsSessions, AdmitKeepsRates DEF IInv
<1>5. ASSUME NEW s \in Slots, Fails(s) PROVE IInv'
  <2>1. PoolInv' /\ swayed'
    BY <1>0, <1>5, FailsMoves
  <2>2. UNCHANGED <<clock, version, manager, stickies, last, given>>
    BY <1>5 DEF Fails, store
  <2>3. ShareInv'
    BY <2>1 DEF ShareInv
  <2> QED BY <1>0, <2>1, <2>2, <2>3, RestKeepsSessions, RestKeepsRates DEF IInv
<1>6. ASSUME NEW s \in Slots, RecordStickySuccess(s) PROVE IInv'
  <2>1. PoolInv'
    BY <1>0, <1>6, SuccessMoves
  <2>2. UNCHANGED <<clock, version, manager, given>>
    BY <1>6 DEF RecordStickySuccess, Noted
  <2> QED BY <1>0, <1>6, <2>1, <2>2, SuccessKeepsSessions, RestKeepsRates, SuccessShares DEF IInv
<1>7. ASSUME Apply \/ Tick PROVE IInv'
  <2>1. PoolInv' /\ UNCHANGED <<req, served, swayed>>
    BY <1>0, <1>7, AroundMoves
  <2>2. UNCHANGED <<stickies, last>> /\ clock' \in {clock, clock + 1}
    BY <1>7 DEF Apply, Tick, store, history
  <2>3. ShareInv'
    BY <1>0, <2>1, SameShare
  <2> QED BY <1>0, <1>7, <2>1, <2>2, <2>3, RestKeepsSessions, ApplyKeepsRates, TickKeepsRates DEF IInv
<1>8. CASE UNCHANGED vars
  <2>1. UNCHANGED <<clock, version, manager, stickies, successCnt, req, served, swayed, last, given>>
    BY <1>8 DEF vars, store, history
  <2>2. PoolInv'
    BY <1>0, <2>1 DEF PoolInv
  <2>3. ShareInv'
    BY <1>0, <2>1, SameShare
  <2> QED BY <1>0, <2>1, <2>2, <2>3, RestKeepsSessions, RestKeepsRates DEF IInv
<1> QED BY <1>1, <1>2, <1>3, <1>4, <1>5, <1>6, <1>7, <1>8 DEF Next, Request

LEMMA Invariant == Spec => []IInv
BY Initially, Inductive, PTL DEF Spec

------------------------------------------------------------------------------
(* Theorems *)

\* Every variable keeps its type: there is a manager for every version in force, a binding
\* is of a key, and a request holds candidates of the group.
THEOREM TypeCorrect == Spec => []TypeOK
<1>1. IInv => TypeOK
  <2> SUFFICES ASSUME IInv PROVE TypeOK
    OBVIOUS
  <2>1. version \in Managers /\ DOMAIN manager = 1 .. version /\ DOMAIN stickies \subseteq Keys
        /\ successCnt \in [Cands -> Nat]
    BY DEF IInv, PoolInv, SessionInv, RateInv
  <2>2. \A s \in Slots : req[s] \in Requests
    BY DEF IInv, PoolInv, RequestOK
  <2> QED BY <2>1, <2>2 DEF TypeOK, Requests
<1> QED BY <1>1, Invariant, PTL

\* In any length of time an identity is given no more permits than its burst and what its
\* rate makes in that time, whatever the rules the requests were materialized with and
\* however many Applies; the rate is that of the first of them (Allow, modelLimiter).
THEOREM RateKept == Spec => []WithinRate
<1>1. IInv => WithinRate
  <2> SUFFICES ASSUME IInv, NEW v \in DOMAIN manager, NEW c \in DOMAIN manager[v].modelLimiters
               PROVE  Keeps(given[v][c], Rules[given[v][c][1].rules].models[c])
    BY DEF WithinRate
  <2>1. v \in 1 .. version
    BY DEF IInv, RateInv
  <2>2. RateOK(manager[v], given[v], clock)
    BY <2>1 DEF IInv, RateInv
  <2>3. given[v][c] # <<>> /\ BucketOK(manager[v].modelLimiters[c], given[v][c], c, clock)
    BY <2>2 DEF RateOK
  <2> QED BY <2>3 DEF BucketOK, Keeps
<1> QED BY <1>1, Invariant, PTL

\* While nothing but the deficit decides, no candidate is served ahead of another, for
\* their weights, by more than the requests there can be at once (PickDeficit).
THEOREM SharedFairly == Spec => []FairShare
<1>1. IInv => FairShare
  <2> SUFFICES ASSUME IInv, ~ swayed, NEW a \in Cands, NEW b \in Cands
               PROVE  served[a] * Weight[b] <= served[b] * Weight[a] + Cardinality(Slots) * Weight[b]
    BY DEF FairShare
  <2> DEFINE f == Cardinality(InFlight(a))
             n == Cardinality(Slots)
  <2>1. /\ served[a] \in Nat /\ served[b] \in Nat /\ Weight[a] \in Nat /\ Weight[b] \in Nat
        /\ f \in Nat /\ n \in Nat
    BY Flights, PoolAssumption DEF IInv, PoolInv, PoolAssumption
  <2>2. (served[a] + f) * Weight[b] <= served[b] * Weight[a] + n * Weight[b]
    BY DEF IInv, ShareInv
  <2> HIDE DEF f, n
  <2>3. served[a] * Weight[b] <= (served[a] + f) * Weight[b]
    BY <2>1, Multiplied
  <2>4. /\ served[a] * Weight[b] \in Nat /\ (served[a] + f) * Weight[b] \in Nat
        /\ served[b] * Weight[a] + n * Weight[b] \in Nat
    BY <2>1
  <2>5. served[a] * Weight[b] <= served[b] * Weight[a] + n * Weight[b]
    BY <2>2, <2>3, <2>4
  <2> QED BY <2>5 DEF n
<1> QED BY <1>1, Invariant, PTL

\* The step of the property SessionStays.
StaysStep ==
  \A s \in Slots :
    LET r == req[s]
        home == IF r.key \in Keys THEN last[r.key] ELSE [candidate |-> Nobody, at |-> 0]
    IN r.pc = "pick" /\ req'[s].pc = "admit" /\ home.candidate \in r.remaining
         /\ clock < home.at + IdleTimeout
       => req'[s].picked = home.candidate

\* Only a pick turns a pick into an admission.
LEMMA OnlyPicked ==
  ASSUME IInv, Next, NEW s \in Slots, req[s].pc = "pick", req'[s].pc = "admit"
  PROVE  Pick(s)
<1>0. PoolInv
  BY DEF IInv
<1>1. ASSUME NEW t \in Slots, Request(t) PROVE Pick(s)
  <2>1. CASE t = s
    BY <1>0, <1>1, <2>1, MaterializeMoves, ExecuteMoves, AdmitMoves, FailsMoves, SuccessMoves DEF Request
  <2>2. CASE t # s
    <3>1. req'[s] = req[s]
      BY <1>0, <1>1, <2>2, MaterializeMoves, ExecuteMoves, PickMoves, AdmitMoves, FailsMoves,
         SuccessMoves DEF Request
    <3> QED BY <3>1
  <2> QED BY <2>1, <2>2
<1>2. ASSUME Apply \/ Tick PROVE Pick(s)
  BY <1>0, <1>2, AroundMoves
<1> QED BY <1>1, <1>2 DEF Next

\* A request of a key served less than the idle timeout ago goes back where that was, if
\* it may, whatever other requests of the key have done meanwhile (Lookup, Remember).
THEOREM SessionsStay == Spec => SessionStays
<1>1. IInv /\ [Next]_vars => [StaysStep]_vars
  <2> SUFFICES ASSUME IInv, Next, NEW s \in Slots,
                      req[s].pc = "pick", req'[s].pc = "admit",
                      NEW home,
                      home = IF req[s].key \in Keys THEN last[req[s].key]
                             ELSE [candidate |-> Nobody, at |-> 0],
                      home.candidate \in req[s].remaining, clock < home.at + IdleTimeout
               PROVE  req'[s].picked = home.candidate
    BY DEF StaysStep
  <2> DEFINE r == req[s]
  <2>1. PoolInv /\ SessionInv /\ Pick(s)
    BY OnlyPicked DEF IInv
  <2>2. /\ r \in Requests /\ r.now <= clock /\ r.now \in Nat /\ clock \in Nat
        /\ r.remaining \in SUBSET Cands
    BY <2>1 DEF PoolInv, RequestOK, Requests
  <2>3. Nobody \notin Cands
    BY PoolAssumption DEF PoolAssumption, Nobody
  <2>4. home.candidate # Nobody
    BY <2>2, <2>3
  <2>5. r.key \in Keys /\ home = last[r.key]
    BY <2>4
  <2>6. /\ r.key \in DOMAIN stickies /\ stickies[r.key].candidate = home.candidate
        /\ stickies[r.key].expiresAt = home.at + IdleTimeout /\ home.at \in Nat
    BY <2>1, <2>4, <2>5 DEF SessionInv
  <2>7. r.key \in Unexpired(stickies, r.now)
    <3>1. IdleTimeout \in Nat
      BY PoolAssumption DEF PoolAssumption
    <3> QED BY <2>2, <2>6, <3>1 DEF Unexpired
  <2>8. Lookup(r.key, r.now) = home.candidate
    BY <2>6, <2>7 DEF Lookup
  <2>9. r.key # NoKey
    BY <2>5, PoolAssumption DEF PoolAssumption
  <2>10. PickStickyOrDeficit(r) = home.candidate
    BY <2>8, <2>9 DEF PickStickyOrDeficit
  <2> QED BY <2>1, <2>10, PickMoves
<1> QED BY <1>1, Invariant, PTL DEF Spec, SessionStays, StaysStep
==============================================================================
