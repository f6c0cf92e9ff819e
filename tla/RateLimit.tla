----------------------------- MODULE RateLimit -----------------------------
(***************************************************************************)
(* The two layers of token buckets (internal/ratelimit): one per provider, *)
(* made with the manager, and one per upstream identity, made by the first *)
(* request that carries a qpm for it.  The buckets fill continuously; a    *)
(* tick of the clock is a part of a second, and a bucket is asked between  *)
(* ticks.  Tokens are counted so that a tick brings as many as the qpm.    *)
(***************************************************************************)
EXTENDS Naturals, FiniteSets, FiniteSetsExt

CONSTANT TicksPerSecond
ASSUME RateAssumption == TicksPerSecond \in Nat \ {0}

\* A permit is worth a minute's ticks of one token.
PermitCost == 60 * TicksPerSecond

\* NewLimiter: qpm/60 permits a second, a burst of what that makes in whole permits, or one.
Unlimited == [qpm |-> 0, tokens |-> 0]
Burst(qpm) == Max({1, qpm \div 60})
Full(qpm) == PermitCost * Burst(qpm)
NewLimiter(qpm) == IF qpm = 0 THEN Unlimited ELSE [qpm |-> qpm, tokens |-> Full(qpm)]

Permits(bucket) == bucket.qpm = 0 \/ bucket.tokens >= PermitCost
Spent(bucket) == IF bucket.qpm = 0 THEN bucket ELSE [bucket EXCEPT !.tokens = @ - PermitCost]
Refilled(bucket) ==
  IF bucket.qpm = 0 THEN bucket
  ELSE [bucket EXCEPT !.tokens = Min({Full(bucket.qpm), @ + bucket.qpm})]

\* A manager: the providers' buckets, and those of the identities seen so far.
NewManager(qpms) == [limiters |-> [p \in DOMAIN qpms |-> NewLimiter(qpms[p])], modelLimiters |-> <<>>]
ManagerRefilled(m) ==
  [limiters |-> [p \in DOMAIN m.limiters |-> Refilled(m.limiters[p])],
   modelLimiters |-> [i \in DOMAIN m.modelLimiters |-> Refilled(m.modelLimiters[i])]]

\* mutant: a bucket of another rate is made anew.
BucketByRate(m, identity, qpm) ==
  IF identity \in DOMAIN m.modelLimiters /\ m.modelLimiters[identity].qpm = qpm
  THEN m.modelLimiters[identity] ELSE NewLimiter(qpm)

\* get-or-create: the qpm of the request that makes the bucket is the bucket's.
ModelLimiter(m, identity, qpm) ==
  IF identity \in DOMAIN m.modelLimiters THEN m.modelLimiters[identity] ELSE NewLimiter(qpm)

WithModel(m, identity, bucket) ==
  [m EXCEPT !.modelLimiters =
     [i \in DOMAIN m.modelLimiters \cup {identity} |-> IF i = identity THEN bucket ELSE m.modelLimiters[i]]]

\* Allow: the provider's permit is spent first, and stays spent when the identity's
\* bucket refuses. A provider the manager does not know is let through.
Allow(m, provider, identity, qpm) ==
  IF provider \notin DOMAIN m.limiters
  THEN [ok |-> TRUE, manager |-> m]
  ELSE LET paid == [m EXCEPT !.limiters[provider] = Spent(@)]
           bucket == ModelLimiter(m, identity, qpm)
       IN IF ~ Permits(m.limiters[provider]) THEN [ok |-> FALSE, manager |-> m]
          ELSE IF qpm = 0 THEN [ok |-> TRUE, manager |-> paid]
          ELSE [ok |-> Permits(bucket),
                manager |-> WithModel(paid, identity, IF Permits(bucket) THEN Spent(bucket) ELSE bucket)]
=============================================================================
