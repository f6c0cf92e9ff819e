-------------------------------- MODULE Rules --------------------------------
(***************************************************************************)
(* The rule table: its validation (config/rules.go), its evaluation for a  *)
(* leaf (internal/rules), what a merged action does to the request of that *)
(* leaf (handler/leaf_rules.go, config/effort.go), and the daily windows   *)
(* of config.go.                                                           *)
(*                                                                         *)
(* A rule is [match, action].  A match is [field, op, value], the field    *)
(* "global" standing for an empty one; a value is a sequence of letters.   *)
(* An action is a function from the classes it sets to their values.       *)
(***************************************************************************)
EXTENDS Integers, Sequences, SequencesExt, FiniteSets, TLC

CONSTANTS DayMinutes         \* 1440: minutes of a day

ASSUME RulesAssumption == DayMinutes \in Nat \ {0}

Fields == {"client-model", "key", "upstream-model"}
Classes == {"protocol", "effort", "effort_mode", "temperature_mode", "thinking", "max_tokens",
            "qpm", "enable", "disable", "retries"}
Formats == {"openai.chat", "openai.responses", "anthropic.messages", "ollama.chat"}

NoAction == [c \in {} |-> 0]
Sets(action, class) == class \in DOMAIN action

------------------------------------------------------------------------------
(* Reasoning efforts *)

\* effortRank; a level nobody knows ranks above all of them.
Levels == <<"none", "low", "medium", "high", "xhigh", "max">>
Rank(e) == IF e \in ToSet(Levels) THEN (CHOOSE i \in DOMAIN Levels : Levels[i] = e) - 2 ELSE 5

Distance(a, b) == IF a < b THEN b - a ELSE a - b

\* clampEffort: the loop over the allowed levels, in their order.
ClampEffort(value, allowed) ==
  LET nearest(best, a) ==
        LET d == Distance(Rank(value), Rank(a))
        IN  IF d < best.distance \/ (d = best.distance /\ Rank(a) > best.rank)
            THEN [level |-> a, distance |-> d, rank |-> Rank(a)] ELSE best
  IN  FoldLeft(nearest, [level |-> "", distance |-> 100, rank |-> -1], allowed).level

\* ApplyReasoningEffort: what the client did not ask for is not put in.
ApplyReasoningEffort(value, allowed) ==
  IF allowed = <<>> \/ value = "" \/ value \in ToSet(allowed) THEN value
  ELSE ClampEffort(value, allowed)

------------------------------------------------------------------------------
(* Windows *)

\* ParseTimeRange: "24:00" is the minute DayMinutes.
ValidTimeRange(r) == r.start \in 0 .. DayMinutes /\ r.end \in 0 .. DayMinutes /\ r.start # r.end

IsInTimeRange(now, ranges) ==
  \E r \in ToSet(ranges) :
    IF r.start < r.end THEN now >= r.start /\ now < r.end
    ELSE now >= r.start \/ now < r.end

------------------------------------------------------------------------------
(* Validation *)

ValidRuleMatch(m) ==
  m.field = "global" \/ (m.field \in Fields /\ m.op \in {"equals", "startWith", "include"})

ValidEffortAllowList(efforts) ==
  /\ ToSet(efforts) \subseteq ToSet(Levels)
  /\ "none" \in ToSet(efforts) => Len(efforts) = 1

ValidRuleAction(m, a) ==
  /\ DOMAIN a # {}
  /\ ~ (Sets(a, "effort") /\ Sets(a, "effort_mode"))
  /\ Sets(a, "protocol") => a["protocol"] \in Formats
  /\ Sets(a, "effort") => ValidEffortAllowList(a["effort"])
  /\ Sets(a, "max_tokens") => a["max_tokens"] > 0
  /\ Sets(a, "qpm") => a["qpm"] > 0 /\ m.field = "upstream-model"
  /\ Sets(a, "enable") => \A r \in ToSet(a["enable"]) : ValidTimeRange(r)
  /\ Sets(a, "disable") => \A r \in ToSet(a["disable"]) : ValidTimeRange(r)
  /\ Sets(a, "retries") => a["retries"] \in 0 .. 2

ValidRule(rule) == ValidRuleMatch(rule.match) /\ ValidRuleAction(rule.match, rule.action)

------------------------------------------------------------------------------
(* Evaluation *)

MatchCondition(m, actual) ==
  /\ m.value # <<>>
  /\ CASE m.op = "equals" -> actual = m.value
       [] m.op = "startWith" -> IsPrefix(m.value, actual)
       [] m.op = "include" -> \E i \in 1 .. Len(actual) + 1 :
                                IsPrefix(m.value, SubSeq(actual, i, Len(actual)))

\* ctx: a value for each field.
MatchRule(m, ctx) == m.field = "global" \/ MatchCondition(m, ctx[m.field])

MergeKeepsBoth(merged, action) ==      \* mutant: effort and effort_mode stay side by side
  action @@ merged

\* Later rules overwrite earlier ones, class by class; an allowed set and "strip" are
\* two ways to say one thing and clear each other.
MergeAction(merged, action) ==
  LET dropped == (IF Sets(action, "effort") THEN {"effort_mode"} ELSE {})
                   \cup (IF Sets(action, "effort_mode") THEN {"effort"} ELSE {})
  IN  [c \in (DOMAIN merged \cup DOMAIN action) \ dropped |->
         IF c \in DOMAIN action THEN action[c] ELSE merged[c]]

Evaluate(rules, ctx) ==
  FoldLeft(LAMBDA merged, rule :
             IF MatchRule(rule.match, ctx) THEN MergeAction(merged, rule.action) ELSE merged,
           NoAction, rules)

------------------------------------------------------------------------------
(* A leaf's request: [format, effort, summary, thinking, temperature, tokens,  *)
(* completion].  Only a chat request has max_completion_tokens beside          *)
(* max_tokens; 0 is an absent budget.  "summary" is what else stands in the    *)
(* block that holds the effort (reasoning, output_config).                     *)

ClampRequest(req, allowed) == [req EXCEPT !.effort = ApplyReasoningEffort(@, allowed)]

\* applyTo*Request with mode "strip": a block left empty goes with the effort.
StripEffort(req) == [req EXCEPT !.effort = ""]

ThinkingOff(req) ==
  [req EXCEPT !.thinking = "off",
              !.effort = IF req.format = "anthropic.messages" THEN "" ELSE "none"]

StripTemperature(req) == [req EXCEPT !.temperature = FALSE]

\* The floor goes to the budget in use and to no other.
FloorTokens(req, floor) ==
  IF req.format = "openai.chat" /\ req.completion # 0
  THEN [req EXCEPT !.completion = IF @ >= floor THEN @ ELSE floor]
  ELSE [req EXCEPT !.tokens = IF @ >= floor THEN @ ELSE floor]

\* A request of the Ollama codec is none of the three and passes unchanged.
ApplyLeafRules(req, merged) ==
  LET r1 == IF Sets(merged, "effort_mode") THEN StripEffort(req)
            ELSE IF Sets(merged, "effort") THEN ClampRequest(req, merged["effort"]) ELSE req
      r2 == IF Sets(merged, "thinking") /\ merged["thinking"] = "off" THEN ThinkingOff(r1) ELSE r1
      r3 == IF Sets(merged, "temperature_mode") THEN StripTemperature(r2) ELSE r2
      r4 == IF Sets(merged, "max_tokens") THEN FloorTokens(r3, merged["max_tokens"]) ELSE r3
  IN  IF req.format = "ollama.chat" THEN req ELSE r4

------------------------------------------------------------------------------
(* A provider's formats: [endpoints, protocols], the protocols declared with   *)
(* each endpoint and those of the provider as a whole.                         *)

NoFormat == ""
Known(protocols) == SelectSeq(protocols, LAMBDA p : p \in Formats)

\* NormalizeProtocols fails on a protocol it does not know; those of endpoints are skipped.
EndpointFormats(p) == FoldLeft(LAMBDA all, e : all \o Known(e), <<>>, p.endpoints)
AllFormats(p) ==
  IF EndpointFormats(p) # <<>> THEN EndpointFormats(p)
  ELSE IF ToSet(p.protocols) \subseteq Formats THEN p.protocols ELSE <<>>

\* The matrix: every conversion but one goes through the chat format.
Cost(chat, responses, messages, ollama) ==
  [f \in Formats |-> CASE f = "openai.chat" -> chat [] f = "openai.responses" -> responses
                       [] f = "anthropic.messages" -> messages [] OTHER -> ollama]
ConversionCost(inbound, outbound) ==
  (CASE inbound = "openai.chat" -> Cost(0, 3, 2, 1)
     [] inbound = "anthropic.messages" -> Cost(3, 6, 0, 4)
     [] inbound = "openai.responses" -> Cost(3, 0, 6, 4))[outbound]

FirstFormat(formats, inbound) == formats[1]       \* mutant: the provider's first

\* SelectBestFormat: the first of the cheapest.
SelectBestFormat(formats, inbound) ==
  LET better(best, f) ==
        IF best = NoFormat \/ ConversionCost(inbound, f) < ConversionCost(inbound, best)
        THEN f ELSE best
  IN  FoldLeft(better, NoFormat, formats)

SelectOutboundFormat(p, inbound) ==
  IF inbound \in ToSet(AllFormats(p)) THEN inbound
  ELSE SelectBestFormat(AllFormats(p), inbound)

ProtocolReachable(p, format) == format \in ToSet(AllFormats(p))
=============================================================================
