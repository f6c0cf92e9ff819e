------------------------------ MODULE SmartRoute ------------------------------
(***************************************************************************)
(* The smart route (handler/smart_route.go): what is observed of a turn,   *)
(* and the rules that send it to the reasoning group of its entry, to the  *)
(* scout group or to the judge.                                            *)
(*                                                                         *)
(* A text is reduced to the marks its keywords leave, in the part that is  *)
(* always kept (500 bytes), the part kept of material only (to 800) and    *)
(* the rest.  A conversation is a sequence of turns:                       *)
(*   [by |-> "user", text], [by |-> "assistant", text, calls],             *)
(*   [by |-> "tools", texts, aside]  (the results of the calls before, and *)
(*   at most one text the user sent with them)                             *)
(***************************************************************************)
EXTENDS RequestCodec

CONSTANTS Window             \* maxMessages, maxItems (6): units that are looked at

ASSUME SmartAssumption == Window \in Nat \ {0}

GatheringTools == {"web_search", "read_file", "grep"}
NoText == [head |-> {}, middle |-> {}, tail |-> {}]

------------------------------------------------------------------------------
(* How a conversation arrives, in units [calls, result, text] *)

Unit(calls, result, text) == <<[calls |-> calls, result |-> result, text |-> text]>>

\* Results of their own, and what the user said with them after them.
ResultUnits(t) ==
  FlatMap(LAMBDA x : Unit(<<>>, TRUE, x), t.texts)
    \o FlatMap(LAMBDA x : Unit(<<>>, FALSE, x), t.aside)

\* /v1/chat/completions: a message for every result.
ChatUnits(conv) ==
  FlatMap(LAMBDA t :
    CASE t.by = "user" -> Unit(<<>>, FALSE, t.text)
      [] t.by = "assistant" -> Unit(t.calls, FALSE, t.text)
      [] t.by = "tools" -> ResultUnits(t), conv)

\* /v1/messages: one message holds all results, their text under "content", which
\* extractClaudeContent does not read, and the user's text beside them.
MessagesUnits(conv) ==
  FlatMap(LAMBDA t :
    CASE t.by = "user" -> Unit(<<>>, FALSE, t.text)
      [] t.by = "assistant" -> Unit(t.calls, FALSE, t.text)
      [] t.by = "tools" -> Unit(<<>>, TRUE, IF t.aside = <<>> THEN NoText ELSE t.aside[1]), conv)

ResponsesUnitsNoCalls(conv) ==           \* mutant: calls are no items
  FlatMap(LAMBDA t :
    CASE t.by \in {"user", "assistant"} -> Unit(<<>>, FALSE, t.text)
      [] t.by = "tools" -> ResultUnits(t), conv)

\* /v1/responses: an item for every text, call and result.
ResponsesUnits(conv) ==
  FlatMap(LAMBDA t :
    CASE t.by = "user" -> Unit(<<>>, FALSE, t.text)
      [] t.by = "assistant" ->
           (IF t.text = NoText THEN <<>> ELSE Unit(<<>>, FALSE, t.text))
             \o FlatMap(LAMBDA c : Unit(<<c>>, FALSE, NoText), t.calls)
      [] t.by = "tools" -> ResultUnits(t), conv)

------------------------------------------------------------------------------
(* The observation *)

\* containsMaterialKeywords, on the whole text; the others see what is kept of it.
IsMaterial(text) == "material" \in text.head \cup text.middle \cup text.tail
Kept(text) == text.head \cup (IF IsMaterial(text) THEN text.middle ELSE {})

Observe(units) ==
  LET seen == SubSeq(units, IF Len(units) > Window THEN Len(units) - Window + 1 ELSE 1, Len(units))
      any(P(_)) == \E u \in ToSet(seen) : P(u)
      marked(m) == any(LAMBDA u : m \in Kept(u.text))
  IN  [toolCall |-> any(LAMBDA u : u.calls # <<>>),
       tools |-> UNION {ToSet(u.calls) : u \in ToSet(seen)},
       latestResult |-> seen # <<>> /\ Last(seen).result,
       latestMaterial |-> seen # <<>> /\ IsMaterial(Last(seen).text),
       material |-> any(LAMBDA u : IsMaterial(u.text)),
       code |-> any(LAMBDA u : IsMaterial(u.text) /\ "code" \in Kept(u.text)),
       execution |-> marked("execution"), continue |-> marked("continue"),
       synthesis |-> marked("synthesis")]

ObserveTurnOpenAIChat(conv) == Observe(ChatUnits(conv))
ObserveTurnAnthropicMessages(conv) == Observe(MessagesUnits(conv))
ObserveTurnOpenAIResponse(conv) == Observe(ResponsesUnits(conv))

ObserveTurn(format, conv) ==
  CASE format = "openai.chat" -> ObserveTurnOpenAIChat(conv)
    [] format = "anthropic.messages" -> ObserveTurnAnthropicMessages(conv)
    [] format = "openai.responses" -> ObserveTurnOpenAIResponse(conv)

------------------------------------------------------------------------------
(* The rules *)

HasGatheringTool(obs) == obs.tools \cap GatheringTools # {}

ShouldRouteScoutByRule(obs) ==
  /\ obs.latestResult \/ obs.latestMaterial
  /\ obs.material
  /\ ~ obs.synthesis /\ ~ obs.execution
  /\ obs.continue \/ (HasGatheringTool(obs) /\ ~ obs.code)

ShouldNeedJudge(obs) ==
  /\ obs.toolCall
  /\ obs.latestResult \/ obs.latestMaterial
  /\ obs.material /\ ~ obs.execution
  /\ (obs.continue /\ obs.synthesis) \/ (obs.code /\ HasGatheringTool(obs))

\* ApplySmartRouteRules, for an entry that is enabled.
ApplySmartRouteRules(obs) ==
  IF ~ obs.toolCall \/ obs.execution THEN "reason"
  ELSE IF ShouldRouteScoutByRule(obs) THEN "scout"
  ELSE IF ShouldNeedJudge(obs) THEN "judge"
  ELSE "reason"

Decision(format, conv) == ApplySmartRouteRules(ObserveTurn(format, conv))
=============================================================================
