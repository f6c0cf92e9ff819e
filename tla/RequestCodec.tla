----------------------------- MODULE RequestCodec -----------------------------
(***************************************************************************)
(* The request converters (internal/codec): what EncodeRequest makes of a  *)
(* decoded request for an upstream of another format.  All but the direct  *)
(* ones go through the chat format, where three producers leave contents   *)
(* of different Go types that the consumers do not all read:               *)
(*   "string", "none" (null), "maps" (a decoded JSON array), "structs"     *)
(*   (parts built from Claude blocks), "media" (from Responses parts).     *)
(*                                                                         *)
(* A text is a sequence of tokens, so that joining is seen; arguments and  *)
(* tool declarations are not kept.  Every call has its id, as the three    *)
(* protocols require: the ids that are made up for calls without one, and  *)
(* the function_call of old, are left out.                                 *)
(***************************************************************************)
EXTENDS Integers, Sequences, FiniteSets, SequencesExt

FlatMap(Op(_), seq) == FlattenSeq([i \in DOMAIN seq |-> Op(seq[i])])

\* The longest runs of elements each of which joins the one before it.
Runs(Joins(_, _), seq) ==
  LET starts == SelectSeq([i \in DOMAIN seq |-> i], LAMBDA i : i = 1 \/ ~ Joins(seq[i - 1], seq[i]))
  IN  [k \in DOMAIN starts |->
         SubSeq(seq, starts[k], IF k = Len(starts) THEN Len(seq) ELSE starts[k + 1] - 1)]

NoId == ""
Part(kind, text, id, tool) == [kind |-> kind, text |-> text, id |-> id, tool |-> tool]
Text(tokens) == Part("text", tokens, NoId, "")
Image == Part("image", <<>>, NoId, "")
Use(id, tool) == Part("use", <<>>, id, tool)
Result(id, tokens) == Part("result", tokens, id, "")
Thought == Part("thinking", <<>>, NoId, "")
Dots == Text(<<"...">>)

\* A chat or Claude message, or a Responses item (role "call", "output", "reasoning", or
\* the role of a message item).  Claude keeps calls, results and thinking in the content.
Message(role, form, content) ==
  [role |-> role, form |-> form, content |-> content, calls |-> <<>>, of |-> NoId,
   thinks |-> FALSE]
Said(role, content) == Message(role, "string", content)
Answers(role, id, tokens) == [Said(role, <<Text(tokens)>>) EXCEPT !.of = id]
Calling(m, calls) == [m EXCEPT !.calls = calls]

Kind(content, kinds) == SelectSeq(content, LAMBDA p : p.kind \in kinds)
Tokens(content) == FlatMap(LAMBDA p : p.text, Kind(content, {"text"}))
Joined(content) == IF Tokens(content) = <<>> THEN <<>> ELSE <<Text(Tokens(content))>>
HasMedia(content) == Kind(content, {"image"}) # <<>>
Many(role, contents) == [i \in DOMAIN contents |-> Said(role, <<contents[i]>>)]

------------------------------------------------------------------------------
(* Claude to Chat (convertClaudeContentBlocksToOpenAI, buildMessages) *)

ResultsOnly(m) ==              \* mutant: what the user said beside the results
  LET results == Kind(m.content, {"result"})
  IN  [i \in DOMAIN results |-> Answers("tool", results[i].id, results[i].text)]

\* A user's message with results, media or several texts becomes one with parts, null if
\* it has results alone, and the results follow it.
UserToOpenAI(m) ==
  LET parts == Kind(m.content, {"text", "image"})
      results == Kind(m.content, {"result"})
      tools == [i \in DOMAIN results |-> Answers("tool", results[i].id, results[i].text)]
      first == IF HasMedia(parts) \/ results # <<>> \/ Len(parts) > 1
               THEN <<Message(m.role, "structs", parts)>>
               ELSE Many(m.role, parts)
  IN  IF first = <<>> THEN <<Said(m.role, <<>>)>> ELSE first \o tools

AssistantToOpenAI(m) ==
  LET parts == Kind(m.content, {"text", "image"})
      message == IF HasMedia(parts) THEN Message(m.role, "structs", parts)
                 ELSE Said(m.role, Joined(parts))
  IN  IF m.content = <<>> THEN <<>>
      ELSE <<[message EXCEPT !.calls = Kind(m.content, {"use"}),
                             !.thinks = Kind(m.content, {"thinking"}) # <<>>]>>

ConvertClaudeMessageToOpenAI(m) ==
  IF m.form = "string" THEN <<m>>
  ELSE IF m.role = "assistant" THEN AssistantToOpenAI(m) ELSE UserToOpenAI(m)

AnthropicToOpenAI(req) ==
  (IF req.system = <<>> THEN <<>> ELSE <<Said("system", <<Text(req.system)>>)>>)
    \o FlatMap(ConvertClaudeMessageToOpenAI, req.messages)

------------------------------------------------------------------------------
(* Responses to Chat (convertResponseRequestToChatRequest) *)

\* responseMessageContentToChatContent
ItemContent(item) ==
  IF item.form # "string" /\ HasMedia(item.content) THEN Message(item.role, "media", item.content)
  ELSE Said(item.role, Joined(item.content))

\* Each output is moved behind its call; what has no call comes last, in the order of a
\* Go map.  Reasoning is dropped.
ResponseToChat(req) ==
  LET outputs == SelectSeq(req.messages, LAMBDA i : i.role = "output")
      tool(i) == [i EXCEPT !.role = "tool"]
      of(id) == SelectSeq(outputs, LAMBDA i : i.of = id)
      called == {i.calls[1].id : i \in {x \in ToSet(req.messages) : x.role = "call"}}
      orphans == SelectSeq(outputs, LAMBDA i : i.of \notin called)
      message(i) ==
        CASE i.role \in {"output", "reasoning"} -> <<>>
          [] i.role = "call" ->
               LET answers == of(i.calls[1].id)
               IN  <<Calling(Said("assistant", <<>>), i.calls)>>
                     \o (IF answers = <<>> THEN <<>> ELSE <<tool(Last(answers))>>)
          [] OTHER -> <<ItemContent(i)>>
  IN  (IF req.system = <<>> THEN <<>> ELSE <<Said("system", <<Text(req.system)>>)>>)
        \o FlatMap(message, req.messages) \o [i \in DOMAIN orphans |-> tool(orphans[i])]

------------------------------------------------------------------------------
(* Chat to Claude (convertOpenAIToAnthropicRequest) *)

\* preprocessOpenAIMessagesV2: of strings of one role the contents are merged, and from
\* the second on nothing else is kept; null and the empty string become "...".
Preprocess(messages) ==
  LET empty(m) == m.form = "none" \/ (m.form = "string" /\ m.content = <<>>)
      joins(a, b) == /\ a.role = b.role /\ b.role # "tool"
                     /\ a.form \in {"string", "none"} /\ b.form = "string"
      merged(run) ==
        LET first == IF empty(run[1]) THEN [run[1] EXCEPT !.form = "string", !.content = <<Dots>>]
                     ELSE run[1]
            others == FlatMap(LAMBDA m : m.content, Tail(run))
        IN  IF Len(run) = 1 THEN first ELSE [first EXCEPT !.content = Joined(@ \o others)]
      runs == Runs(joins, messages)
  IN  [k \in DOMAIN runs |-> merged(runs[k])]

\* convertOpenAIMessageToAnthropicV2: media parts that are no maps are not read.
ToAnthropic(m, compat) ==
  LET read == IF m.form \in {"string", "maps"} THEN m.content ELSE <<>>
      thought == IF m.thinks \/ compat THEN <<Thought>> ELSE <<>>
  IN  IF m.role = "assistant" /\ m.calls # <<>>
      THEN Message(m.role, "maps", thought \o read \o m.calls)
      ELSE IF read = <<>> THEN Said(m.role, <<Dots>>)
      ELSE Message(m.role, m.form, read)

\* A result joins the user's message before it, be it one of results.
OpenAIToAnthropic(messages, compat) ==
  LET all == Preprocess(messages)
      system == SelectSeq(all, LAMBDA m : m.role = "system")
      turns == SelectSeq(all, LAMBDA m : m.role # "system")
      lead == IF turns # <<>> /\ turns[1].role # "user" THEN <<Message("user", "maps", <<Dots>>)>> ELSE <<>>
      joins(a, b) == a.role \in {"user", "tool"} /\ b.role = "tool"
      message(run) ==
        LET results == SelectSeq(run, LAMBDA m : m.role = "tool")
            of(m) == Result(m.of, Tokens(m.content))
            first == IF run[1].role = "tool" THEN Message("user", "maps", <<>>)
                     ELSE ToAnthropic(run[1], compat)
        IN  IF results = <<>> THEN first
            ELSE [first EXCEPT !.form = "maps",
                               !.content = @ \o [k \in DOMAIN results |-> of(results[k])]]
      runs == Runs(joins, lead \o turns)
  IN  [system |-> FlatMap(LAMBDA m : Tokens(m.content), system),
       messages |-> [k \in DOMAIN runs |-> message(runs[k])]]

------------------------------------------------------------------------------
(* Chat to Responses (fillInstructionsAndInput) *)

Item(role, calls) == [Message(role, "none", <<>>) EXCEPT !.calls = calls]

\* appendAssistantItems, appendUserItems: an array is read if it holds maps, text by text
\* unless there are media among them.
MessageItems(m) ==
  LET texts == Kind(m.content, {"text"})
      kept == IF m.role = "assistant" THEN texts ELSE m.content
  IN  CASE m.form = "structs" -> <<>>
        [] m.form = "maps" /\ HasMedia(m.content) ->
             IF kept = <<>> THEN <<>> ELSE <<Message(m.role, "maps", kept)>>
        [] m.form = "maps" /\ ~ HasMedia(m.content) -> Many(m.role, texts)
        [] OTHER -> IF m.role = "assistant" /\ m.content = <<>> THEN <<>>
                    ELSE <<Said(m.role, m.content)>>

ChatToResponse(messages, compat) ==
  LET items(m) ==
        CASE m.role = "system" -> <<>>
          [] m.role = "tool" -> <<[m EXCEPT !.role = "output"]>>
          [] m.role = "assistant" ->
               (IF compat /\ m.thinks THEN <<Item("reasoning", <<>>)>> ELSE <<>>)
                 \o MessageItems(m)
                 \o [i \in DOMAIN m.calls |-> Item("call", <<m.calls[i]>>)]
          [] OTHER -> MessageItems(m)
      system == SelectSeq(messages, LAMBDA m : m.role = "system")
  IN  [system |-> FlatMap(LAMBDA m : Tokens(m.content), system), messages |-> FlatMap(items, messages)]

------------------------------------------------------------------------------
(* Chat to Ollama (convertOpenAIToOllamaChatRequest): text alone, in a content *)
(* that is a string or holds maps; a result is known by its tool's name.       *)

OllamaReads(m) ==
  m.content = <<>> \/ (m.form \in {"string", "maps"} /\ ~ HasMedia(m.content))

OpenAIToOllama(messages) ==
  LET calls == FlatMap(LAMBDA m : m.calls, messages)
      name(id) == LET uses == SelectSeq(calls, LAMBDA c : c.id = id)
                  IN  IF uses = <<>> THEN id ELSE Last(uses).tool
  IN  [i \in DOMAIN messages |->
         [Said(messages[i].role, Joined(messages[i].content)) EXCEPT
            !.calls = messages[i].calls,
            !.of = IF messages[i].role = "tool" THEN name(messages[i].of) ELSE NoId]]

------------------------------------------------------------------------------
(* DeepSeek upstreams want the thinking of calls replayed: where there is none *)
(* a blank stands in for it.                                                   *)

\* cloneChatRequestWithDeepSeekCompat
PadChat(messages) ==
  [i \in DOMAIN messages |->
     [messages[i] EXCEPT !.thinks = @ \/ (messages[i].role = "assistant" /\ messages[i].calls # <<>>)]]

\* cloneClaudeRequestWithDeepSeekCompat: before the first call.
PadClaude(messages) ==
  LET pad(m) ==
        LET uses == {i \in DOMAIN m.content : m.content[i].kind = "use"}
            first == CHOOSE i \in uses : \A j \in uses : i <= j
        IN  IF m.role # "assistant" \/ uses = {} \/ Kind(m.content, {"thinking"}) # <<>> THEN m
            ELSE [m EXCEPT !.content = InsertAt(@, first, Thought)]
  IN  [i \in DOMAIN messages |-> pad(messages[i])]

------------------------------------------------------------------------------
(* The settings of a request: those the rules know (Rules), and its tool       *)
(* choice: "unset", "auto", "required", "none", "tool" (one by its name), or   *)
(* "object", which no format knows.  "single": one tool is declared.           *)

DefaultTokens == 4096

\* convertClaudeToolChoiceToOpenAI passes {"type":"none"} on as it is, and
\* convertToolChoiceToChat makes "auto" of what it does not know.
ChoiceToChat(format, choice) ==
  CASE format = "anthropic.messages" /\ choice = "none" -> "object"
    [] format = "openai.responses" /\ choice = "object" -> "auto"
    [] OTHER -> choice

\* The effort and the thinking of a Claude or Responses request have no counterpart.
SettingsToChat(req) ==
  IF req.format = "openai.chat" THEN req
  ELSE [req EXCEPT !.format = "openai.chat", !.effort = "", !.thinking = "unset",
                   !.summary = FALSE, !.choice = ChoiceToChat(req.format, @)]

EffortOn(req) ==   \* mutant: "none" is an effort it does not know
  CASE req.effort \in {"low", "medium", "high"} -> "on"
    [] req.effort = "" -> req.thinking
    [] OTHER -> "unset"

\* handleReasoningEffort: an effort that is set decides, one it does not know on nothing.
ThinkingForClaude(req) ==
  CASE req.effort = "none" -> "off"
    [] req.effort \in {"low", "medium", "high"} -> "on"
    [] req.effort = "" -> req.thinking
    [] OTHER -> "unset"

SettingsFromChat(req, format) ==
  LET used == IF req.completion > 0 THEN req.completion ELSE req.tokens
      sent == [req EXCEPT !.format = format]
  IN  CASE format = "openai.chat" -> sent
        [] format = "anthropic.messages" ->
             [sent EXCEPT !.tokens = IF used > 0 THEN used ELSE DefaultTokens, !.completion = 0,
                          !.effort = "", !.thinking = ThinkingForClaude(req),
                          !.choice = IF @ = "object" THEN "unset" ELSE @]
        [] format = "openai.responses" ->
             [sent EXCEPT !.tokens = used, !.completion = 0, !.thinking = "unset"]
        [] format = "ollama.chat" ->
             [sent EXCEPT !.tokens = IF @ > 0 THEN @ ELSE req.completion, !.completion = 0,
                          !.effort = "", !.choice = "unset"]

\* deepSeek*ThinkingEnabled, of the request as it came in.
ThinkingEnabled(req) ==
  ~ (req.thinking = "off" \/ (req.format # "anthropic.messages" /\ req.effort = "none"))

\* shouldDowngradeDeepSeek*: a forced choice of the only tool.
Downgrades(req, sent, compat) ==
  /\ compat /\ sent.format \in {"openai.chat", "openai.responses"}
  /\ ThinkingEnabled(req) /\ sent.single /\ sent.choice \in {"required", "tool"}

------------------------------------------------------------------------------
(* EncodeRequest, which does not look at the one for the other: the settings   *)
(* of a request, and its body [system, messages].  "compat": the upstream is   *)
(* a DeepSeek model.                                                           *)

EncodeSettings(req, format, compat) ==
  LET sent == IF req.format = format THEN req ELSE SettingsFromChat(SettingsToChat(req), format)
  IN  IF Downgrades(req, sent, compat) THEN [sent EXCEPT !.choice = "auto"] ELSE sent

ChatMessages(body, inbound) ==
  CASE inbound = "openai.chat" -> body.messages
    [] inbound = "anthropic.messages" -> AnthropicToOpenAI(body)
    [] inbound = "openai.responses" -> ResponseToChat(body)

\* json.Marshal: what were Go structs are maps to whoever reads them, a nil slice is null.
Marshalled(body) ==
  LET read(form, content) == IF form \notin {"structs", "media"} THEN form
                             ELSE IF content = <<>> THEN "none" ELSE "maps"
      message(m) == [m EXCEPT !.form = read(@, m.content)]
  IN  [body EXCEPT !.messages = [i \in DOMAIN @ |-> message(@[i])]]

\* The padding of chat messages comes before the conversion to Responses only for a
\* request that was a chat request.
Converted(body, inbound, format, compat) ==
  LET chat == ChatMessages(body, inbound)
      pads == compat /\ (format = "openai.chat" \/
                         (format = "openai.responses" /\ inbound = "openai.chat"))
      messages == IF pads THEN PadChat(chat) ELSE chat
  IN  CASE format = "openai.chat" -> [system |-> <<>>, messages |-> messages]
        [] format = "anthropic.messages" -> OpenAIToAnthropic(messages, compat)
        [] format = "openai.responses" -> ChatToResponse(messages, compat)
        [] format = "ollama.chat" -> [system |-> <<>>, messages |-> OpenAIToOllama(messages)]

\* Between requests of one format other than chat nothing is converted.
EncodeBody(body, inbound, format, compat) ==
  Marshalled(
    IF inbound # format \/ format = "openai.chat" THEN Converted(body, inbound, format, compat)
    ELSE IF compat /\ format = "anthropic.messages" THEN [body EXCEPT !.messages = PadClaude(@)]
    ELSE body)

\* What Ollama cannot be told is an error.
Encodable(body, inbound, format) ==
  format = "ollama.chat" => \A m \in ToSet(ChatMessages(body, inbound)) : OllamaReads(m)
------------------------------------------------------------------------------
(* What a body says, and what conversion may change of it: for the properties *)

\* What is said, shown, called and answered in a request, in its order.
Event(is, of, text) == [is |-> is, of |-> of, text |-> text]
Events(m) ==
  IF m.role \in {"tool", "output"} THEN <<Event("result", m.of, Tokens(m.content))>>
  ELSE FlatMap(LAMBDA p :
         CASE p.kind = "text" -> [i \in DOMAIN p.text |-> Event(m.role, NoId, <<p.text[i]>>)]
           [] p.kind = "image" -> <<Event(m.role, NoId, <<p.kind>>)>>
           [] p.kind = "use" -> <<Event("call", p.id, <<p.tool>>)>>
           [] p.kind = "result" -> <<Event("result", p.id, p.text)>>
           [] OTHER -> <<>>, m.content \o m.calls)
Talk(req) ==
  SelectSeq([i \in DOMAIN req.system |-> Event("system", NoId, <<req.system[i]>>)]
              \o FlatMap(Events, req.messages),
            LAMBDA e : e.text # Dots.text)

Spoken(talk) == SelectSeq(talk, LAMBDA e : e.is # "result")
\* The tool of each result and its text; a call that is not there before it is nobody's.
Results(talk) == {k \in DOMAIN talk : talk[k].is = "result"}
ResultsOf(talk, byName) ==
  {LET calls == {c \in DOMAIN talk : c < k /\ talk[c].is = "call" /\
                   talk[k].of = IF byName THEN talk[c].text[1] ELSE talk[c].of}
   IN  << {talk[c].text : c \in calls}, talk[k].text >> : k \in Results(talk)}

\* The losses there are.  A user's message with results, media or several texts keeps
\* none of its texts from Claude to Responses, nor one with media from Responses to Claude.
LosesTexts(inbound, format, m) ==
  \/ /\ inbound = "anthropic.messages" /\ format = "openai.responses"
     /\ m.role = "user" /\ Len(Kind(m.content, {"text", "image", "result"})) > 1
  \/ /\ inbound = "openai.responses" /\ format = "anthropic.messages"
     /\ HasMedia(m.content)

\* To Claude, an assistant's message right after another loses its calls.
LostCalls(body, inbound, format) ==
  LET chat == ChatMessages(body, inbound)
      follows(k) == /\ k > 1 /\ chat[k - 1].role = "assistant" /\ chat[k - 1].form \in {"string", "none"}
                    /\ chat[k].role = "assistant" /\ chat[k].form = "string"
  IN  IF format # "anthropic.messages" \/ inbound = format THEN {}
      ELSE UNION {{c.id : c \in ToSet(chat[k].calls)} : k \in {x \in DOMAIN chat : follows(x)}}

Remaining(body, inbound, format) ==
  LET kept(m) == IF LosesTexts(inbound, format, m)
                 THEN [m EXCEPT !.content = Kind(@, {"result"})] ELSE m
      lost == LostCalls(body, inbound, format)
  IN  SelectSeq(Talk([body EXCEPT !.messages = [i \in DOMAIN @ |-> kept(@[i])]]),
                LAMBDA e : e.is # "call" \/ e.of \notin lost)

\* The upstream is told what was said and called, in its order and once, and each result
\* after the call it answers, except for the losses named above.
ConversationKept(asked, sent, byName) ==
  /\ Spoken(sent) = Spoken(asked)
  /\ ResultsOf(sent, byName) = ResultsOf(asked, FALSE)
  /\ Cardinality(Results(sent)) = Cardinality(Results(asked))

Calls(m) == {c.id : c \in ToSet(m.calls \o Kind(m.content, {"use"}))}
AnsweredBy(m) == {r.id : r \in ToSet(Kind(m.content, {"result"}))} \cup (IF m.role = "tool" THEN {m.of} ELSE {})

\* A result stands right behind the message that calls for it, but for other results: Chat
\* and Claude upstreams refuse it elsewhere.
InPlace(messages) ==
  \A k \in DOMAIN messages :
    AnsweredBy(messages[k]) # {} =>
      \E c \in 1 .. k - 1 : /\ AnsweredBy(messages[k]) \subseteq Calls(messages[c])
                            /\ \A j \in c + 1 .. k - 1 : messages[j].role = "tool"

\* A thinking DeepSeek refuses calls without the thinking that led to them.
Thoughtful(messages) ==
  \A m \in ToSet(messages) :
    LET inner == Kind(m.content, {"use", "thinking"})
    IN  Calls(m) # {} => m.thinks \/ (inner # <<>> /\ Head(inner) = Thought)
==============================================================================
