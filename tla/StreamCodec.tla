----------------------------- MODULE StreamCodec -----------------------------
(***************************************************************************)
(* The stream converters (internal/codec).  Every pair of formats goes     *)
(* through Chat chunks: a decoder turns the upstream's events into chunks, *)
(* an encoder the chunks into the client's events, both one event at a     *)
(* time and with the little they have to remember; the writer around them  *)
(* decides what the end of the body, an error and a bad frame mean.        *)
(*                                                                         *)
(* Texts are not kept, only that there is one.  The arguments of a call    *)
(* are the sequence of their fragments, numbered by the upstream; a call   *)
(* is named by a number, its id.  NoIndex is Go's -1 or absent pointer.    *)
(***************************************************************************)
EXTENDS Integers, Sequences, SequencesExt

NoIndex == -1
NoKey == <<"none", 0>>

\* A chunk of the Chat protocol, and an entry of its tool_calls (id 0: not given).
Chunk == [choice |-> TRUE, delta |-> {}, calls |-> <<>>, finish |-> "none", usage |-> FALSE]
Call(index, id, args) == [index |-> index, id |-> id, args |-> args]
UsageOnly == [Chunk EXCEPT !.choice = FALSE, !.usage = TRUE]

\* Client events: a block or output item i of a kind (a call's kind is its id).
Event(type, i, kind, args) == [type |-> type, index |-> i, kind |-> kind, args |-> args]
Mark(type) == Event(type, NoIndex, 0, <<>>)
Text == 0      \* kinds that are no call
Thinking == -2
Media == -3

Emit(m, e) == [m EXCEPT !.out = Append(@, e)]
Put(f, k, v) == (k :> v) @@ f
At(f, k, default) == IF k \in DOMAIN f THEN f[k] ELSE default

------------------------------------------------------------------------------
(* chatToClaudeStreamMapper *)

ClaudeMapper ==
  [out |-> <<>>, started |-> FALSE, text |-> NoIndex, think |-> NoIndex, next |-> 0,
   tools |-> <<>>, usage |-> FALSE, pending |-> "none", sent |-> FALSE]

MessageStart(m) ==
  IF m.started THEN m ELSE Emit([m EXCEPT !.started = TRUE], Mark("message_start"))

NewBlock(m, kind) == Emit([m EXCEPT !.next = @ + 1], Event("start", m.next, kind, <<>>))

TextBlock(m) ==
  IF m.text # NoIndex THEN m ELSE [NewBlock(m, Text) EXCEPT !.text = m.next]
ThinkingBlock(m) ==
  IF m.think # NoIndex THEN m ELSE [NewBlock(m, Thinking) EXCEPT !.think = m.next]

\* A data URI is a block of its own.
ClaudeContent(m, delta) ==
  LET s == IF delta = {} THEN m ELSE MessageStart(m)
      t == IF "think" \notin delta THEN s
           ELSE LET b == ThinkingBlock(s) IN Emit(b, Event("delta", b.think, Thinking, <<>>))
      u == IF "media" \notin delta THEN t
           ELSE Emit(NewBlock(t, Media), Event("stop", t.next, Media, <<>>))
  IN  IF "text" \notin delta THEN u
      ELSE LET b == TextBlock(u) IN Emit(b, Event("delta", b.text, Text, <<>>))

\* Arguments of a call that was never named have no block to go to.
ClaudeCall(m, tc) ==
  LET s == MessageStart(m)
      b == IF tc.index \in DOMAIN s.tools \/ tc.id = 0 THEN s
           ELSE [NewBlock(s, tc.id) EXCEPT !.tools = Put(@, tc.index, s.next)]
  IN  IF tc.args = <<>> \/ tc.index \notin DOMAIN b.tools THEN b
      ELSE Emit(b, Event("delta", b.tools[tc.index], tc.id, tc.args))

\* closeOpenContentBlocks
CloseBlocksKeepingTools(m) ==     \* mutant: the calls are not forgotten, nor the text closed
  LET tools == SetToSortSeq({m.tools[i] : i \in DOMAIN m.tools}, <)
  IN  [m EXCEPT !.out = @ \o [i \in DOMAIN tools |-> Event("stop", tools[i], Text, <<>>)]]
CloseBlocks(m) ==
  LET tools == SetToSortSeq({m.tools[i] : i \in DOMAIN m.tools}, <)
      all == SelectSeq(<<m.think, m.text>> \o tools, LAMBDA i : i # NoIndex)
  IN  [m EXCEPT !.out = @ \o [i \in DOMAIN all |-> Event("stop", all[i], Text, <<>>)],
                !.think = NoIndex, !.text = NoIndex, !.tools = <<>>]

\* emitStopWithUsage, once.
ClaudeStop(m) ==
  Emit(Emit([m EXCEPT !.sent = TRUE],
            [Mark("message_delta") EXCEPT !.args = <<m.pending>>]),
       Mark("message_stop"))

ClaudeFinish(m, reason) ==
  IF reason = "none" \/ m.pending # "none" \/ m.sent THEN m
  ELSE LET s == [CloseBlocks(MessageStart(m)) EXCEPT !.pending = reason]
       IN  IF s.usage THEN ClaudeStop(s) ELSE s

MapToClaude(m, chunk) ==
  LET s == [m EXCEPT !.out = <<>>, !.usage = @ \/ chunk.usage]
  IN  IF chunk.usage /\ s.pending # "none" /\ ~ s.sent THEN ClaudeStop(s)
      ELSE IF ~ chunk.choice THEN s
      ELSE ClaudeFinish(FoldLeft(ClaudeCall, ClaudeContent(s, chunk.delta), chunk.calls),
                        chunk.finish)

\* A message that was begun and not finished is ended as if it were.
FlushClaude(m) ==
  LET s == [m EXCEPT !.out = <<>>]
  IN  IF s.sent THEN s
      ELSE IF s.pending # "none" THEN ClaudeStop(s)
      ELSE IF ~ s.started THEN s
      ELSE ClaudeStop([CloseBlocks(s) EXCEPT !.pending = "stop"])

------------------------------------------------------------------------------
(* chatToResponsesStreamMapper *)

ResponsesMapper ==
  [out |-> <<>>, created |-> FALSE, text |-> NoIndex, next |-> 0, tools |-> <<>>,
   usage |-> FALSE, pending |-> FALSE, sent |-> FALSE]

ResponseCreated(m) ==
  IF m.created THEN m ELSE Emit([m EXCEPT !.created = TRUE], Mark("created"))

NewItem(m, kind) == Emit([m EXCEPT !.next = @ + 1], Event("start", m.next, kind, <<>>))

\* Thinking is not passed on; a data URI is text.
ResponsesContent(m, delta) ==
  IF delta \cap {"text", "media"} = {} THEN m
  ELSE LET s == ResponseCreated(m)
           b == IF s.text # NoIndex THEN s ELSE [NewItem(s, Text) EXCEPT !.text = s.next]
       IN  Emit(b, Event("delta", b.text, Text, <<>>))

ResponsesCall(m, tc) ==
  LET s == ResponseCreated(m)
      b == IF tc.index \in DOMAIN s.tools \/ tc.id = 0 THEN s
           ELSE [NewItem(s, tc.id) EXCEPT
                   !.tools = Put(@, tc.index, [index |-> s.next, id |-> tc.id, args |-> <<>>])]
  IN  IF tc.args = <<>> \/ tc.index \notin DOMAIN b.tools THEN b
      ELSE Emit([b EXCEPT !.tools[tc.index].args = @ \o tc.args],
                Event("delta", b.tools[tc.index].index, b.tools[tc.index].id, tc.args))

Completed(m) == Emit([m EXCEPT !.sent = TRUE], Mark("completed"))

\* The items are done; the calls in the order of a Go map, which no client may rely on.
ItemsDone(m) ==
  LET items == {m.tools[i] : i \in DOMAIN m.tools}
      inOrder == SetToSortSeq(items, LAMBDA a, b : a.index < b.index)
      texts == IF m.text = NoIndex THEN <<>> ELSE <<Event("stop", m.text, Text, <<>>)>>
  IN  [m EXCEPT !.out = @ \o texts \o
         [i \in DOMAIN inOrder |->
            Event("stop", inOrder[i].index, inOrder[i].id, inOrder[i].args)]]

ResponsesFinish(m, reason) ==
  IF reason = "none" \/ m.pending \/ m.sent THEN m
  ELSE LET s == [ItemsDone(ResponseCreated(m)) EXCEPT !.pending = TRUE]
       IN  IF s.usage THEN Completed(s) ELSE s

MapToResponses(m, chunk) ==
  LET u == [m EXCEPT !.out = <<>>, !.usage = @ \/ chunk.usage]
      s == IF chunk.usage /\ u.pending /\ ~ u.sent THEN Completed(u) ELSE u
  IN  IF ~ chunk.choice THEN s
      ELSE ResponsesFinish(
             FoldLeft(ResponsesCall, ResponsesContent(s, chunk.delta), chunk.calls),
             chunk.finish)

FlushResponsesAlways(m) ==           \* mutant: without a finish_reason, as for Claude
  LET s == [m EXCEPT !.out = <<>>]
  IN  IF s.sent \/ ~ s.created THEN s
      ELSE Completed(IF s.pending THEN s ELSE ItemsDone(s))

\* Without a finish_reason there is no response.completed.
FlushResponses(m) ==
  LET s == [m EXCEPT !.out = <<>>]
  IN  IF s.sent \/ ~ s.pending THEN s ELSE Completed(s)

------------------------------------------------------------------------------
(* claudeToChatStreamMapper.  Decoders answer a record of their state and the *)
(* chunks of one event.                                                       *)

Decoded(d, chunks) == [d |-> d, chunks |-> chunks, failed |-> FALSE]

ClaudeDecoder == [tools |-> <<>>, finished |-> FALSE, usage |-> FALSE]

WithFinish(reason, usage) == [Chunk EXCEPT !.finish = reason, !.usage = usage]
WithDelta(kind) ==
  [Chunk EXCEPT !.delta = IF kind = Thinking THEN {"think"} ELSE {"text"}]

\* Fragments name their call again each time.
ClaudeArgs(d, e) ==
  [Chunk EXCEPT !.calls = <<Call(e.index, At(d.tools, e.index, 0), e.args)>>]

DecodeClaude(d, e) ==
  CASE e.type = "message_start" -> Decoded(d, <<[Chunk EXCEPT !.delta = {"role"}]>>)
    [] e.type = "start" /\ e.kind > 0 ->
         Decoded([d EXCEPT !.tools = Put(@, e.index, e.kind)],
                 <<[Chunk EXCEPT !.calls = <<Call(e.index, e.kind, <<>>)>>]>>)
    [] e.type = "delta" /\ e.args # <<>> -> Decoded(d, <<ClaudeArgs(d, e)>>)
    [] e.type = "delta" /\ e.args = <<>> -> Decoded(d, <<WithDelta(e.kind)>>)
    [] e.type = "message_delta" /\ e.reason # "none" ->
         LET s == [d EXCEPT !.usage = @ \/ e.usage, !.finished = TRUE]
         IN  Decoded(s, <<WithFinish(e.reason, s.usage)>>)
    [] e.type = "message_delta" /\ e.reason = "none" ->
         Decoded([d EXCEPT !.usage = @ \/ e.usage], IF e.usage THEN <<UsageOnly>> ELSE <<>>)
    [] e.type = "message_stop" /\ ~ d.finished ->
         Decoded([d EXCEPT !.finished = TRUE], <<WithFinish("stop", d.usage)>>)
    [] OTHER -> Decoded(d, <<>>)

------------------------------------------------------------------------------
(* responsesToChatStreamMapper: a call is known by its output index, by its   *)
(* item's id, or, when an upstream gives neither, by being the only one.      *)

ResponsesDecoder ==
  [role |-> FALSE, next |-> 0, tool |-> <<>>, outKey |-> <<>>, itemKey |-> <<>>,
   pendingOut |-> <<>>, pendingItem |-> <<>>, fallback |-> NoKey, ambiguous |-> FALSE,
   sawCall |-> FALSE]

RoleOnce(d) == IF d.role THEN <<>> ELSE <<[Chunk EXCEPT !.delta = {"role"}]>>

\* keyForEvent, else the item's or the call's id (ensureTool).
KeyOf(e) ==
  CASE e.index # NoIndex -> <<"output", e.index>>
    [] e.index = NoIndex /\ e.item # 0 -> <<"item", e.item>>
    [] OTHER -> <<"call", e.kind>>

\* The candidates of findTool, in its order.
FindTool(d, e) ==
  LET byOut == IF e.index = NoIndex THEN NoKey ELSE At(d.outKey, e.index, <<"output", e.index>>)
      byItem == IF e.item = 0 THEN NoKey ELSE At(d.itemKey, e.item, <<"item", e.item>>)
      keys == SelectSeq(<<byOut, byItem, IF d.ambiguous THEN NoKey ELSE d.fallback>>,
                        LAMBDA k : k \in DOMAIN d.tool)
  IN  IF keys = <<>> THEN NoKey ELSE Head(keys)

EnsureTool(d, e) ==
  LET key == KeyOf(e)
      s == IF key[1] # "call" THEN d
           ELSE IF d.fallback \notin {NoKey, key} THEN [d EXCEPT !.ambiguous = TRUE]
           ELSE [d EXCEPT !.fallback = key]
  IN  IF key \in DOMAIN d.tool THEN s
      ELSE [s EXCEPT !.tool = Put(@, key, s.next), !.next = @ + 1,
                     !.outKey = IF e.index = NoIndex THEN @ ELSE Put(@, e.index, key),
                     !.itemKey = IF e.item = 0 THEN @ ELSE Put(@, e.item, key)]

PendingForgotten(d, e) == <<>>       \* mutant: arguments that came early are dropped
\* What came before the call was added: by its index, else by its item.
Pending(d, e) ==
  IF e.index # NoIndex /\ At(d.pendingOut, e.index, <<>>) # <<>>
    THEN d.pendingOut[e.index] ELSE At(d.pendingItem, e.item, <<>>)

Without(f, k) == [x \in DOMAIN f \ {k} |-> f[x]]

CallAdded(d, e) ==
  LET s == EnsureTool(d, e)
      byIndex == e.index # NoIndex /\ At(d.pendingOut, e.index, <<>>) # <<>>
      call == Call(s.tool[KeyOf(e)], e.kind, Pending(d, e))
  IN  Decoded([s EXCEPT !.role = TRUE, !.sawCall = TRUE,
                        !.pendingOut = Without(@, e.index),
                        !.pendingItem = IF byIndex THEN @ ELSE Without(@, e.item)],
              RoleOnce(d) \o <<[Chunk EXCEPT !.calls = <<call>>]>>)

\* Arguments of a call that is not there yet are kept, under all it is known by.
CallArguments(d, e) ==
  LET key == FindTool(d, e)
      viaFallback == key = d.fallback /\ key # NoKey
  IN  IF key = NoKey
      THEN Decoded([d EXCEPT
             !.pendingOut = IF e.index = NoIndex THEN @
                            ELSE Put(@, e.index, At(@, e.index, <<>>) \o e.args),
             !.pendingItem = IF e.item = 0 THEN @
                             ELSE Put(@, e.item, At(@, e.item, <<>>) \o e.args)], <<>>)
      ELSE Decoded([d EXCEPT
             !.outKey = IF viaFallback /\ e.index # NoIndex THEN Put(@, e.index, key) ELSE @,
             !.itemKey = IF viaFallback /\ e.item # 0 THEN Put(@, e.item, key) ELSE @],
             <<[Chunk EXCEPT !.calls = <<Call(d.tool[key], 0, e.args)>>]>>)

\* The reason is the status's if it is incomplete, else what was seen.
ResponsesReason(d, e) ==
  IF e.reason = "length" THEN "length" ELSE IF d.sawCall THEN "tool_calls" ELSE "stop"

DecodeResponses(d, e) ==
  CASE e.type = "created" -> Decoded([d EXCEPT !.role = TRUE], RoleOnce(d))
    [] e.type = "delta" /\ e.args = <<>> /\ e.kind = Text -> Decoded(d, <<WithDelta(Text)>>)
    [] e.type = "delta" /\ e.args = <<>> /\ e.kind = Thinking ->
         Decoded([d EXCEPT !.role = TRUE], RoleOnce(d) \o <<WithDelta(Thinking)>>)
    [] e.type = "start" /\ e.kind > 0 -> CallAdded(d, e)
    [] e.type = "delta" /\ e.args # <<>> -> CallArguments(d, e)
    [] e.type = "completed" -> Decoded(d, <<WithFinish(ResponsesReason(d, e), e.usage)>>)
    [] e.type = "failed" -> [Decoded(d, <<>>) EXCEPT !.failed = TRUE]
    [] OTHER -> Decoded(d, <<>>)

------------------------------------------------------------------------------
(* scanOllamaChatStream: every call of a line is a new, complete one.         *)

OllamaDecoder == [next |-> 0, sawCall |-> FALSE]

OllamaReasonAsSent(d, e) ==          \* mutant: calls of earlier lines do not count
  LET calls == [i \in DOMAIN e.calls |-> Call(d.next + i - 1, e.calls[i].id, e.calls[i].args)]
  IN  IF e.type = "error" THEN [Decoded(d, <<>>) EXCEPT !.failed = TRUE]
      ELSE
      Decoded([next |-> d.next + Len(calls), sawCall |-> FALSE],
              <<[Chunk EXCEPT !.delta = e.delta, !.calls = calls, !.usage = e.usage,
                   !.finish = IF e.reason # "none" /\ calls # <<>> THEN "tool_calls"
                              ELSE e.reason]>>)
DecodeOllama(d, e) ==
  IF e.type = "error" THEN [Decoded(d, <<>>) EXCEPT !.failed = TRUE]
  ELSE LET calls == [i \in DOMAIN e.calls |->
                       Call(d.next + i - 1, e.calls[i].id, e.calls[i].args)]
           s == [next |-> d.next + Len(calls),
                 sawCall |-> d.sawCall \/ (e.reason = "none" /\ calls # <<>>)]
       IN  Decoded(s, <<[Chunk EXCEPT !.delta = e.delta, !.calls = calls, !.usage = e.usage,
                           !.finish = IF e.reason # "none" /\ (s.sawCall \/ calls # <<>>)
                                      THEN "tool_calls" ELSE e.reason]>>)

------------------------------------------------------------------------------
(* The writers.  A pair is the upstream's format and the client's; "object"   *)
(* is a client of the Responses API that did not ask for a stream and whose   *)
(* upstream answers with one all the same.                                    *)

\* Chat clients get the chunks, usage in a chunk of its own (IncludeUsage), and [DONE].
ChatMapper == [out |-> <<>>]
DoneMark == [Chunk EXCEPT !.choice = FALSE, !.delta = {"done"}]
MapToChat(m, chunk) ==
  [m EXCEPT !.out = (IF chunk.choice THEN <<[chunk EXCEPT !.usage = FALSE]>> ELSE <<>>)
                    \o IF chunk.usage THEN <<UsageOnly>> ELSE <<>>]

\* readResponsesStreamToObject: arguments by item, text in one.
ObjectMapper == [out |-> <<>>, args |-> <<>>, ids |-> <<>>]

AddToObject(m, e) ==
  CASE e.type = "start" /\ e.kind > 0 ->
         [m EXCEPT !.args = Put(@, e.item, <<>>), !.ids = Put(@, e.item, e.kind)]
    [] e.type = "delta" /\ e.args # <<>> /\ e.item # 0 ->
         [m EXCEPT !.args = Put(@, e.item, At(@, e.item, <<>>) \o e.args)]
    [] OTHER -> m

\* The object is complete whatever the stream came to.
WholeObject(m) ==
  LET items == SetToSortSeq(DOMAIN m.args, <)
  IN  [m EXCEPT !.out =
        [i \in DOMAIN items |->
           Event("item", NoIndex, At(m.ids, items[i], 0), m.args[items[i]])]
          \o <<Mark("completed")>>]

Same(pair) == pair.from = pair.to
Direct(pair) == pair.from = "chat" /\ pair.to = "claude"

Decoder(pair) ==
  CASE pair.from = "claude" -> ClaudeDecoder
    [] pair.from = "responses" -> ResponsesDecoder
    [] pair.from = "ollama" -> OllamaDecoder
    [] OTHER -> [none |-> 0]

Decode(pair, d, e) ==
  CASE pair.from = "claude" -> DecodeClaude(d, e)
    [] pair.from = "responses" -> DecodeResponses(d, e)
    [] pair.from = "ollama" -> DecodeOllama(d, e)
    [] OTHER -> Decoded(d, <<e.chunk>>)

Encoder(pair) ==
  CASE pair.to = "claude" -> ClaudeMapper
    [] pair.to = "responses" -> ResponsesMapper
    [] pair.to = "object" -> ObjectMapper
    [] OTHER -> ChatMapper

Encode(pair, m, chunk) ==
  CASE pair.to = "claude" -> MapToClaude(m, chunk)
    [] pair.to = "responses" -> MapToResponses(m, chunk)
    [] OTHER -> MapToChat(m, chunk)

\* A writer: its decoder and encoder, whether a terminal event went by, and what it
\* came to: "reading", "done", "failed" (an error was returned), "truncated".
NewWriter(pair) ==
  [d |-> Decoder(pair), m |-> Encoder(pair), terminal |-> FALSE, st |-> "reading"]

\* The events of one chunk after another, collected.
EncodeAll(pair, m, chunks) ==
  FoldLeft(LAMBDA acc, chunk : LET n == Encode(pair, acc, chunk)
                               IN  [n EXCEPT !.out = acc.out \o @],
           [m EXCEPT !.out = <<>>], chunks)

\* What counts as the end when a format is passed through.
Terminal(pair, e) ==
  CASE pair.from = "chat" -> e.type = "done" \/ e.chunk.finish # "none"
    [] pair.from = "claude" -> e.type \in {"message_stop", "error"}
    [] OTHER -> e.type \in {"completed", "failed"}

\* Strict writers give up at a frame that is no JSON, the others skip it.
Strict(pair) ==
  \/ pair.from = "ollama"
  \/ pair.from = "claude" /\ pair.to = "responses"
  \/ pair.from = "responses" /\ pair.to = "claude"

\* A chat client is sent [DONE] whenever the body ended in order, also where no
\* finish_reason came.
Flush(pair, m) ==
  CASE pair.to = "claude" -> FlushClaude(m)
    [] pair.to = "responses" -> FlushResponses(m)
    [] pair.to = "object" -> WholeObject(m)
    [] OTHER -> [m EXCEPT !.out = <<DoneMark>>]

Finished(pair, w) == [w EXCEPT !.m = Flush(pair, @), !.st = "done"]
Silent(w) == [w EXCEPT !.m.out = <<>>]

\* One frame of the stream: passed on as it is,
PassFrame(pair, w, e) ==
  [Silent(w) EXCEPT !.terminal = @ \/ Terminal(pair, e),
                    !.st = IF pair.from = "chat" /\ e.type = "done" THEN "done" ELSE @]

\* gathered,
ObjectFrame(w, e) ==
  IF e.type = "failed" THEN [Silent(w) EXCEPT !.st = "failed"] ELSE [w EXCEPT !.m = AddToObject(@, e)]

\* or decoded and encoded; [DONE] ends only what is converted directly.
ConvertFrame(pair, w, e) ==
  CASE e.type = "done" /\ Direct(pair) -> Finished(pair, w)
    [] e.type = "done" /\ ~ Direct(pair) -> Silent(w)
    [] OTHER -> LET r == Decode(pair, w.d, e)
                IN  [w EXCEPT !.d = r.d, !.m = EncodeAll(pair, @, r.chunks),
                              !.st = IF r.failed THEN "failed" ELSE @]

WriteFrame(pair, w, e) ==
  CASE e.type = "bad" -> [Silent(w) EXCEPT !.st = IF Strict(pair) THEN "failed" ELSE @]
    [] e.type # "bad" /\ Same(pair) -> PassFrame(pair, w, e)
    [] e.type # "bad" /\ pair.to = "object" -> ObjectFrame(w, e)
    [] OTHER -> ConvertFrame(pair, w, e)

\* The body has ended, or cannot be read further.
WriteEnd(pair, w) ==
  IF Same(pair) THEN [Silent(w) EXCEPT !.st = IF w.terminal THEN "done" ELSE "truncated"]
  ELSE Finished(pair, w)
WriteFails(w) == [Silent(w) EXCEPT !.st = "failed"]
=============================================================================
