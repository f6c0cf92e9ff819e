----------------------------- MODULE StreamPeers -----------------------------
(***************************************************************************)
(* The two ends of a converted stream: what an upstream of each format     *)
(* sends, as far as the converters tell events apart, and what a client of *)
(* each format accepts.  Neither is code of the repository: the first is   *)
(* what the converters' cases and tests expect, the second the rules their *)
(* bookkeeping (blocks opened and closed once, one end) is there to keep.  *)
(***************************************************************************)
EXTENDS StreamCodec

CONSTANTS MaxCalls,    \* bounds of the model: tool calls of a stream, and the
          MaxParts     \* fragments of each one's arguments

ASSUME PeersAssumption == MaxCalls \in Nat \ {0} /\ MaxParts \in Nat \ {0}

Calls == 1 .. MaxCalls

\* An event or line of an upstream; of its fields those its format has are set.
Frame(type) ==
  [type |-> type, index |-> NoIndex, kind |-> Text, args |-> <<>>, item |-> 0,
   reason |-> "none", usage |-> FALSE, chunk |-> Chunk, delta |-> {}, calls |-> <<>>]

------------------------------------------------------------------------------
(* The upstream: its stage, the calls it has announced, the fragments it has  *)
(* sent of each, the block a Claude stream has open, and how a Responses      *)
(* stream refers to a call.                                                   *)

Styles == {"both", "index", "item", "call"}
Closed == -9

NewUpstream(style) ==
  [stage |-> "new", calls |-> 0, parts |-> [c \in Calls |-> 0],
   blocks |-> 0, open |-> Closed, usage |-> FALSE, style |-> style]

Step(e, up) == [e |-> e, up |-> up]
Part(up, c) == <<up.parts[c] + 1>>
Sends(up, c) == [up EXCEPT !.parts[c] = @ + 1]
Unsent(up, S) == {c \in S : up.parts[c] < MaxParts}
Announced(up) == 1 .. up.calls
Fresh(up) == {up.calls + 1} \cap Calls
Announces(up) == [up EXCEPT !.calls = @ + 1]
Reason(up) == IF up.calls > 0 THEN "tool_calls" ELSE "stop"
To(stage, up) == [up EXCEPT !.stage = stage]
Complete(up) == up.stage \in {"finished", "ended"}

\* Chat: deltas in any order, a call named in its first entry, one finish_reason, usage
\* with it, after it, or in every chunk; then [DONE].  An upstream that is itself a node
\* which converts a stream sends [DONE] without a finish_reason when its own upstream
\* broke off ("cut").
ChatFrame(chunk) == [Frame("chunk") EXCEPT !.chunk = chunk]
ChatSteps(up) ==
  IF up.stage \in {"new", "live"} THEN LET live == To("live", up) IN
    {Step(ChatFrame([Chunk EXCEPT !.delta = {x}, !.usage = (x = "text")]), live) :
       x \in {"role", "think", "text", "media"}}
    \cup {Step(ChatFrame([Chunk EXCEPT !.calls = <<Call(c - 1, c, <<>>)>>]), Announces(live)) :
            c \in Fresh(up)}
    \cup {Step(ChatFrame([Chunk EXCEPT !.calls = <<Call(c - 1, c, Part(up, c))>>]),
               Announces(Sends(live, c))) : c \in Unsent(up, Fresh(up))}
    \cup {Step(ChatFrame([Chunk EXCEPT !.calls = <<Call(c - 1, 0, Part(up, c))>>]),
               Sends(live, c)) : c \in Unsent(up, Announced(up))}
    \cup {Step(ChatFrame([WithFinish(Reason(up), u) EXCEPT !.delta = x]),
               [To("finished", up) EXCEPT !.usage = u]) :
            u \in BOOLEAN, x \in {{}, {"text"}}}
    \cup {Step(Frame("done"), To("cut", up))}
  ELSE IF up.stage = "finished" THEN
    {Step(Frame("done"), To("ended", up))}
    \cup IF up.usage THEN {}
         ELSE {Step(ChatFrame(UsageOnly), [up EXCEPT !.usage = TRUE])}
  ELSE {}

\* Claude: blocks one after another, each with its index; a message_stop without a
\* stop_reason before it only after text.
ClaudeSteps(up) ==
  CASE up.stage = "new" -> {Step(Frame("message_start"), To("live", up))}
    [] up.stage = "live" /\ up.open = Closed ->
         {Step([Frame("start") EXCEPT !.index = up.blocks, !.kind = k],
               [up EXCEPT !.open = k, !.blocks = @ + 1,
                          !.calls = IF k > 0 THEN k ELSE @]) :
            k \in {Text, Thinking} \cup Fresh(up)}
         \cup {Step([Frame("message_delta") EXCEPT !.reason = Reason(up), !.usage = u],
                    To("finished", up)) : u \in BOOLEAN}
         \cup {Step(Frame("error"), To("broken", up))}
         \cup IF up.calls = 0 THEN {Step(Frame("message_stop"), To("ended", up))} ELSE {}
    [] up.stage = "live" /\ up.open # Closed ->
         {Step(Frame("stop"), [up EXCEPT !.open = Closed])}
         \cup {Step([Frame("delta") EXCEPT !.index = up.blocks - 1, !.kind = up.open,
                                           !.args = Part(up, c)], Sends(up, c)) :
                 c \in Unsent(up, {up.open} \cap Calls)}
         \cup IF up.open > 0 THEN {}
              ELSE {Step([Frame("delta") EXCEPT !.index = up.blocks - 1, !.kind = up.open], up)}
    [] up.stage = "finished" -> {Step(Frame("message_stop"), To("ended", up))}
    [] OTHER -> {}

\* Responses: a call's arguments may come before the call; with no way to refer to a
\* call there is one at most, and then they do not.
Refer(up, c, e) ==
  [e EXCEPT !.index = IF up.style \in {"both", "index"} THEN c ELSE NoIndex,
            !.item = IF up.style \in {"both", "item"} THEN c ELSE 0]
ResponsesSteps(up, early) ==
  CASE up.stage = "new" -> {Step(Frame("created"), To("live", up))}
    [] up.stage = "live" ->
         {Step([Frame("delta") EXCEPT !.kind = k], up) : k \in {Text, Thinking}}
         \cup {Step(Refer(up, c, [Frame("start") EXCEPT !.kind = c]), Announces(up)) :
                 c \in IF up.style = "call" /\ up.calls > 0 THEN {} ELSE Fresh(up)}
         \cup {Step(Refer(up, c, [Frame("delta") EXCEPT !.args = Part(up, c)]), Sends(up, c)) :
                 c \in Unsent(up, Announced(up) \cup
                                  IF early /\ up.style # "call" THEN Fresh(up) ELSE {})}
         \cup {Step(Frame("failed"), To("broken", up))}
         \cup IF \E c \in Calls \ Announced(up) : up.parts[c] > 0 THEN {}
              ELSE {Step([Frame("completed") EXCEPT !.usage = u, !.reason = r], To("ended", up)) :
                      u \in BOOLEAN, r \in {"none", "length"}}
    [] OTHER -> {}

\* Ollama: lines with text or with whole calls, the last one marked done.
OllamaSteps(up) ==
  IF up.stage \notin {"new", "live"} THEN {}
  ELSE {Step([Frame("line") EXCEPT !.delta = {x}], To("live", up)) : x \in {"text", "think"}}
       \cup {Step([Frame("line") EXCEPT !.calls = <<[id |-> c, args |-> <<1>>]>>],
                  Announces(Sends(To("live", up), c))) : c \in Fresh(up)}
       \cup {Step([Frame("line") EXCEPT !.reason = "stop", !.usage = u], To("ended", up)) :
               u \in BOOLEAN}
       \cup {Step([Frame("line") EXCEPT !.calls = <<[id |-> c, args |-> <<1>>]>>,
                                        !.reason = "stop"],
                  To("ended", Announces(Sends(up, c)))) : c \in Fresh(up)}
       \cup {Step(Frame("error"), To("broken", up))}

UpstreamSteps(pair, up) ==
  {Step(Frame("bad"), up)} \cup
  CASE pair.from = "chat" -> ChatSteps(up)
    [] pair.from = "claude" -> ClaudeSteps(up)
    [] pair.from = "responses" -> ResponsesSteps(up, pair.to # "object")
    [] pair.from = "ollama" -> OllamaSteps(up)

------------------------------------------------------------------------------
(* The client: what it knows of the blocks or items, which are open, the      *)
(* arguments of the calls, why the stream ended and whether it did, for Chat  *)
(* that [DONE] came; broken once it was sent what its protocol does not       *)
(* allow.                                                                     *)

NewView ==
  [begun |-> FALSE, at |-> <<>>, open |-> {}, args |-> [c \in Calls |-> <<>>],
   reason |-> "none", over |-> FALSE, done |-> FALSE, broken |-> FALSE]

Broken(v) == [v EXCEPT !.broken = TRUE]
Known(v) == {v.at[i] : i \in DOMAIN v.at} \cap Calls

\* Claude and Responses.
Allowed(v, e) ==
  CASE e.type \in {"message_start", "created"} -> ~ v.begun
    [] e.type = "start" -> /\ v.begun /\ v.reason = "none" /\ ~ v.over
                           /\ e.index \notin DOMAIN v.at
                           /\ e.kind \notin Known(v)
    [] e.type = "delta" -> /\ e.index \in v.open
                           /\ IF e.args = <<>> THEN v.at[e.index] = e.kind
                              ELSE v.at[e.index] \in Calls
    [] e.type = "stop" -> e.index \in v.open
    [] e.type = "message_delta" -> v.begun /\ v.open = {} /\ v.reason = "none"
    [] e.type = "message_stop" -> v.reason # "none" /\ ~ v.over
    [] e.type = "completed" -> v.begun /\ v.open = {} /\ ~ v.over

Seen(v, e) ==
  CASE e.type \in {"message_start", "created"} -> [v EXCEPT !.begun = TRUE]
    [] e.type = "start" ->
         [v EXCEPT !.at = Put(@, e.index, e.kind), !.open = @ \cup {e.index}]
    [] e.type = "delta" ->
         IF e.args = <<>> THEN v ELSE [v EXCEPT !.args[v.at[e.index]] = @ \o e.args]
    [] e.type = "stop" ->
         IF e.args \in {<<>>, v.args[IF e.kind > 0 THEN e.kind ELSE 1]}
         THEN [v EXCEPT !.open = @ \ {e.index}] ELSE Broken(v)
    [] e.type = "message_delta" -> [v EXCEPT !.reason = e.args[1]]
    [] e.type \in {"message_stop", "completed"} -> [v EXCEPT !.over = TRUE]

\* Chat: an entry of tool_calls names its call or continues one; nothing but usage
\* comes after the finish_reason, and nothing after [DONE].
ChatCall(v, tc) ==
  LET call == At(v.at, tc.index, tc.id)
  IN  IF call \notin Calls \/ tc.id \notin {0, call} \/
         (tc.index \notin DOMAIN v.at /\ call \in Known(v))
      THEN Broken(v)
      ELSE [v EXCEPT !.at = Put(@, tc.index, call), !.args[call] = @ \o tc.args]
SeesChunk(v, chunk) ==
  IF v.done THEN Broken(v)
  ELSE IF chunk = DoneMark THEN [v EXCEPT !.done = TRUE]
  ELSE IF ~ chunk.choice THEN v
  ELSE IF v.over THEN Broken(v)
  ELSE [FoldLeft(ChatCall, v, chunk.calls) EXCEPT
          !.reason = chunk.finish, !.over = (chunk.finish # "none")]

SeesItem(v, e) ==
  IF e.type = "completed" THEN [v EXCEPT !.over = TRUE]
  ELSE [v EXCEPT !.at = Put(@, e.kind, e.kind), !.args[e.kind] = e.args]

Sees(pair, view, out) ==
  FoldLeft(LAMBDA v, e :
             CASE pair.to = "chat" -> SeesChunk(v, e)
               [] pair.to = "object" -> SeesItem(v, e)
               [] OTHER -> IF Allowed(v, e) THEN Seen(v, e) ELSE Broken(v),
           view, out)
=============================================================================
