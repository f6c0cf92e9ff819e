--------------------------- MODULE StreamDelivery ----------------------------
(***************************************************************************)
(* A stream on its whole way to the client: the body StreamProbe hands on, *)
(* read by the writer that converts it (StreamCodec) between an upstream   *)
(* and a client (StreamPeers).  What an event says is chosen when it is    *)
(* read.  With pair = NoPair the body has a plain reader and the probe is  *)
(* examined in full; with a pair the behaviour begins where the probe has  *)
(* released a stream after its first event, which it may at any time.      *)
(***************************************************************************)
EXTENDS StreamProbe, StreamPeers

CONSTANTS Pairs,        \* formats of upstream and client
          ProbedItems   \* bound of the model: items of a stream that is probed

NoPair == [from |-> "none", to |-> "none"]

VARIABLES pair, up, w, view

writerVars == <<pair, up, w, view>>
allVars == <<vars, writerVars>>

InitProbed ==
  /\ Init
  /\ pair = NoPair /\ up = NewUpstream("both") /\ w = NewWriter(NoPair) /\ view = NewView

\* A state of StreamProbe: the probe's timer ran after the first event.
InitReleased ==
  /\ pair \in Pairs
  /\ up \in {NewUpstream(style) : style \in
               CASE pair.from # "responses" -> {"both"}
                 [] pair.to = "object" -> {"both", "item"}
                 [] OTHER -> Styles}
  /\ w = NewWriter(pair) /\ view = NewView
  /\ sent = <<"event">> /\ seen = <<"event">> /\ prefix = <<"event">> /\ rest = <<"event">>
  /\ ending = "none" /\ bodyOpen = TRUE /\ released = TRUE /\ aborted = FALSE
  /\ events = <<>> /\ eventsOpen = TRUE /\ done = "empty"
  /\ stop = TRUE /\ limitCh = FALSE /\ signaled = FALSE
  /\ pump = "read" /\ pipeOpen = TRUE
  /\ timer = "probe" /\ after = "timer" /\ prober = "over" /\ verdict = "success"
  /\ got = <<>> /\ reader = "reading"

\* The writer converts what it reads, and the client sees what it writes.
Writes(new) ==
  /\ w' = new
  /\ view' = IF Same(pair) THEN view ELSE Sees(pair, view, new.m.out)
  /\ UNCHANGED pair

ReadsOn == pair = NoPair \/ w.st = "reading"

ReadFrame ==
  /\ ReadsOn
  /\ ReadPrefix \/ ReadPipe
  /\ \/ pair = NoPair /\ UNCHANGED writerVars
     \/ /\ pair # NoPair
        /\ \E s \in UpstreamSteps(pair, up) : up' = s.up /\ Writes(WriteFrame(pair, w, s.e))

ReadEndOfBody ==
  /\ ReadsOn
  /\ ReadEnd
  /\ UNCHANGED <<up>>
  /\ CASE pair = NoPair -> UNCHANGED <<pair, w, view>>
       [] pair # NoPair /\ ending = "eof" -> Writes(WriteEnd(pair, w))
       [] pair # NoPair /\ ending = "err" -> Writes(WriteFails(w))

\* The upstream, the pump, the prober and the closing of the body go on meanwhile.
Meanwhile ==
  /\ \/ \E item \in IF pair = NoPair THEN Items ELSE {"event"} :
          /\ pair = NoPair => Len(sent) < ProbedItems
          /\ PumpReads(item)
     \/ PumpEnds \/ PumpSteps \/ Prober \/ Close
  /\ UNCHANGED writerVars

DeliveryNext == ReadFrame \/ ReadEndOfBody \/ Meanwhile

Delivery ==
  /\ InitProbed \/ InitReleased
  /\ [][DeliveryNext]_allVars
  /\ WF_allVars(PumpSteps /\ UNCHANGED writerVars)
  /\ WF_allVars(Prober /\ UNCHANGED writerVars)
  /\ WF_allVars(Close /\ UNCHANGED writerVars)

------------------------------------------------------------------------------
\* Converting reached its end in good order.
WholeStreamRead == w.st = "done" /\ Complete(up)

\* Each client gets a stream of its own protocol: blocks and items are opened once
\* under an index of their own, written to while open, closed once and before the
\* end, of which there is one.
StreamAccepted == ~ view.broken

\* Arguments reach the call they belong to, in the order the upstream sent them,
\* however it refers to the call and even if they come before it; a client that was
\* given the whole stream has all of every call, is told that it ended and, where its
\* protocol says so, that it ended to have calls made.
CallsDelivered ==
  /\ \A c \in Calls : view.args[c] = SubSeq([k \in 1 .. up.parts[c] |-> k], 1, Len(view.args[c]))
  /\ pair # NoPair /\ WholeStreamRead /\ ~ Same(pair) =>
       /\ view.over
       /\ pair.to = "chat" => view.done
       /\ Known(view) = Announced(up)
       /\ \A c \in Calls : Len(view.args[c]) = up.parts[c]
       /\ view.reason \in {"none", "length", Reason(up)}

\* What the client gets of a stream: all of it, in its own protocol, call by call.
ClientStreamSound == StreamIntact /\ StreamAccepted /\ CallsDelivered

\* A client can tell that its upstream broke off, or failed, by what does not come: no
\* chat client gets a finish_reason and no Responses client a response.completed that
\* the upstream did not send, and a writer that passes events through reports it
\* (stream_errors.go).  By [DONE] a chat client cannot tell: the converting writers
\* send it at the end of any body that ended in order (DoneMeansComplete), and one that
\* passes it through takes it for an end.  A Claude message whose upstream so ended is
\* itself ended as documented at Flush; an aggregated object always says completed.
TruncationShows ==
  /\ view.over /\ pair.to # "object" =>
       Complete(up) \/ (pair.to = "claude" /\ w.st = "done" /\ up.stage \in {"live", "cut"})
  /\ pair # NoPair /\ Same(pair) =>
       /\ w.st = "truncated" => ~ w.terminal /\ up.stage \notin {"ended", "broken", "cut"}
       /\ w.st = "done" => up.stage \in {"finished", "ended", "broken", "cut"}

\* Does not hold: [DONE] is written although the stream was broken off
\* (response_anthropic_to_openai.go:243, response_response_to_chat.go:357,
\* stream_map_ollama_to_chat.go:208).
DoneMeansComplete == view.done => Complete(up)
=============================================================================
