----------------------------- MODULE StreamProbe -----------------------------
(***************************************************************************)
(* The probe of an event stream (scheduler/stream_probe.go): before a      *)
(* stream counts as a success its first events are examined, while a pump  *)
(* goroutine keeps reading the upstream body.  The pump collects what it   *)
(* reads in a prefix until the prober releases the stream, and writes to a *)
(* pipe from then on; the client reads the prefix, then the pipe.          *)
(*                                                                         *)
(* The upstream sends items: a complete event, one that marks a soft       *)
(* failure, or noise (comments, event names) that is no event.  Sizes are  *)
(* counted in items: PrefixLimit stands for 32 KiB, EventCap for the 16    *)
(* slots of the events channel.                                            *)
(*                                                                         *)
(* Prober: select, await and drainAwait (blocked on done), drain, release, *)
(* over.                                                                   *)
(* Pump: read, offer, limit, write, closing, over.                         *)
(***************************************************************************)
EXTENDS Naturals, Sequences, SequencesExt

CONSTANTS MaxItems,     \* bound of the model: items the upstream sends at most
          PrefixLimit, EventCap

ASSUME ProbeAssumption ==
  /\ MaxItems \in Nat
  /\ PrefixLimit \in Nat \ {0}
  /\ EventCap \in Nat \ {0}

VARIABLES
  sent,       \* items the pump has read, in order
  ending,     \* what the pump ended on: "none", "eof", "err"
  bodyOpen,   \* the upstream body is not closed
  prefix, released, aborted,   \* streamProbeState
  events,     \* the channel of events
  eventsOpen,
  done,       \* the channel of the pump's result: "empty", "full" or "taken"
  stop,       \* stopClassification is closed
  limitCh,    \* prefixLimitReached holds a token
  signaled,   \* prefixLimitSignaled
  pump,       \* control of the pump
  pipeOpen,   \* the reader's end of the pipe is not closed
  seen,       \* the events the prober has examined: len(sseEvents)
  timer,      \* the timer that runs: "prefill", or "probe" once an event was seen
  after,      \* what the drain was entered for: "limit", "timer"
  prober,     \* control of the prober
  verdict,    \* what probeStreamPrefix returned
  rest,       \* the part of the prefix the client has not read
  got,        \* items the client has read
  reader      \* "off", "reading", "eof", "err", "closed"

pumpVars == <<sent, ending, signaled, pump>>
proberVars == <<seen, timer, after, prober, verdict>>
clientVars == <<rest, got, reader>>
stateVars == <<prefix, released, aborted>>
chanVars == <<events, eventsOpen, done, stop, limitCh>>
vars == <<pumpVars, proberVars, clientVars, stateVars, chanVars, bodyOpen, pipeOpen>>

Items == {"event", "soft", "noise"}

Init ==
  /\ sent = <<>> /\ ending = "none" /\ bodyOpen = TRUE
  /\ prefix = <<>> /\ released = FALSE /\ aborted = FALSE
  /\ events = <<>> /\ eventsOpen = TRUE /\ done = "empty"
  /\ stop = FALSE /\ limitCh = FALSE /\ signaled = FALSE
  /\ pump = "read" /\ pipeOpen = TRUE
  /\ seen = <<>> /\ timer = "prefill" /\ after = "limit"
  /\ prober = "select" /\ verdict = "none"
  /\ rest = <<>> /\ got = <<>> /\ reader = "off"

------------------------------------------------------------------------------
(* pumpProbeStream *)

\* An item is read and captured, under the lock of streamProbeState: it goes to
\* the pipe if the prefix was released, to the prefix and the prober otherwise.
PumpReads(item) ==
  /\ pump = "read" /\ bodyOpen
  /\ Len(sent) < MaxItems
  /\ sent' = Append(sent, item)
  /\ \/ aborted /\ pump' = "closing" /\ ending' = "eof" /\ UNCHANGED prefix
     \/ ~ aborted /\ released /\ pump' = "write" /\ UNCHANGED <<prefix, ending>>
     \/ /\ ~ aborted /\ ~ released
        /\ prefix' = Append(prefix, item)
        /\ pump' = IF item = "noise" THEN "limit" ELSE "offer"
        /\ UNCHANGED ending
  /\ UNCHANGED <<signaled, proberVars, clientVars, released, aborted, chanVars,
                 bodyOpen, pipeOpen>>

\* The body ends, fails, or was closed.
PumpEnds ==
  /\ pump = "read"
  /\ ending' \in IF bodyOpen THEN {"eof", "err"} ELSE {"err"}
  /\ pump' = "closing"
  /\ UNCHANGED <<sent, signaled, proberVars, clientVars, stateVars, chanVars,
                 bodyOpen, pipeOpen>>

PumpOffersUnbounded ==               \* mutant: the channel has no limit
  /\ pump = "offer"
  /\ events' = Append(events, Last(sent))
  /\ pump' = "limit"
  /\ UNCHANGED <<sent, ending, signaled, proberVars, clientVars, stateVars,
                 eventsOpen, done, stop, limitCh, bodyOpen, pipeOpen>>

\* The event is offered until there is room, or nobody classifies any more.
PumpOffers ==
  /\ pump = "offer"
  /\ \/ Len(events) < EventCap /\ events' = Append(events, Last(sent))
     \/ stop /\ UNCHANGED events
  /\ pump' = "limit"
  /\ UNCHANGED <<sent, ending, signaled, proberVars, clientVars, stateVars,
                 eventsOpen, done, stop, limitCh, bodyOpen, pipeOpen>>

\* Once, the prober is told that the prefix reached its limit.
PumpSignals ==
  /\ pump = "limit"
  /\ pump' = "read"
  /\ signaled' = (signaled \/ Len(prefix) >= PrefixLimit)
  /\ limitCh' = (limitCh \/ (~ signaled /\ signaled'))
  /\ UNCHANGED <<sent, ending, proberVars, clientVars, stateVars, events,
                 eventsOpen, done, stop, bodyOpen, pipeOpen>>

\* A write to the pipe fails once its reader is closed.
PumpWriteFails ==
  /\ pump = "write" /\ ~ pipeOpen
  /\ pump' = "closing" /\ ending' = "eof"
  /\ UNCHANGED <<sent, signaled, proberVars, clientVars, stateVars, chanVars,
                 bodyOpen, pipeOpen>>

\* The pipe is closed, then the deferred closes of the body and of events run.
PumpCloses ==
  /\ pump = "closing"
  /\ pump' = "over"
  /\ bodyOpen' = FALSE
  /\ eventsOpen' = FALSE
  /\ UNCHANGED <<sent, ending, signaled, proberVars, clientVars, stateVars,
                 events, done, stop, limitCh, pipeOpen>>

\* The goroutine around the pump hands its result over.
PumpDone ==
  /\ pump = "over" /\ done = "empty"
  /\ done' = "full"
  /\ UNCHANGED <<pumpVars, proberVars, clientVars, stateVars, events, eventsOpen,
                 stop, limitCh, bodyOpen, pipeOpen>>

------------------------------------------------------------------------------
(* probeStreamPrefix *)

FailsHalfway(v) ==                   \* mutant: the upstream body is left open
  /\ prober' = "over" /\ verdict' = v
  /\ pipeOpen' = FALSE
  /\ UNCHANGED <<bodyOpen, stop, released, rest, reader>>

\* The probe fails: body and pipe are closed.
Fails(v) ==
  /\ prober' = "over" /\ verdict' = v
  /\ bodyOpen' = FALSE
  /\ pipeOpen' = FALSE
  /\ UNCHANGED <<stop, released, rest, reader>>

\* The verdict is that the stream is handed on.
Decides(v) ==
  /\ prober' = "release" /\ verdict' = v
  /\ UNCHANGED <<stop, released, rest, reader, bodyOpen, pipeOpen>>

StaysOn(pc) ==
  /\ prober' = pc
  /\ UNCHANGED <<verdict, stop, released, rest, reader, bodyOpen, pipeOpen>>

ProberFrame == UNCHANGED <<pumpVars, prefix, aborted, got, eventsOpen>>

ReceiveEvent ==
  /\ prober = "select" /\ events # <<>>
  /\ events' = Tail(events)
  /\ seen' = Append(seen, Head(events))
  /\ timer' = "probe"
  /\ IF Head(events) = "soft" THEN Decides("soft") ELSE StaysOn("select")
  /\ UNCHANGED <<done, limitCh, after>> /\ ProberFrame

EventsClosed ==
  /\ prober = "select" /\ events = <<>> /\ ~ eventsOpen
  /\ StaysOn("await")
  /\ UNCHANGED <<events, done, limitCh, seen, timer, after>> /\ ProberFrame

\* err := <-done, in the loop.
AwaitDone ==
  /\ prober = "await" /\ done = "full"
  /\ done' = "taken"
  /\ IF ending = "err" THEN Fails("err") ELSE Decides("success")
  /\ UNCHANGED <<events, limitCh, seen, timer, after>> /\ ProberFrame

LimitReached ==
  /\ prober = "select" /\ limitCh
  /\ limitCh' = FALSE
  /\ after' = "limit"
  /\ StaysOn("drain")
  /\ UNCHANGED <<events, done, seen, timer>> /\ ProberFrame

\* The timer that runs fires: without an event the stream timed out.
TimerFires ==
  /\ prober = "select"
  /\ IF timer = "prefill" /\ seen = <<>>
       THEN Fails("prefillTimeout") /\ UNCHANGED after
       ELSE after' = "timer" /\ StaysOn("drain")
  /\ UNCHANGED <<events, done, limitCh, seen, timer>> /\ ProberFrame

\* What follows a drain: the stream is released, or (after the prefix limit,
\* without an event) the loop goes on.
Concludes ==
  IF after = "limit" /\ seen' = <<>>
    THEN StaysOn("select")
    ELSE Decides(IF seen' # <<>> /\ Last(seen') = "soft" THEN "soft" ELSE "success")

\* drainReadyEvents: the events in the channel, up to a soft one.
DrainEvent ==
  /\ prober = "drain" /\ events # <<>>
  /\ events' = Tail(events)
  /\ seen' = Append(seen, Head(events))
  /\ IF Head(events) = "soft" THEN Concludes ELSE StaysOn("drain")
  /\ UNCHANGED <<done, limitCh, timer, after>> /\ ProberFrame

DrainEmpty ==
  /\ prober = "drain" /\ events = <<>>
  /\ UNCHANGED seen
  /\ IF eventsOpen THEN Concludes ELSE StaysOn("drainAwait")
  /\ UNCHANGED <<events, done, limitCh, timer, after>> /\ ProberFrame

\* err := <-done, in drainReadyEvents.
DrainDone ==
  /\ prober = "drainAwait" /\ done = "full"
  /\ done' = "taken"
  /\ UNCHANGED seen
  /\ IF ending = "err" THEN Fails("err") ELSE Concludes
  /\ UNCHANGED <<events, limitCh, timer, after>> /\ ProberFrame

ReleaseFrame == ProberFrame /\ UNCHANGED <<events, done, limitCh, seen, timer, after,
                                           verdict, bodyOpen, pipeOpen>>

ReleaseOpenPrefix ==                 \* mutant: released is not set with the copy
  /\ prober = "release" /\ prober' = "over"
  /\ stop' = TRUE
  /\ rest' = prefix
  /\ reader' = "reading"
  /\ UNCHANGED released /\ ReleaseFrame

ReleaseWithoutStop ==                \* mutant: the classification is not stopped
  /\ prober = "release" /\ prober' = "over"
  /\ released' = TRUE
  /\ rest' = prefix
  /\ reader' = "reading"
  /\ UNCHANGED stop /\ ReleaseFrame

\* release, then return: the client gets the prefix, and the pipe after it.  The
\* pump may have read and offered more since the verdict.
Release ==
  /\ prober = "release" /\ prober' = "over"
  /\ stop' = TRUE
  /\ released' = TRUE
  /\ rest' = prefix
  /\ reader' = "reading"
  /\ ReleaseFrame

Prober ==
  ReceiveEvent \/ EventsClosed \/ AwaitDone \/ LimitReached \/ TimerFires
    \/ DrainEvent \/ DrainEmpty \/ DrainDone \/ Release

------------------------------------------------------------------------------
(* The client of the stream: prefixedReadCloser. *)

ReadPrefix ==
  /\ reader = "reading" /\ rest # <<>>
  /\ got' = Append(got, Head(rest))
  /\ rest' = Tail(rest)
  /\ UNCHANGED <<pumpVars, proberVars, reader, stateVars, chanVars, bodyOpen, pipeOpen>>

\* io.Pipe hands an item over when writer and reader meet.
ReadPipe ==
  /\ reader = "reading" /\ rest = <<>>
  /\ pump = "write" /\ pipeOpen
  /\ got' = Append(got, Last(sent))
  /\ pump' = "read"
  /\ UNCHANGED <<sent, ending, signaled, proberVars, rest, reader, stateVars,
                 chanVars, bodyOpen, pipeOpen>>

ReadEnd ==
  /\ reader = "reading" /\ rest = <<>>
  /\ pump = "over"
  /\ reader' = ending
  /\ UNCHANGED <<pumpVars, proberVars, rest, got, stateVars, chanVars, bodyOpen, pipeOpen>>

\* Close, at any time: the result was given up, the client left, the stream idled.
Close ==
  /\ reader \in {"reading", "eof", "err"}
  /\ reader' = "closed"
  /\ aborted' = TRUE
  /\ pipeOpen' = FALSE
  /\ bodyOpen' = FALSE
  /\ UNCHANGED <<pumpVars, proberVars, rest, got, prefix, released, chanVars>>

PumpSteps ==
  PumpOffers \/ PumpSignals \/ PumpWriteFails \/ PumpCloses \/ PumpDone
    \/ (~ bodyOpen /\ PumpEnds)

Next ==
  \/ \E item \in Items : PumpReads(item)
  \/ PumpEnds \/ PumpSteps \/ Prober
  \/ ReadPrefix \/ ReadPipe \/ ReadEnd \/ Close

\* Goroutines run, timers fire, a response body is closed in the end; the
\* upstream may stall for ever.
Spec ==
  /\ Init /\ [][Next]_vars
  /\ WF_vars(PumpSteps) /\ WF_vars(Prober) /\ WF_vars(Close)

------------------------------------------------------------------------------
TypeOK ==
  /\ sent \in Seq(Items) /\ Len(sent) <= MaxItems
  /\ ending \in {"none", "eof", "err"}
  /\ prefix \in Seq(Items) /\ rest \in Seq(Items) /\ got \in Seq(Items)
  /\ events \in Seq(Items) /\ Len(events) <= EventCap
  /\ done \in {"empty", "full", "taken"}
  /\ {bodyOpen, released, aborted, eventsOpen, stop, limitCh, signaled, pipeOpen}
       \subseteq BOOLEAN
  /\ pump \in {"read", "offer", "limit", "write", "closing", "over"}
  /\ prober \in {"select", "await", "drain", "drainAwait", "release", "over"}
  /\ verdict \in {"none", "success", "soft", "err", "prefillTimeout"}
  /\ reader \in {"off", "reading", "eof", "err", "closed"}

\* The client reads what the upstream sent, in order, nothing lost or doubled
\* where the prefix ends and the pipe begins, wherever the release falls between
\* the pump's steps; and it sees the end of the stream only after all of it.
StreamIntact ==
  /\ IsPrefix(got, sent)
  /\ reader = "eof" => got = sent

\* A probe that fails leaves no upstream connection behind.
FailureClosesUpstream ==
  verdict \in {"err", "prefillTimeout"} => ~ bodyOpen

\* A probe comes to a verdict: with no event by the prefill timeout it says so
\* (stream_probe.go:188, "if no SSE event was received within the prefill
\* timeout, return ErrPrefillTimeout").
ProbeReturns == <>(verdict # "none")

\* The pump of a stream that was handed out comes to its end when the body is
\* closed, whatever it was doing.
PumpNotLeaked == (reader = "closed") ~> (pump = "over")

\* The upstream connection is given back whichever way the stream goes: a probe that
\* fails closes it at once, and a body that is closed ends the pump that holds it.
UpstreamReleased == [](TypeOK /\ FailureClosesUpstream) /\ PumpNotLeaked
==============================================================================
