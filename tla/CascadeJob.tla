----------------------------- MODULE CascadeJob -----------------------------
(***************************************************************************)
(* Jobs on one cascade session, at the hub (cascade/job.go, session.go,    *)
(* the read loop of hub.go).  A job is registered in the session's map,    *)
(* sent to the spoke as a frame, and answered by result frames that the    *)
(* session's single read loop hands to the job's waiter; the chunks of a   *)
(* stream go through an io.Pipe, whose writer blocks until the client has  *)
(* read.  Meanwhile the job's context may end (context.AfterFunc runs in a *)
(* goroutine of its own), the client may close the body, and the session   *)
(* may be closed (replaced by a reconnect, hub closed, connection lost).   *)
(*                                                                         *)
(* The connection delivers the frames of one job in order.  The order      *)
(* between jobs is the spoke's goroutines': any.                           *)
(*                                                                         *)
(* ExecuteJob: idle -> begun -> send -> first (stream) | wait -> over, or  *)
(* stream -> cancel -> fail -> close -> over for a response body.          *)
(***************************************************************************)
EXTENDS Naturals, Sequences

CONSTANTS Jobs,        \* job ids (fresh UUIDs)
          Streams,     \* those whose request asks for a stream
          MaxChunks    \* bound of the model: chunks the spoke sends for a job

ASSUME JobAssumption == Streams \subseteq Jobs /\ MaxChunks \in Nat

VARIABLES
  pc,         \* [Jobs -> control of ExecuteJob, then of the response body]
  ctx,        \* [Jobs -> "live" or "gone"]: the attempt's context
  jobs,       \* Session.jobs
  fin,        \* [Jobs -> "no", "ok", "err"]: jobWaiter.done, err
  first,      \* jobs whose firstReady is closed
  bad,        \* jobs whose statusCode is an error status
  cancelFn,   \* [Jobs -> "off", "armed", "stopped", "fired", "sent", "over"]: AfterFunc
  got,        \* [Jobs -> chunks the client has read]
  ended,      \* [Jobs -> "no", "eof", "err"]: how the client's stream ended
  readerOpen, \* jobs whose pipe reader is not closed
  closed,     \* Session.closed
  closer,     \* closeWithReason: "off", "failing", "closing", "over"
  connOpen,   \* the websocket
  loop,       \* runSession: [pc, job, chunk]; pc is "read", "write", "final" or "over"
  sentJob, sentCancel,   \* frames the hub has sent
  spoke,      \* [Jobs -> "idle", "running", "cancelled", "over"]: the spoke's handler
  emitted,    \* [Jobs -> number of chunks it has sent]
  wire        \* [Jobs -> frames of the job on their way to the hub]

execVars == <<pc, ended, got>>
waiterVars == <<fin, first, bad>>
sessionVars == <<closed, closer, connOpen>>
spokeVars == <<spoke, emitted, wire>>
vars == <<execVars, ctx, jobs, waiterVars, cancelFn, readerOpen, sessionVars,
          loop, sentJob, sentCancel, spokeVars>>

Reading == [pc |-> "read", job |-> "none", chunk |-> 0]
Chunk(i) == [kind |-> "chunk", n |-> i]
Ends(kind) == [kind |-> kind, n |-> 0]     \* "final", "bad" (an error status), "error"
Frames == {Chunk(i) : i \in 1 .. MaxChunks} \cup {Ends(k) : k \in {"final", "bad", "error"}}

Init ==
  /\ pc = [j \in Jobs |-> "idle"]
  /\ ctx = [j \in Jobs |-> "live"]
  /\ jobs = {}
  /\ fin = [j \in Jobs |-> "no"]
  /\ first = {} /\ bad = {}
  /\ cancelFn = [j \in Jobs |-> "off"]
  /\ got = [j \in Jobs |-> <<>>]
  /\ ended = [j \in Jobs |-> "no"]
  /\ readerOpen = Streams
  /\ closed = FALSE /\ closer = "off" /\ connOpen = TRUE
  /\ loop = Reading
  /\ sentJob = {} /\ sentCancel = {}
  /\ spoke = [j \in Jobs |-> "idle"]
  /\ emitted = [j \in Jobs |-> 0]
  /\ wire = [j \in Jobs |-> <<>>]

Goes(j, to) == pc' = [pc EXCEPT ![j] = to]

FailAsEnd(S) ==                      \* mutant: the pipe is closed without the error
  fin' = [j \in Jobs |-> IF j \in S /\ fin[j] = "no" THEN "ok" ELSE fin[j]]

\* jobWaiter.fail for the jobs in S: the first to finish a waiter decides.
Fail(S) == fin' = [j \in Jobs |-> IF j \in S /\ fin[j] = "no" THEN "err" ELSE fin[j]]

EndNoJob(j) == UNCHANGED jobs        \* mutant: the entry stays in the map

EndJob(j) == jobs' = jobs \ {j}

\* The stop function of AfterFunc: only what has not started can be stopped.
StopCancel(j) ==
  cancelFn' = IF cancelFn[j] = "armed" THEN [cancelFn EXCEPT ![j] = "stopped"] ELSE cancelFn

MayWriteUntilClosed == connOpen      \* mutant: WriteFrame does not look at closed

\* WriteFrame refuses a closed session.
MayWrite == ~ closed

------------------------------------------------------------------------------
(* ExecuteJob, and the body it returns *)

\* Hub.Session, then beginJob: the session may be closed by now.
BeginJob(j) ==
  /\ pc[j] = "idle"
  /\ jobs' = jobs \cup {j}
  /\ Goes(j, "begun")
  /\ UNCHANGED <<ended, got, ctx, waiterVars, cancelFn, readerOpen, sessionVars,
                 loop, sentJob, sentCancel, spokeVars>>

Arm(j) ==
  /\ pc[j] = "begun"
  /\ \/ ctx[j] = "gone" /\ EndJob(j) /\ Goes(j, "over") /\ UNCHANGED cancelFn
     \/ /\ ctx[j] = "live" /\ Goes(j, "send")
        /\ cancelFn' = [cancelFn EXCEPT ![j] = "armed"]
        /\ UNCHANGED jobs
  /\ UNCHANGED <<ended, got, ctx, waiterVars, readerOpen, sessionVars, loop,
                 sentJob, sentCancel, spokeVars>>

\* ExecuteJob returns without a body.
Returns(j) == Goes(j, "over") /\ StopCancel(j) /\ EndJob(j)

SendJob(j) ==
  /\ pc[j] = "send"
  /\ \/ /\ MayWrite /\ connOpen
        /\ sentJob' = sentJob \cup {j}
        /\ Goes(j, IF j \in Streams THEN "first" ELSE "wait")
        /\ UNCHANGED <<cancelFn, jobs>>
     \/ (~ MayWrite \/ ~ connOpen) /\ Returns(j) /\ UNCHANGED sentJob
  /\ UNCHANGED <<ended, got, ctx, waiterVars, readerOpen, sessionVars, loop,
                 sentCancel, spokeVars>>

\* waitFirst: the context, the first chunk or the waiter's end, whichever the
\* select takes.  An error status is waited for to the end.
WaitFirst(j) ==
  /\ pc[j] = "first"
  /\ \/ (ctx[j] = "gone" \/ fin[j] = "err") /\ Returns(j)
     \/ /\ j \in first \/ fin[j] = "ok"
        /\ Goes(j, IF j \in bad THEN "wait" ELSE "stream")
        /\ UNCHANGED <<cancelFn, jobs>>
  /\ UNCHANGED <<ended, got, ctx, waiterVars, readerOpen, sessionVars, loop,
                 sentJob, sentCancel, spokeVars>>

Wait(j) ==
  /\ pc[j] = "wait"
  /\ ctx[j] = "gone" \/ fin[j] # "no"
  /\ Returns(j)
  /\ UNCHANGED <<ended, got, ctx, waiterVars, readerOpen, sessionVars, loop,
                 sentJob, sentCancel, spokeVars>>

\* io.Pipe hands a chunk over when the read loop and the client meet in it.
ReadChunk(j) ==
  /\ pc[j] = "stream" /\ ended[j] = "no"
  /\ loop.pc = "write" /\ loop.job = j
  /\ fin[j] = "no"
  /\ got' = [got EXCEPT ![j] = Append(@, loop.chunk)]
  /\ loop' = Reading
  /\ UNCHANGED <<pc, ended, ctx, jobs, waiterVars, cancelFn, readerOpen,
                 sessionVars, sentJob, sentCancel, spokeVars>>

ReadEnd(j) ==
  /\ pc[j] = "stream" /\ ended[j] = "no"
  /\ fin[j] # "no"
  /\ ended' = [ended EXCEPT ![j] = IF fin[j] = "ok" THEN "eof" ELSE "err"]
  /\ UNCHANGED <<pc, got, ctx, jobs, waiterVars, cancelFn, readerOpen,
                 sessionVars, loop, sentJob, sentCancel, spokeVars>>

\* jobStreamBody.Close, at any time: an unfinished job is cancelled first.
Close(j) ==
  /\ pc[j] = "stream"
  /\ Goes(j, IF fin[j] = "no" THEN "cancel" ELSE "close")
  /\ UNCHANGED <<ended, got, ctx, jobs, waiterVars, cancelFn, readerOpen,
                 sessionVars, loop, sentJob, sentCancel, spokeVars>>

\* A cancel frame that overtakes its job's frame names a job the spoke does not
\* know and is ignored there, so it is not recorded.
SendCancel(j) ==
  sentCancel' = IF MayWrite /\ j \in sentJob THEN sentCancel \cup {j} ELSE sentCancel

CloseCancels(j) ==
  /\ pc[j] = "cancel"
  /\ SendCancel(j)
  /\ Goes(j, "fail")
  /\ UNCHANGED <<ended, got, ctx, jobs, waiterVars, cancelFn, readerOpen,
                 sessionVars, loop, sentJob, spokeVars>>

CloseFails(j) ==
  /\ pc[j] = "fail"
  /\ Fail({j} \cap jobs)
  /\ Goes(j, "close")
  /\ UNCHANGED <<ended, got, ctx, jobs, first, bad, cancelFn, readerOpen,
                 sessionVars, loop, sentJob, sentCancel, spokeVars>>

CloseEnds(j) ==
  /\ pc[j] = "close"
  /\ Returns(j)
  /\ readerOpen' = readerOpen \ {j}
  /\ UNCHANGED <<ended, got, ctx, waiterVars, sessionVars, loop, sentJob,
                 sentCancel, spokeVars>>

Execute(j) ==
  \/ Arm(j) \/ SendJob(j) \/ WaitFirst(j) \/ Wait(j)
  \/ ReadChunk(j) \/ ReadEnd(j) \/ Close(j)
  \/ CloseCancels(j) \/ CloseFails(j) \/ CloseEnds(j)

\* The client leaves, or the attempt's or the request's time is up.
ContextEnds(j) ==
  /\ pc[j] \notin {"idle", "over"}
  /\ ctx[j] = "live" /\ ctx' = [ctx EXCEPT ![j] = "gone"]
  /\ UNCHANGED <<execVars, jobs, waiterVars, cancelFn, readerOpen, sessionVars,
                 loop, sentJob, sentCancel, spokeVars>>

------------------------------------------------------------------------------
(* The goroutine of AfterFunc *)

CancelFires(j) ==
  /\ cancelFn[j] = "armed" /\ ctx[j] = "gone"
  /\ cancelFn' = [cancelFn EXCEPT ![j] = "fired"]
  /\ UNCHANGED <<execVars, ctx, jobs, waiterVars, readerOpen, sessionVars, loop,
                 sentJob, sentCancel, spokeVars>>

CancelSends(j) ==
  /\ cancelFn[j] = "fired"
  /\ IF fin[j] = "no"
       THEN SendCancel(j) /\ cancelFn' = [cancelFn EXCEPT ![j] = "sent"]
       ELSE UNCHANGED sentCancel /\ cancelFn' = [cancelFn EXCEPT ![j] = "over"]
  /\ UNCHANGED <<execVars, ctx, jobs, waiterVars, readerOpen, sessionVars, loop,
                 sentJob, spokeVars>>

\* cancelJob: the waiter fails if it is still in the map.
CancelFails(j) ==
  /\ cancelFn[j] = "sent"
  /\ Fail({j} \cap jobs)
  /\ cancelFn' = [cancelFn EXCEPT ![j] = "over"]
  /\ UNCHANGED <<execVars, ctx, jobs, first, bad, readerOpen, sessionVars, loop,
                 sentJob, sentCancel, spokeVars>>

CancelFn(j) == CancelFires(j) \/ CancelSends(j) \/ CancelFails(j)

------------------------------------------------------------------------------
(* runSession *)

LoopFrame == UNCHANGED <<execVars, ctx, jobs, cancelFn, readerOpen, sentJob,
                         sentCancel, spoke, emitted>>

\* A frame of a job that is unknown, or that failed, is dropped.
LoopReads(j) ==
  /\ loop.pc = "read" /\ ~ closed /\ connOpen
  /\ wire[j] # <<>>
  /\ wire' = [wire EXCEPT ![j] = Tail(@)]
  /\ LET f == Head(wire[j])
         known == j \in jobs /\ fin[j] # "err" IN
       /\ IF f.kind = "error" THEN Fail({j} \cap jobs) ELSE UNCHANGED fin
       /\ first' = IF known /\ f.kind # "error" THEN first \cup {j} ELSE first
       /\ bad' = IF known /\ f.kind = "bad" THEN bad \cup {j} ELSE bad
       /\ loop' = CASE known /\ f.kind \in {"final", "bad"} ->
                         [pc |-> "final", job |-> j, chunk |-> 0]
                    [] known /\ f.kind = "chunk" ->
                         [pc |-> "write", job |-> j, chunk |-> f.n]
                    [] OTHER -> Reading
  /\ LoopFrame /\ UNCHANGED sessionVars

\* The write to the pipe fails once either end is closed.
LoopDrops ==
  /\ loop.pc = "write"
  /\ fin[loop.job] # "no" \/ loop.job \notin readerOpen
  /\ loop' = Reading
  /\ LoopFrame /\ UNCHANGED <<waiterVars, wire, sessionVars>>

\* finishLocked(nil)
LoopFinishes ==
  /\ loop.pc = "final"
  /\ fin' = [fin EXCEPT ![loop.job] = IF @ = "no" THEN "ok" ELSE @]
  /\ loop' = Reading
  /\ LoopFrame /\ UNCHANGED <<first, bad, wire, sessionVars>>

\* The session was closed, or the read fails: closeWithReason, clearSession.
LoopEnds ==
  /\ loop.pc = "read"
  /\ closed \/ ~ connOpen
  /\ loop' = [Reading EXCEPT !.pc = "over"]
  /\ IF closed THEN UNCHANGED sessionVars
               ELSE closed' = TRUE /\ closer' = "failing" /\ UNCHANGED connOpen
  /\ LoopFrame /\ UNCHANGED <<waiterVars, wire>>

Loop == (\E j \in Jobs : LoopReads(j)) \/ LoopDrops \/ LoopFinishes \/ LoopEnds

------------------------------------------------------------------------------
(* closeWithReason, and the connection *)

SessionFrame == UNCHANGED <<execVars, ctx, first, bad, cancelFn, readerOpen,
                            loop, sentJob, sentCancel, spokeVars>>

\* Another connection registers, or the hub is closed.
CloseSession ==
  /\ ~ closed
  /\ closed' = TRUE /\ closer' = "failing"
  /\ SessionFrame /\ UNCHANGED <<jobs, fin, connOpen>>

FailAllJobs ==
  /\ closer = "failing"
  /\ Fail(jobs)
  /\ jobs' = {}
  /\ closer' = "closing"
  /\ SessionFrame /\ UNCHANGED <<closed, connOpen>>

CloseConn ==
  /\ closer = "closing"
  /\ connOpen' = FALSE
  /\ closer' = "over"
  /\ SessionFrame /\ UNCHANGED <<jobs, fin, closed>>

ConnLost ==
  /\ connOpen /\ connOpen' = FALSE
  /\ SessionFrame /\ UNCHANGED <<jobs, fin, closed, closer>>

Closer == FailAllJobs \/ CloseConn

------------------------------------------------------------------------------
(* The spoke (cascade/spoke_jobs.go, handler/cascade_job.go): one handler per *)
(* job, whose context a cancel frame ends.                                    *)

SpokeFrame == UNCHANGED <<execVars, ctx, jobs, waiterVars, cancelFn, readerOpen,
                          sessionVars, loop, sentJob, sentCancel>>

SpokeStarts(j) ==
  /\ spoke[j] = "idle" /\ j \in sentJob /\ connOpen
  /\ spoke' = [spoke EXCEPT ![j] = "running"]
  /\ SpokeFrame /\ UNCHANGED <<emitted, wire>>

SpokeCancelled(j) ==
  /\ spoke[j] = "running" /\ (j \in sentCancel \/ ~ connOpen)
  /\ spoke' = [spoke EXCEPT ![j] = "cancelled"]
  /\ SpokeFrame /\ UNCHANGED <<emitted, wire>>

SpokeSends(j) ==
  /\ spoke[j] = "running"
  /\ j \in Streams /\ emitted[j] < MaxChunks
  /\ emitted' = [emitted EXCEPT ![j] = @ + 1]
  /\ wire' = [wire EXCEPT ![j] = Append(@, Chunk(emitted[j] + 1))]
  /\ SpokeFrame /\ UNCHANGED spoke

\* A result that ends the job: an upstream error status comes in one frame.
SpokeEnds(j) ==
  /\ spoke[j] \in {"running", "cancelled"}
  /\ spoke' = [spoke EXCEPT ![j] = "over"]
  /\ \E k \in {"final", "bad", "error"} :
       /\ k = "bad" => emitted[j] = 0
       /\ wire' = [wire EXCEPT ![j] = Append(@, Ends(k))]
  /\ SpokeFrame /\ UNCHANGED emitted

Spoke(j) == SpokeStarts(j) \/ SpokeCancelled(j) \/ SpokeSends(j) \/ SpokeEnds(j)

------------------------------------------------------------------------------
Next ==
  \/ \E j \in Jobs : BeginJob(j) \/ Execute(j) \/ ContextEnds(j) \/ CancelFn(j) \/ Spoke(j)
  \/ Loop \/ CloseSession \/ Closer \/ ConnLost

\* Goroutines run; a response body is read to its end or closed in the end.  The
\* spoke may be silent, contexts may last, the session may stay.
Spec ==
  /\ Init /\ [][Next]_vars
  /\ WF_vars(Loop) /\ WF_vars(Closer)
  /\ \A j \in Jobs : WF_vars(Execute(j)) /\ WF_vars(CancelFn(j))

------------------------------------------------------------------------------
TypeOK ==
  /\ pc \in [Jobs -> {"idle", "begun", "send", "first", "wait", "stream",
                      "cancel", "fail", "close", "over"}]
  /\ ctx \in [Jobs -> {"live", "gone"}]
  /\ jobs \subseteq Jobs
  /\ fin \in [Jobs -> {"no", "ok", "err"}]
  /\ first \subseteq Jobs /\ bad \cup {j \in Jobs : fin[j] = "ok"} \subseteq first
  /\ cancelFn \in [Jobs -> {"off", "armed", "stopped", "fired", "sent", "over"}]
  /\ got \in [Jobs -> Seq(1 .. MaxChunks)]
  /\ ended \in [Jobs -> {"no", "eof", "err"}]
  /\ readerOpen \subseteq Jobs
  /\ closed \in BOOLEAN /\ connOpen \in BOOLEAN
  /\ closer \in {"off", "failing", "closing", "over"}
  /\ loop.pc \in {"read", "write", "final", "over"}
  /\ sentJob \subseteq Jobs /\ sentCancel \subseteq sentJob
  /\ spoke \in [Jobs -> {"idle", "running", "cancelled", "over"}]
  /\ emitted \in [Jobs -> 0 .. MaxChunks]
  /\ wire \in [Jobs -> Seq(Frames)]

\* The client of a stream reads the chunks in the order they were sent, none lost
\* in between; and a stream that seems complete is: a cancellation, a spoke's
\* error or the end of the session never looks like the regular end.
StreamIntact ==
  \A j \in Jobs :
    /\ got[j] = [i \in 1 .. Len(got[j]) |-> i]
    /\ ended[j] = "eof" => Len(got[j]) = emitted[j] /\ spoke[j] = "over"

\* A job that is over has left the session's map, whichever of the paths (refused
\* send, context, error, body closed, session closed) it took: frames that come
\* late find no waiter.
JobsForgotten == \A j \in jobs : pc[j] # "over"

\* A job is not left waiting on a session that is closed, however registration,
\* sending and closing interleave: once closeWithReason has failed the jobs it
\* found, none waits on for a waiter that nobody will end.
NoJobStranded ==
  closer \in {"closing", "over"} =>
    \A j \in Jobs : pc[j] \in {"first", "wait"} => fin[j] # "no"

\* A closed session's read loop comes to its end (hub.go:179, "Close tears down
\* the active spoke session").
TornDown == closed ~> (loop.pc = "over")

\* Job, waiter and map agree: what is over is forgotten, and nothing waits on what is
\* closed, in whatever order registration, answers, departure and closing come.
JobsSettled == TypeOK /\ JobsForgotten /\ NoJobStranded
=============================================================================
