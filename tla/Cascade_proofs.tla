--------------------------- MODULE Cascade_proofs ---------------------------
(***************************************************************************)
(* For any jobs, and any number of chunks: the client of a job reads what  *)
(* the spoke sent, in order and to the end, or is told that it did not;    *)
(* no job waits on a closed session, and what is over is forgotten.  And   *)
(* for any number of connections: what the hub knows of a spoke is never   *)
(* replaced by what is older, and a publisher sends and retries a bounded  *)
(* number of times.  The runs cascade_job and spoke_metadata check the     *)
(* same of small instances.                                                *)
(***************************************************************************)
EXTENDS CascadeJob, SpokeMetadata, SequenceTheorems, TLAPS

------------------------------------------------------------------------------
(* What is on the wire *)

\* The chunks of a job on the wire when its handler is at "at"; the frame that ends it comes behind them.
Left(w, at) == IF at = "over" /\ w # <<>> THEN Len(w) - 1 ELSE Len(w)

\* The last chunks of the n the spoke has sent, then the end of a job that is over,
\* unless it has been read.
Tailing(w, n, at) ==
  /\ Left(w, at) <= n
  /\ \A i \in 1 .. Left(w, at) : w[i] = Chunk(n - Left(w, at) + i)
  /\ at = "over" /\ w # <<>> => w[Len(w)].kind \in {"final", "bad", "error"}

Gone(j) == spoke[j] = "over"
InHand(j) == IF loop.pc = "write" /\ loop.job = j THEN 1 ELSE 0

WireInv == \A j \in Jobs : Tailing(wire[j], emitted[j], spoke[j])

\* Nothing comes from the spoke before the job's frame was sent to it, and no chunks
\* of a job that did not ask for a stream.
SentInv ==
  \A j \in Jobs :
    /\ pc[j] \in {"idle", "begun", "send"} => j \notin sentJob
    /\ j \notin sentJob => spoke[j] = "idle"
    /\ spoke[j] = "idle" => emitted[j] = 0 /\ wire[j] = <<>>
    /\ emitted[j] > 0 => j \in Streams

\* Every chunk that was sent is read, in the loop's hand, or on the wire, until the
\* job is over or its waiter has failed.  What the loop has in hand is the next.
CountInv ==
  \A j \in Jobs : pc[j] # "over" /\ fin[j] # "err" =>
    /\ Len(got[j]) + InHand(j) + Left(wire[j], spoke[j]) = emitted[j]
    /\ InHand(j) = 1 => loop.chunk = Len(got[j]) + 1

\* What the read loop is about to do to a waiter that has not ended well.
LoopInv ==
  loop.pc \in {"write", "final"} =>
    /\ loop.job \in Jobs /\ fin[loop.job] # "ok" /\ loop.job \in first
    /\ loop.pc = "write" => loop.job \in Streams
    /\ loop.pc = "final" => Gone(loop.job) /\ wire[loop.job] = <<>>

\* A waiter ends well when the last frame of the job has been read.
OkInv == \A j \in Jobs : fin[j] = "ok" => Gone(j) /\ wire[j] = <<>>

DataInv == StreamIntact /\ WireInv /\ SentInv /\ CountInv /\ LoopInv /\ OkInv

------------------------------------------------------------------------------
(* Jobs, waiters and the session *)

\* A job under way that is not in the map has failed: closeWithReason found it.
MapInv == \A j \in Jobs \ jobs : pc[j] \in {"idle", "over"} \/ fin[j] # "no"

ReaderInv == \A j \in Streams \ readerOpen : pc[j] = "over"

CloserInv == closed <=> closer # "off"

ControlInv == TypeOK /\ JobsForgotten /\ NoJobStranded /\ MapInv /\ ReaderInv /\ CloserInv

\* What the run checks, and what makes it inductive.
IInv == ControlInv /\ DataInv

------------------------------------------------------------------------------
(* Lemmas about the wire *)

LEMMA HeadChunk ==
  ASSUME NEW w \in Seq(Frames), NEW n \in Nat, NEW at,
         Tailing(w, n, at), w # <<>>, Head(w).kind = "chunk"
  PROVE  /\ Left(w, at) > 0 /\ Head(w).n = n - Left(w, at) + 1
         /\ Left(Tail(w), at) = Left(w, at) - 1
         /\ Tailing(Tail(w), n, at)
<1> DEFINE t == Tail(w)
<1>1. /\ Len(w) \in Nat \ {0} /\ Head(w) = w[1]
      /\ t \in Seq(Frames) /\ Len(t) = Len(w) - 1
      /\ \A i \in 1 .. Len(t) : t[i] = w[i + 1]
  OBVIOUS
<1>0. t # <<>> <=> Len(t) # 0
  BY <1>1, EmptySeq
<1>2. at = "over" => Len(w) > 1
  BY <1>1 DEF Tailing
<1>3. Left(w, at) \in Nat /\ Left(w, at) > 0
  BY <1>1, <1>2 DEF Left
<1>4. Left(t, at) = Left(w, at) - 1
  BY <1>0, <1>1, <1>2 DEF Left
<1>5. Head(w).n = n - Left(w, at) + 1
  <2>1. w[1] = Chunk(n - Left(w, at) + 1)
    BY <1>3 DEF Tailing
  <2> QED BY <1>1, <2>1 DEF Chunk
<1>6. \A i \in 1 .. Left(t, at) : t[i] = Chunk(n - Left(t, at) + i)
  <2> SUFFICES ASSUME NEW i \in 1 .. Left(t, at)
               PROVE  t[i] = Chunk(n - Left(t, at) + i)
    OBVIOUS
  <2>1. i \in 1 .. Len(t) /\ i + 1 \in 1 .. Left(w, at)
    BY <1>1, <1>3, <1>4 DEF Left
  <2>2. w[i + 1] = Chunk(n - Left(w, at) + (i + 1))
    BY <2>1 DEF Tailing
  <2>3. n - Left(w, at) + (i + 1) = n - Left(t, at) + i
    BY <1>3, <1>4
  <2> QED BY <1>1, <2>1, <2>2, <2>3
<1>7. at = "over" /\ t # <<>> => t[Len(t)].kind \in {"final", "bad", "error"}
  BY <1>0, <1>1, <1>2 DEF Tailing
<1>8. Left(t, at) <= n
  BY <1>3, <1>4 DEF Tailing
<1>9. Tailing(t, n, at)
  BY <1>6, <1>7, <1>8 DEF Tailing
<1> QED BY <1>3, <1>4, <1>5, <1>9

LEMMA HeadEnd ==
  ASSUME NEW w \in Seq(Frames), NEW n \in Nat, NEW at,
         Tailing(w, n, at), w # <<>>, Head(w).kind # "chunk"
  PROVE  /\ at = "over" /\ Tail(w) = <<>> /\ Left(w, at) = 0
         /\ Left(Tail(w), at) = 0
         /\ Tailing(Tail(w), n, at)
<1> DEFINE t == Tail(w)
<1>1. /\ Len(w) \in Nat \ {0} /\ Head(w) = w[1]
      /\ t \in Seq(Frames) /\ Len(t) = Len(w) - 1
  OBVIOUS
<1>0. t # <<>> <=> Len(t) # 0
  BY <1>1, EmptySeq
<1>2. Left(w, at) = 0
  <2>1. Left(w, at) \in Nat
    BY <1>1 DEF Left
  <2>2. Left(w, at) > 0 => w[1] = Chunk(n - Left(w, at) + 1)
    BY <2>1 DEF Tailing
  <2> QED BY <1>1, <2>1, <2>2 DEF Chunk
<1>3. at = "over" /\ t = <<>>
  BY <1>0, <1>1, <1>2 DEF Left
<1>4. Left(t, at) = 0
  BY <1>3, EmptySeq DEF Left
<1>5. Tailing(t, n, at)
  BY <1>3, <1>4 DEF Tailing
<1> QED BY <1>2, <1>3, <1>4, <1>5

LEMMA AppendChunk ==
  ASSUME NEW w \in Seq(Frames), NEW n \in Nat, NEW at, at # "over", Tailing(w, n, at)
  PROVE  /\ Left(Append(w, Chunk(n + 1)), at) = Left(w, at) + 1
         /\ Tailing(Append(w, Chunk(n + 1)), n + 1, at)
<1> DEFINE v == Append(w, Chunk(n + 1))
<1>1. /\ Len(w) \in Nat /\ Len(v) = Len(w) + 1 /\ v[Len(v)] = Chunk(n + 1)
      /\ \A i \in 1 .. Len(w) : v[i] = w[i]
  OBVIOUS
<1>2. Left(w, at) = Len(w) /\ Left(v, at) = Len(v)
  BY DEF Left
<1>3. \A i \in 1 .. Len(v) : v[i] = Chunk((n + 1) - Len(v) + i)
  <2> SUFFICES ASSUME NEW i \in 1 .. Len(v) PROVE v[i] = Chunk((n + 1) - Len(v) + i)
    OBVIOUS
  <2>1. CASE i \in 1 .. Len(w)
    <3>1. w[i] = Chunk(n - Len(w) + i)
      BY <1>2, <2>1 DEF Tailing
    <3>2. n - Len(w) + i = (n + 1) - Len(v) + i
      BY <1>1, <2>1
    <3> QED BY <1>1, <2>1, <3>1, <3>2
  <2>2. CASE i = Len(v)
    <3>1. (n + 1) - Len(v) + i = n + 1
      BY <1>1, <2>2
    <3> QED BY <1>1, <2>2, <3>1
  <2> QED BY <1>1, <2>1, <2>2
<1>4. Len(w) <= n
  BY <1>2 DEF Tailing
<1> QED BY <1>1, <1>2, <1>3, <1>4 DEF Tailing

LEMMA AppendEnd ==
  ASSUME NEW w \in Seq(Frames), NEW n \in Nat, NEW at, at # "over", Tailing(w, n, at),
         NEW k \in {"final", "bad", "error"}
  PROVE  /\ Left(Append(w, Ends(k)), "over") = Left(w, at)
         /\ Tailing(Append(w, Ends(k)), n, "over")
<1> DEFINE v == Append(w, Ends(k))
<1>1. /\ Len(w) \in Nat /\ Len(v) = Len(w) + 1 /\ v[Len(v)] = Ends(k) /\ v # <<>>
      /\ \A i \in 1 .. Len(w) : v[i] = w[i]
  BY EmptySeq
<1>2. Left(w, at) = Len(w) /\ Left(v, "over") = Len(w)
  BY <1>1 DEF Left
<1>3. Ends(k).kind = k
  BY DEF Ends
<1> QED BY <1>1, <1>2, <1>3 DEF Tailing

\* The frames of the model are chunks and ends.
LEMMA FramesTyped ==
  /\ \A i \in 1 .. MaxChunks : Chunk(i) \in Frames
  /\ \A k \in {"final", "bad", "error"} : Ends(k) \in Frames
  /\ \A f \in Frames : f.kind \in {"chunk", "final", "bad", "error"}
  /\ \A f \in Frames : f.kind = "chunk" => f.n \in 1 .. MaxChunks
BY DEF Frames, Chunk, Ends

------------------------------------------------------------------------------
(* What most steps have in common *)

\* A step that moves no chunk and no frame, and ends waiters with an error only,
\* keeps what the client may rely on.
LEMMA DataKept ==
  ASSUME IInv, UNCHANGED <<ended, got, loop, spokeVars, first>>,
         \A j \in Jobs : fin'[j] = fin[j] \/ (fin[j] = "no" /\ fin'[j] = "err"),
         \A j \in Jobs : pc[j] = "over" => pc'[j] = "over",
         \A j \in Jobs : pc'[j] \in {"idle", "begun", "send"} => j \notin sentJob',
         sentJob \subseteq sentJob'
  PROVE  DataInv'
<1>0. /\ DataInv
      /\ UNCHANGED <<spoke, emitted, wire>>
  BY DEF IInv, spokeVars
<1>1. StreamIntact'
  BY <1>0 DEF DataInv, StreamIntact
<1>2. WireInv'
  BY <1>0 DEF DataInv, WireInv
<1>3. SentInv'
  BY <1>0 DEF DataInv, SentInv
<1>4. CountInv'
  BY <1>0 DEF DataInv, CountInv, InHand
<1>5. LoopInv'
  BY <1>0 DEF DataInv, LoopInv, Gone
<1>6. OkInv'
  BY <1>0 DEF DataInv, OkInv, Gone
<1> QED BY <1>1, <1>2, <1>3, <1>4, <1>5, <1>6 DEF DataInv

Controls == {"begun", "send", "first", "wait", "stream", "cancel", "fail", "close", "over"}

\* A step of ExecuteJob or of the body that only takes job j on to p.  It is over when
\* it has left the map, it is sent before it waits, and waits only if the session
\* was open or it was waiting already.
Moves(j, p) ==
  /\ Goes(j, p) /\ p \in Controls /\ pc[j] # "over"
  /\ UNCHANGED <<ended, got, ctx, waiterVars, sessionVars, loop, spokeVars>>
  /\ cancelFn' \in [Jobs -> {"off", "armed", "stopped", "fired", "sent", "over"}]
  /\ jobs' \subseteq jobs \cup {j} /\ jobs \subseteq jobs' \cup {j}
  /\ IF p = "over" THEN j \notin jobs' ELSE jobs \subseteq jobs' /\ (pc[j] # "idle" \/ j \in jobs')
  /\ sentJob \subseteq sentJob' /\ sentJob' \subseteq sentJob \cup {j}
  /\ sentCancel' \subseteq sentJob'
  /\ p \in {"begun", "send"} => j \notin sentJob'
  /\ p \in {"first", "wait"} => ~ closed \/ pc[j] \in {"first", "wait"}
  /\ readerOpen' = readerOpen \/ (p = "over" /\ readerOpen' = readerOpen \ {j})

LEMMA MovesKeep ==
  ASSUME IInv, NEW j \in Jobs, NEW p, Moves(j, p)
  PROVE  IInv'
<1> USE DEF Moves
<1>0. ControlInv /\ TypeOK /\ SentInv
  BY DEF IInv, ControlInv, DataInv
<1>1. TypeOK'
  <2>1. pc' \in [Jobs -> {"idle", "begun", "send", "first", "wait", "stream",
                          "cancel", "fail", "close", "over"}]
    BY <1>0 DEF TypeOK, Goes, Controls
  <2>2. jobs' \subseteq Jobs /\ readerOpen' \subseteq Jobs /\ sentJob' \subseteq Jobs
    BY <1>0 DEF TypeOK
  <2> QED BY <1>0, <2>1, <2>2 DEF TypeOK, waiterVars, sessionVars, spokeVars
<1>2. \A i \in Jobs : pc'[i] = IF i = j THEN p ELSE pc[i]
  BY <1>0 DEF TypeOK, Goes
<1>3. UNCHANGED <<fin, first, closed, closer>>
  BY DEF waiterVars, sessionVars
<1>4. JobsForgotten'
  <2> SUFFICES ASSUME NEW i \in jobs' PROVE pc'[i] # "over"
    BY DEF JobsForgotten
  <2>1. i \in Jobs /\ (i = j \/ i \in jobs)
    BY <1>1 DEF TypeOK
  <2> QED BY <1>0, <1>2, <2>1 DEF ControlInv, JobsForgotten
<1>5. NoJobStranded'
  BY <1>0, <1>2, <1>3 DEF ControlInv, NoJobStranded, CloserInv
<1>6. MapInv'
  BY <1>0, <1>2, <1>3 DEF ControlInv, MapInv
<1>7. ReaderInv' /\ CloserInv'
  BY <1>0, <1>2, <1>3, JobAssumption DEF ControlInv, ReaderInv, CloserInv, JobAssumption
<1>8. DataInv'
  <2>1. \A i \in Jobs : pc'[i] \in {"idle", "begun", "send"} => i \notin sentJob'
    BY <1>0, <1>2 DEF SentInv, Controls
  <2>2. \A i \in Jobs : pc[i] = "over" => pc'[i] = "over"
    BY <1>2
  <2> QED BY <1>3, <2>1, <2>2, DataKept
<1> QED BY <1>1, <1>4, <1>5, <1>6, <1>7, <1>8 DEF IInv, ControlInv

\* A step that moves no job keeps the control part, as long as waiters only end and
\* the session, if it closes, is about to fail its jobs.
LEMMA ControlKept ==
  ASSUME IInv, TypeOK', UNCHANGED <<pc, jobs, readerOpen>>,
         \A j \in Jobs : fin[j] # "no" => fin'[j] # "no",
         \/ UNCHANGED <<closed, closer>>
         \/ closed' = TRUE /\ closer' = "failing"
  PROVE  ControlInv'
BY DEF IInv, ControlInv, JobsForgotten, NoJobStranded, MapInv, ReaderInv, CloserInv

\* jobWaiter.fail ends waiters that have not ended, with an error.
LEMMA FailSays ==
  ASSUME TypeOK, NEW S, Fail(S)
  PROVE  /\ fin' \in [Jobs -> {"no", "ok", "err"}]
         /\ \A j \in Jobs : fin'[j] = fin[j] \/ (fin[j] = "no" /\ fin'[j] = "err")
         /\ \A j \in Jobs : fin[j] # "no" => fin'[j] # "no"
         /\ \A j \in Jobs : j \in S => fin'[j] # "no"
BY DEF TypeOK, Fail

------------------------------------------------------------------------------
(* ExecuteJob and the body *)

LEMMA Initially == Init => IInv
<1> SUFFICES ASSUME Init PROVE IInv
  OBVIOUS
<1> USE JobAssumption DEF Init, JobAssumption
<1>1. TypeOK
  <2>1. <<>> \in Seq(1 .. MaxChunks) /\ <<>> \in Seq(Frames)
    OBVIOUS
  <2>2. got \in [Jobs -> Seq(1 .. MaxChunks)] /\ wire \in [Jobs -> Seq(Frames)]
    BY <2>1
  <2>3. bad \cup {j \in Jobs : fin[j] = "ok"} \subseteq first
    OBVIOUS
  <2>4. emitted \in [Jobs -> 0 .. MaxChunks] /\ loop.pc = "read"
    BY DEF Reading
  <2> QED BY <2>2, <2>3, <2>4 DEF TypeOK
<1>2. JobsForgotten /\ NoJobStranded /\ MapInv /\ ReaderInv /\ CloserInv
  BY DEF JobsForgotten, NoJobStranded, MapInv, ReaderInv, CloserInv
<1>3. StreamIntact
  <2> SUFFICES ASSUME NEW j \in Jobs
               PROVE  got[j] = [i \in 1 .. Len(got[j]) |-> i] /\ ended[j] # "eof"
    BY DEF StreamIntact
  <2>1. got[j] = <<>> /\ ended[j] = "no"
    OBVIOUS
  <2>2. <<>> = [i \in 1 .. Len(<<>>) |-> i]
    OBVIOUS
  <2> QED BY <2>1, <2>2
<1>4. WireInv /\ CountInv
  BY EmptySeq DEF WireInv, CountInv, Tailing, Left, InHand, Reading
<1>5. SentInv /\ LoopInv /\ OkInv
  BY DEF SentInv, LoopInv, OkInv, Reading
<1> QED BY <1>1, <1>2, <1>3, <1>4, <1>5 DEF IInv, ControlInv, DataInv

LEMMA BeginKeeps ==
  ASSUME IInv, NEW j \in Jobs, BeginJob(j)
  PROVE  IInv'
<1>1. Moves(j, "begun")
  BY DEF IInv, ControlInv, DataInv, TypeOK, SentInv, BeginJob, Moves, Controls
<1> QED BY <1>1, MovesKeep

\* Returning without a body leaves the map.
LEMMA ReturnsSays ==
  ASSUME TypeOK, NEW j \in Jobs, Returns(j)
  PROVE  /\ Goes(j, "over") /\ jobs' = jobs \ {j}
         /\ cancelFn' \in [Jobs -> {"off", "armed", "stopped", "fired", "sent", "over"}]
BY DEF TypeOK, Returns, StopCancel, EndJob

LEMMA ControlStepKeeps ==
  ASSUME IInv, NEW j \in Jobs,
         Arm(j) \/ SendJob(j) \/ WaitFirst(j) \/ Wait(j) \/ Close(j) \/ CloseCancels(j) \/ CloseEnds(j)
  PROVE  IInv'
<1>0. TypeOK /\ SentInv
  BY DEF IInv, ControlInv, DataInv
<1> USE <1>0 DEF Moves, Controls
<1>1. CASE Arm(j)
  <2>1. CASE ctx[j] = "gone" /\ EndJob(j) /\ Goes(j, "over") /\ UNCHANGED cancelFn
    <3>1. Moves(j, "over")
      BY <1>1, <2>1 DEF TypeOK, Arm, EndJob
    <3> QED BY <3>1, MovesKeep
  <2>2. CASE /\ Goes(j, "send") /\ UNCHANGED jobs
             /\ cancelFn' = [cancelFn EXCEPT ![j] = "armed"]
    <3>1. Moves(j, "send")
      BY <1>1, <2>2 DEF TypeOK, SentInv, Arm
    <3> QED BY <3>1, MovesKeep
  <2> QED BY <1>1, <2>1, <2>2 DEF Arm
<1>2. CASE SendJob(j)
  <2>1. CASE Returns(j) /\ UNCHANGED sentJob
    <3>1. Moves(j, "over")
      BY <1>2, <2>1, ReturnsSays DEF TypeOK, SendJob
    <3> QED BY <3>1, MovesKeep
  <2>2. CASE /\ MayWrite /\ sentJob' = sentJob \cup {j}
             /\ Goes(j, IF j \in Streams THEN "first" ELSE "wait")
             /\ UNCHANGED <<cancelFn, jobs>>
    <3>1. \E p \in {"first", "wait"} : Moves(j, p)
      BY <1>2, <2>2 DEF TypeOK, SendJob, MayWrite
    <3> QED BY <3>1, MovesKeep
  <2> QED BY <1>2, <2>1, <2>2 DEF SendJob
<1>3. CASE WaitFirst(j)
  <2>1. CASE Returns(j)
    <3>1. Moves(j, "over")
      BY <1>3, <2>1, ReturnsSays DEF TypeOK, WaitFirst
    <3> QED BY <3>1, MovesKeep
  <2>2. CASE Goes(j, IF j \in bad THEN "wait" ELSE "stream") /\ UNCHANGED <<cancelFn, jobs>>
    <3>1. \E p \in {"wait", "stream"} : Moves(j, p)
      BY <1>3, <2>2 DEF TypeOK, WaitFirst
    <3> QED BY <3>1, MovesKeep
  <2> QED BY <1>3, <2>1, <2>2 DEF WaitFirst
<1>4. CASE Wait(j)
  <2>1. Moves(j, "over")
    BY <1>4, ReturnsSays DEF TypeOK, Wait
  <2> QED BY <2>1, MovesKeep
<1>5. CASE Close(j)
  <2>1. \E p \in {"cancel", "close"} : Moves(j, p)
    BY <1>5 DEF TypeOK, Close
  <2> QED BY <2>1, MovesKeep
<1>6. CASE CloseCancels(j)
  <2>1. Moves(j, "fail")
    BY <1>6 DEF TypeOK, CloseCancels, SendCancel
  <2> QED BY <2>1, MovesKeep
<1>7. CASE CloseEnds(j)
  <2>1. Moves(j, "over")
    BY <1>7, ReturnsSays DEF TypeOK, CloseEnds
  <2> QED BY <2>1, MovesKeep
<1> QED BY <1>1, <1>2, <1>3, <1>4, <1>5, <1>6, <1>7

\* The client takes the chunk the loop has in hand: the next one.
LEMMA ReadChunkKeeps ==
  ASSUME IInv, NEW j \in Jobs, ReadChunk(j)
  PROVE  IInv'
<1>0. /\ ControlInv /\ TypeOK /\ DataInv
      /\ pc[j] = "stream" /\ fin[j] = "no" /\ ended[j] = "no" /\ InHand(j) = 1
      /\ UNCHANGED <<pc, ended, ctx, jobs, fin, first, bad, cancelFn, readerOpen, closed,
                     closer, connOpen, sentJob, sentCancel, spoke, emitted, wire>>
      /\ got' = [got EXCEPT ![j] = Append(@, loop.chunk)] /\ loop' = Reading
  BY DEF IInv, ControlInv, ReadChunk, InHand, waiterVars, sessionVars, spokeVars
<1>1. /\ got[j] \in Seq(1 .. MaxChunks) /\ Len(got[j]) \in Nat /\ emitted[j] \in 0 .. MaxChunks
      /\ Left(wire[j], spoke[j]) \in Nat
  BY <1>0, EmptySeq DEF TypeOK, Left
<1>2. /\ loop.chunk = Len(got[j]) + 1 /\ loop.chunk \in 1 .. MaxChunks
      /\ Len(got[j]) + 1 + Left(wire[j], spoke[j]) = emitted[j]
  <2>1. /\ Len(got[j]) + InHand(j) + Left(wire[j], spoke[j]) = emitted[j]
        /\ loop.chunk = Len(got[j]) + 1
    BY <1>0 DEF DataInv, CountInv
  <2> QED BY <1>0, <1>1, <2>1, JobAssumption DEF JobAssumption
<1>3. /\ got'[j] \in Seq(1 .. MaxChunks) /\ Len(got'[j]) = Len(got[j]) + 1
      /\ got'[j] = Append(got[j], Len(got[j]) + 1)
      /\ \A i \in Jobs : i # j => got'[i] = got[i]
  BY <1>0, <1>1, <1>2 DEF TypeOK
<1>4. TypeOK'
  <2>1. got' \in [Jobs -> Seq(1 .. MaxChunks)]
    BY <1>0, <1>3 DEF TypeOK
  <2> QED BY <1>0, <2>1 DEF TypeOK, Reading
<1>5. ControlInv'
  BY <1>0, <1>4, ControlKept DEF IInv
<1>6. StreamIntact'
  <2> SUFFICES ASSUME NEW i \in Jobs
               PROVE  /\ got'[i] = [n \in 1 .. Len(got'[i]) |-> n]
                      /\ ended[i] = "eof" => Len(got'[i]) = emitted[i] /\ spoke[i] = "over"
    BY <1>0 DEF StreamIntact
  <2>1. CASE i = j
    <3>1. got[j] = [n \in 1 .. Len(got[j]) |-> n]
      BY <1>0 DEF DataInv, StreamIntact
    <3>2. Append(got[j], Len(got[j]) + 1) = [n \in 1 .. Len(got[j]) + 1 |-> n]
      BY <1>1, <3>1
    <3> QED BY <1>0, <1>3, <2>1, <3>2
  <2>2. CASE i # j
    BY <1>0, <1>3, <2>2 DEF DataInv, StreamIntact
  <2> QED BY <2>1, <2>2
<1>7. CountInv'
  <2> SUFFICES ASSUME NEW i \in Jobs, pc[i] # "over", fin[i] # "err"
               PROVE  /\ Len(got'[i]) + InHand(i)' + Left(wire[i], spoke[i]) = emitted[i]
                      /\ InHand(i)' = 1 => loop'.chunk = Len(got'[i]) + 1
    BY <1>0 DEF CountInv
  <2>1. InHand(i)' = 0 /\ (i # j => InHand(i) = 0)
    BY <1>0 DEF InHand, Reading
  <2>2. CASE i = j
    BY <1>1, <1>2, <1>3, <2>1, <2>2
  <2>3. CASE i # j
    BY <1>0, <1>3, <2>1, <2>3 DEF DataInv, CountInv
  <2> QED BY <2>2, <2>3
<1>8. WireInv' /\ SentInv' /\ OkInv' /\ LoopInv'
  BY <1>0 DEF DataInv, WireInv, SentInv, OkInv, LoopInv, Reading, Gone
<1> QED BY <1>5, <1>6, <1>7, <1>8 DEF IInv, DataInv

\* The regular end is told only of a job whose last frame was read, when all its
\* chunks have been.
LEMMA ReadEndKeeps ==
  ASSUME IInv, NEW j \in Jobs, ReadEnd(j)
  PROVE  IInv'
<1>0. /\ ControlInv /\ TypeOK /\ DataInv
      /\ pc[j] = "stream" /\ fin[j] # "no"
      /\ UNCHANGED <<pc, got, ctx, jobs, fin, first, bad, cancelFn, readerOpen, closed,
                     closer, connOpen, loop, sentJob, sentCancel, spoke, emitted, wire>>
      /\ ended' = [ended EXCEPT ![j] = IF fin[j] = "ok" THEN "eof" ELSE "err"]
  BY DEF IInv, ControlInv, ReadEnd, waiterVars, sessionVars, spokeVars
<1>1. TypeOK'
  BY <1>0 DEF TypeOK
<1>2. ControlInv'
  BY <1>0, <1>1, ControlKept DEF IInv
<1>3. StreamIntact'
  <2> SUFFICES ASSUME NEW i \in Jobs, ended'[i] = "eof"
               PROVE  Len(got[i]) = emitted[i] /\ spoke[i] = "over"
    BY <1>0 DEF DataInv, StreamIntact
  <2>1. CASE i = j
    <3>1. fin[j] = "ok"
      BY <1>0, <2>1 DEF TypeOK
    <3>2. spoke[j] = "over" /\ wire[j] = <<>>
      BY <1>0, <3>1 DEF DataInv, OkInv, Gone
    <3>3. Left(wire[j], spoke[j]) = 0
      BY <3>2, EmptySeq DEF Left
    <3>4. InHand(j) = 0
      BY <1>0, <3>1 DEF DataInv, LoopInv, InHand
    <3>5. Len(got[j]) \in Nat /\ emitted[j] \in Nat
      BY <1>0 DEF TypeOK
    <3> QED BY <1>0, <2>1, <3>1, <3>2, <3>3, <3>4, <3>5 DEF DataInv, CountInv
  <2>2. CASE i # j
    BY <1>0, <2>2 DEF TypeOK, DataInv, StreamIntact
  <2> QED BY <2>1, <2>2
<1>4. WireInv' /\ SentInv' /\ CountInv' /\ OkInv' /\ LoopInv'
  BY <1>0 DEF DataInv, WireInv, SentInv, CountInv, OkInv, LoopInv, InHand, Gone
<1> QED BY <1>2, <1>3, <1>4 DEF IInv, DataInv

LEMMA CloseFailsKeeps ==
  ASSUME IInv, NEW j \in Jobs, CloseFails(j)
  PROVE  IInv'
<1>0. /\ ControlInv /\ TypeOK /\ SentInv
      /\ pc[j] = "fail" /\ Goes(j, "close") /\ Fail({j} \cap jobs)
      /\ UNCHANGED <<ended, got, ctx, jobs, first, bad, cancelFn, readerOpen, closed, closer,
                     connOpen, loop, sentJob, sentCancel, spokeVars>>
  BY DEF IInv, ControlInv, DataInv, CloseFails, sessionVars
<1>1. /\ fin' \in [Jobs -> {"no", "ok", "err"}]
      /\ \A i \in Jobs : fin'[i] = fin[i] \/ (fin[i] = "no" /\ fin'[i] = "err")
      /\ \A i \in Jobs : fin[i] # "no" => fin'[i] # "no"
  BY <1>0, FailSays
<1>2. \A i \in Jobs : pc'[i] = IF i = j THEN "close" ELSE pc[i]
  BY <1>0 DEF TypeOK, Goes
<1>3. TypeOK'
  BY <1>0, <1>1 DEF TypeOK, Goes, spokeVars
<1>4. DataInv'
  <2>1. \A i \in Jobs : pc'[i] \in {"idle", "begun", "send"} => i \notin sentJob'
    BY <1>0, <1>2 DEF SentInv
  <2> QED BY <1>0, <1>1, <1>2, <2>1, DataKept
<1>5. JobsForgotten' /\ NoJobStranded' /\ MapInv'
  <2>1. JobsForgotten'
    BY <1>0, <1>2 DEF TypeOK, ControlInv, JobsForgotten
  <2>2. NoJobStranded'
    BY <1>0, <1>1, <1>2 DEF ControlInv, NoJobStranded
  <2>3. MapInv'
    BY <1>0, <1>1, <1>2 DEF ControlInv, MapInv
  <2> QED BY <2>1, <2>2, <2>3
<1>6. ReaderInv' /\ CloserInv'
  BY <1>0, <1>2, JobAssumption DEF ControlInv, ReaderInv, CloserInv, JobAssumption
<1> QED BY <1>3, <1>4, <1>5, <1>6 DEF IInv, ControlInv

------------------------------------------------------------------------------
(* The context and its AfterFunc, the session and its connection *)

\* Steps that touch neither jobs, nor chunks, nor waiters.
LEMMA QuietKeeps ==
  ASSUME IInv, TypeOK', UNCHANGED <<execVars, jobs, waiterVars, readerOpen, loop, sentJob, spokeVars>>,
         \/ UNCHANGED <<closed, closer>>
         \/ closed' = TRUE /\ closer' = "failing"
  PROVE  IInv'
<1>0. SentInv /\ UNCHANGED <<pc, ended, got, fin, first>>
  BY DEF IInv, DataInv, execVars, waiterVars
<1>1. ControlInv'
  BY <1>0, ControlKept
<1>2. DataInv'
  BY <1>0, DataKept DEF SentInv
<1> QED BY <1>1, <1>2 DEF IInv

\* So do those that end waiters with an error besides.
LEMMA FailingKeeps ==
  ASSUME IInv, NEW S, Fail(S),
         cancelFn' \in [Jobs -> {"off", "armed", "stopped", "fired", "sent", "over"}],
         UNCHANGED <<execVars, ctx, jobs, first, bad, readerOpen, sessionVars, loop, sentJob,
                     sentCancel, spokeVars>>
  PROVE  IInv'
<1>0. TypeOK /\ SentInv /\ UNCHANGED <<pc, ended, got, closed, closer, connOpen>>
  BY DEF IInv, ControlInv, DataInv, execVars, sessionVars
<1>1. /\ fin' \in [Jobs -> {"no", "ok", "err"}]
      /\ \A i \in Jobs : fin'[i] = fin[i] \/ (fin[i] = "no" /\ fin'[i] = "err")
      /\ \A i \in Jobs : fin[i] # "no" => fin'[i] # "no"
  BY <1>0, FailSays
<1>2. TypeOK'
  BY <1>0, <1>1 DEF TypeOK, spokeVars
<1>3. ControlInv'
  BY <1>0, <1>1, <1>2, ControlKept
<1>4. DataInv'
  BY <1>0, <1>1, DataKept DEF SentInv
<1> QED BY <1>3, <1>4 DEF IInv

LEMMA ContextKeeps ==
  ASSUME IInv, NEW j \in Jobs, ContextEnds(j)
  PROVE  IInv'
<1>1. TypeOK'
  BY DEF IInv, ControlInv, TypeOK, ContextEnds, execVars, waiterVars, sessionVars, spokeVars
<1> QED BY <1>1, QuietKeeps DEF ContextEnds, sessionVars

LEMMA CancelKeeps ==
  ASSUME IInv, NEW j \in Jobs, CancelFn(j)
  PROVE  IInv'
<1>0. TypeOK
  BY DEF IInv, ControlInv
<1>1. CASE CancelFires(j)
  <2>1. TypeOK'
    BY <1>0, <1>1 DEF TypeOK, CancelFires, execVars, waiterVars, sessionVars, spokeVars
  <2> QED BY <1>1, <2>1, QuietKeeps DEF CancelFires, sessionVars
<1>2. CASE CancelSends(j)
  <2>1. /\ sentCancel' \subseteq sentJob
        /\ cancelFn' \in [Jobs -> {"off", "armed", "stopped", "fired", "sent", "over"}]
    <3>1. SendCancel(j) \/ UNCHANGED sentCancel
      BY <1>2 DEF CancelSends
    <3>2. sentCancel' \subseteq sentJob
      BY <1>0, <3>1 DEF TypeOK, SendCancel
    <3>3. \E to \in {"sent", "over"} : cancelFn' = [cancelFn EXCEPT ![j] = to]
      BY <1>2 DEF CancelSends
    <3> QED BY <1>0, <3>2, <3>3 DEF TypeOK
  <2>2. TypeOK'
    BY <1>0, <1>2, <2>1 DEF TypeOK, CancelSends, execVars, waiterVars, sessionVars, spokeVars
  <2> QED BY <1>2, <2>2, QuietKeeps DEF CancelSends, sessionVars
<1>3. CASE CancelFails(j)
  <2>1. cancelFn' \in [Jobs -> {"off", "armed", "stopped", "fired", "sent", "over"}]
    BY <1>0, <1>3 DEF TypeOK, CancelFails
  <2> QED BY <1>3, <2>1, FailingKeeps DEF CancelFails
<1> QED BY <1>1, <1>2, <1>3 DEF CancelFn

LEMMA CloseSessionKeeps ==
  ASSUME IInv, CloseSession \/ ConnLost
  PROVE  IInv'
<1>1. TypeOK'
  BY DEF IInv, ControlInv, TypeOK, CloseSession, ConnLost, SessionFrame, execVars, spokeVars
<1> QED BY <1>1, QuietKeeps DEF CloseSession, ConnLost, SessionFrame, waiterVars

\* closeWithReason: after it has failed the jobs of the map, whoever waits has been
\* failed, though it may have left the map before.
LEMMA CloserKeeps ==
  ASSUME IInv, Closer
  PROVE  IInv'
<1>0. ControlInv /\ TypeOK /\ SentInv
  BY DEF IInv, ControlInv, DataInv
<1>1. CASE FailAllJobs
  <2>0. /\ closer = "failing" /\ closer' = "closing" /\ jobs' = {} /\ Fail(jobs)
        /\ UNCHANGED <<pc, ended, got, ctx, first, bad, cancelFn, readerOpen, loop, sentJob,
                       sentCancel, spokeVars, closed, connOpen>>
    BY <1>1 DEF FailAllJobs, SessionFrame, execVars
  <2>1. /\ fin' \in [Jobs -> {"no", "ok", "err"}]
        /\ \A i \in Jobs : fin'[i] = fin[i] \/ (fin[i] = "no" /\ fin'[i] = "err")
        /\ \A i \in Jobs : fin[i] # "no" => fin'[i] # "no"
        /\ \A i \in Jobs : i \in jobs => fin'[i] # "no"
    BY <1>0, <2>0, FailSays
  <2>2. TypeOK'
    BY <1>0, <2>0, <2>1 DEF TypeOK, spokeVars
  <2>3. \A i \in Jobs : pc[i] \in {"idle", "over"} \/ fin'[i] # "no"
    BY <1>0, <2>1 DEF ControlInv, MapInv
  <2>4. JobsForgotten' /\ NoJobStranded' /\ MapInv'
    BY <2>0, <2>3 DEF JobsForgotten, NoJobStranded, MapInv
  <2>5. ReaderInv' /\ CloserInv'
    BY <1>0, <2>0 DEF ControlInv, ReaderInv, CloserInv
  <2>6. DataInv'
    BY <1>0, <2>0, <2>1, DataKept DEF SentInv
  <2> QED BY <2>2, <2>4, <2>5, <2>6 DEF IInv, ControlInv
<1>2. CASE CloseConn
  <2>0. /\ closer = "closing" /\ closer' = "over" /\ connOpen' = FALSE
        /\ UNCHANGED <<pc, ended, got, ctx, jobs, fin, first, bad, cancelFn, readerOpen, loop,
                       sentJob, sentCancel, spokeVars, closed>>
    BY <1>2 DEF CloseConn, SessionFrame, execVars
  <2>1. TypeOK'
    BY <1>0, <2>0 DEF TypeOK, spokeVars
  <2>2. ControlInv'
    BY <1>0, <2>0, <2>1
    DEF ControlInv, JobsForgotten, NoJobStranded, MapInv, ReaderInv, CloserInv
  <2>3. DataInv'
    BY <1>0, <2>0, DataKept DEF SentInv
  <2> QED BY <2>2, <2>3 DEF IInv
<1> QED BY <1>1, <1>2 DEF Closer

LEMMA Stuttering ==
  ASSUME IInv, UNCHANGED vars
  PROVE  IInv'
<1>1. TypeOK'
  BY DEF IInv, ControlInv, TypeOK, vars, execVars, waiterVars, sessionVars, spokeVars
<1> QED BY <1>1, QuietKeeps DEF vars, sessionVars

------------------------------------------------------------------------------
(* The spoke *)

LEMMA SpokeControlKeeps ==
  ASSUME IInv, NEW j \in Jobs, SpokeStarts(j) \/ SpokeCancelled(j)
  PROVE  IInv'
<1>0. /\ ControlInv /\ TypeOK /\ DataInv
      /\ UNCHANGED <<pc, ended, got, ctx, jobs, fin, first, bad, cancelFn, readerOpen, closed,
                     closer, connOpen, loop, sentJob, sentCancel, emitted, wire>>
      /\ \E to \in {"running", "cancelled"} : spoke' = [spoke EXCEPT ![j] = to]
      /\ spoke[j] \in {"idle", "running"} /\ (j \in sentJob \/ spoke[j] = "running")
  BY DEF IInv, ControlInv, SpokeStarts, SpokeCancelled, SpokeFrame, execVars, waiterVars, sessionVars
<1>1. TypeOK'
  BY <1>0 DEF TypeOK
<1>2. ControlInv'
  BY <1>0, <1>1, ControlKept DEF IInv
<1>3. \A i \in Jobs : spoke'[i] = spoke[i] \/ (spoke[i] # "over" /\ spoke'[i] \notin {"idle", "over"} /\ i = j)
  BY <1>0 DEF TypeOK
<1>4. StreamIntact' /\ LoopInv' /\ OkInv'
  BY <1>0, <1>3 DEF DataInv, StreamIntact, LoopInv, OkInv, Gone
<1>5. WireInv' /\ CountInv'
  BY <1>0, <1>3 DEF DataInv, WireInv, CountInv, InHand, Tailing, Left
<1>6. SentInv'
  BY <1>0, <1>3 DEF DataInv, SentInv
<1> QED BY <1>2, <1>4, <1>5, <1>6 DEF IInv, DataInv

LEMMA SpokeSendsKeeps ==
  ASSUME IInv, NEW j \in Jobs, SpokeSends(j)
  PROVE  IInv'
<1>0. /\ ControlInv /\ TypeOK /\ DataInv
      /\ UNCHANGED <<pc, ended, got, ctx, jobs, fin, first, bad, cancelFn, readerOpen, closed,
                     closer, connOpen, loop, sentJob, sentCancel, spoke>>
      /\ spoke[j] = "running" /\ j \in Streams /\ emitted[j] < MaxChunks
      /\ emitted' = [emitted EXCEPT ![j] = @ + 1]
      /\ wire' = [wire EXCEPT ![j] = Append(@, Chunk(emitted[j] + 1))]
  BY DEF IInv, ControlInv, SpokeSends, SpokeFrame, execVars, waiterVars, sessionVars
<1>1. /\ wire[j] \in Seq(Frames) /\ emitted[j] \in Nat /\ emitted[j] + 1 \in 1 .. MaxChunks
      /\ wire'[j] = Append(wire[j], Chunk(emitted[j] + 1)) /\ emitted'[j] = emitted[j] + 1
      /\ \A i \in Jobs : i # j => wire'[i] = wire[i] /\ emitted'[i] = emitted[i]
  BY <1>0, JobAssumption DEF TypeOK, JobAssumption
<1>2. Chunk(emitted[j] + 1) \in Frames
  BY <1>1, FramesTyped
<1>3. TypeOK'
  <2>1. wire'[j] \in Seq(Frames)
    BY <1>1, <1>2
  <2>2. wire' \in [Jobs -> Seq(Frames)] /\ emitted' \in [Jobs -> 0 .. MaxChunks]
    BY <1>0, <1>1, <2>1 DEF TypeOK
  <2> QED BY <1>0, <2>2 DEF TypeOK
<1>4. ControlInv'
  BY <1>0, <1>3, ControlKept DEF IInv
<1>5. /\ Left(wire'[j], spoke[j]) = Left(wire[j], spoke[j]) + 1
      /\ Tailing(wire'[j], emitted'[j], spoke[j])
  <2>1. Tailing(wire[j], emitted[j], spoke[j])
    BY <1>0 DEF DataInv, WireInv
  <2> QED BY <1>0, <1>1, <2>1, AppendChunk
<1>6. StreamIntact'
  BY <1>0, <1>1 DEF DataInv, StreamIntact
<1>7. WireInv'
  BY <1>0, <1>1, <1>5 DEF DataInv, WireInv
<1>8. SentInv'
  BY <1>0, <1>1 DEF DataInv, SentInv
<1>9. CountInv'
  <2> SUFFICES ASSUME NEW i \in Jobs, pc[i] # "over", fin[i] # "err"
               PROVE  /\ Len(got[i]) + InHand(i) + Left(wire'[i], spoke[i]) = emitted'[i]
                      /\ InHand(i) = 1 => loop.chunk = Len(got[i]) + 1
    BY <1>0 DEF CountInv, InHand
  <2>1. /\ Len(got[i]) + InHand(i) + Left(wire[i], spoke[i]) = emitted[i]
        /\ InHand(i) = 1 => loop.chunk = Len(got[i]) + 1
    BY <1>0 DEF DataInv, CountInv
  <2>2. /\ Len(got[j]) \in Nat /\ InHand(j) \in Nat /\ Left(wire[j], spoke[j]) \in Nat
        /\ emitted[j] \in Nat
    BY <1>0, <1>1, EmptySeq DEF TypeOK, InHand, Left
  <2>3. CASE i = j
    <3>1. Len(got[j]) + InHand(j) + Left(wire[j], spoke[j]) = emitted[j]
      BY <2>1, <2>3
    <3>2. Len(got[j]) + InHand(j) + (Left(wire[j], spoke[j]) + 1) = emitted[j] + 1
      BY <2>2, <3>1
    <3> QED BY <1>1, <1>5, <2>1, <2>3, <3>2
  <2>4. CASE i # j
    BY <1>1, <2>1, <2>4
  <2> QED BY <2>3, <2>4
<1>10. LoopInv' /\ OkInv'
  BY <1>0, <1>1 DEF DataInv, LoopInv, OkInv, Gone
<1> QED BY <1>4, <1>6, <1>7, <1>8, <1>9, <1>10 DEF IInv, DataInv

LEMMA SpokeEndsKeeps ==
  ASSUME IInv, NEW j \in Jobs, SpokeEnds(j)
  PROVE  IInv'
<1>0. /\ ControlInv /\ TypeOK /\ DataInv
      /\ UNCHANGED <<pc, ended, got, ctx, jobs, fin, first, bad, cancelFn, readerOpen, closed,
                     closer, connOpen, loop, sentJob, sentCancel, emitted>>
      /\ spoke[j] \in {"running", "cancelled"} /\ spoke' = [spoke EXCEPT ![j] = "over"]
  BY DEF IInv, ControlInv, SpokeEnds, SpokeFrame, execVars, waiterVars, sessionVars
<1>1. PICK k \in {"final", "bad", "error"} : wire' = [wire EXCEPT ![j] = Append(@, Ends(k))]
  BY DEF SpokeEnds
<1>2. /\ wire[j] \in Seq(Frames) /\ emitted[j] \in Nat
      /\ wire'[j] = Append(wire[j], Ends(k)) /\ spoke'[j] = "over"
      /\ \A i \in Jobs : i # j => wire'[i] = wire[i] /\ spoke'[i] = spoke[i]
  BY <1>0, <1>1 DEF TypeOK
<1>3. TypeOK'
  <2>1. wire'[j] \in Seq(Frames)
    BY <1>2, FramesTyped
  <2>2. wire' \in [Jobs -> Seq(Frames)] /\ spoke' \in [Jobs -> {"idle", "running", "cancelled", "over"}]
    BY <1>0, <1>1, <1>2, <2>1 DEF TypeOK
  <2> QED BY <1>0, <2>2 DEF TypeOK
<1>4. ControlInv'
  BY <1>0, <1>3, ControlKept DEF IInv
<1>5. /\ Left(wire'[j], spoke'[j]) = Left(wire[j], spoke[j])
      /\ Tailing(wire'[j], emitted[j], spoke'[j])
  <2>1. Tailing(wire[j], emitted[j], spoke[j]) /\ spoke[j] # "over"
    BY <1>0 DEF DataInv, WireInv
  <2> QED BY <1>2, <2>1, AppendEnd
<1>6. StreamIntact'
  BY <1>0, <1>2 DEF DataInv, StreamIntact
<1>7. WireInv'
  BY <1>0, <1>2, <1>5 DEF DataInv, WireInv
<1>8. SentInv'
  BY <1>0, <1>2 DEF DataInv, SentInv
<1>9. CountInv'
  <2>1. \A i \in Jobs : Left(wire'[i], spoke'[i]) = Left(wire[i], spoke[i])
    BY <1>2, <1>5
  <2> QED BY <1>0, <2>1 DEF DataInv, CountInv, InHand
<1>10. LoopInv' /\ OkInv'
  BY <1>0, <1>2 DEF DataInv, LoopInv, OkInv, Gone
<1> QED BY <1>4, <1>6, <1>7, <1>8, <1>9, <1>10 DEF IInv, DataInv

------------------------------------------------------------------------------
(* The read loop *)

\* A frame of a job that is over or has failed is dropped; one of a waiter that has
\* not ended is the next chunk, or the last frame of the job.
LEMMA LoopReadsKeeps ==
  ASSUME IInv, NEW j \in Jobs, LoopReads(j)
  PROVE  IInv'
<1> DEFINE w == wire[j]
           f == Head(wire[j])
           known == j \in jobs /\ fin[j] # "err"
           n == emitted[j]
<1>0. /\ ControlInv /\ TypeOK /\ DataInv
      /\ loop.pc = "read" /\ w # <<>>
      /\ UNCHANGED <<pc, ended, got, ctx, jobs, cancelFn, readerOpen, closed,
                     closer, connOpen, sentJob, sentCancel, spoke, emitted>>
      /\ wire' = [wire EXCEPT ![j] = Tail(@)]
  BY DEF IInv, ControlInv, LoopReads, LoopFrame, execVars, sessionVars
<1>1. /\ IF f.kind = "error" THEN Fail({j} \cap jobs) ELSE UNCHANGED fin
      /\ first' = IF known /\ f.kind # "error" THEN first \cup {j} ELSE first
      /\ bad' = IF known /\ f.kind = "bad" THEN bad \cup {j} ELSE bad
      /\ loop' = CASE known /\ f.kind \in {"final", "bad"} ->
                        [pc |-> "final", job |-> j, chunk |-> 0]
                   [] known /\ f.kind = "chunk" ->
                        [pc |-> "write", job |-> j, chunk |-> f.n]
                   [] OTHER -> Reading
  BY DEF LoopReads
<1>2. /\ w \in Seq(Frames) /\ n \in Nat /\ Tailing(w, n, spoke[j])
      /\ wire'[j] = Tail(w) /\ Tail(w) \in Seq(Frames)
      /\ \A i \in Jobs : i # j => wire'[i] = wire[i]
      /\ Left(w, spoke[j]) \in Nat /\ Len(got[j]) \in Nat
  BY <1>0, EmptySeq DEF TypeOK, DataInv, WireInv, Left
<1>3. f.kind \in {"chunk", "final", "bad", "error"}
  BY <1>0, <1>2, FramesTyped
<1>4. /\ fin' \in [Jobs -> {"no", "ok", "err"}]
      /\ \A i \in Jobs : fin'[i] = fin[i] \/ (i = j /\ fin[i] = "no" /\ fin'[i] = "err")
      /\ f.kind = "error" /\ j \in jobs => fin'[j] # "no"
  BY <1>0, <1>1 DEF TypeOK, Fail
<1>5. fin[j] # "ok" /\ spoke[j] # "idle" /\ pc[j] # "idle"
  BY <1>0 DEF DataInv, OkInv, SentInv
<1>6. /\ f.kind = "chunk" => /\ Left(w, spoke[j]) > 0 /\ f.n = n - Left(w, spoke[j]) + 1
                             /\ Left(Tail(w), spoke[j]) = Left(w, spoke[j]) - 1
      /\ f.kind # "chunk" => /\ spoke[j] = "over" /\ Tail(w) = <<>> /\ Left(w, spoke[j]) = 0
                             /\ Left(Tail(w), spoke[j]) = 0
      /\ Tailing(Tail(w), n, spoke[j])
  BY <1>0, <1>2, HeadChunk, HeadEnd
<1>7. /\ known /\ f.kind \in {"final", "bad"} =>
           loop' = [pc |-> "final", job |-> j, chunk |-> 0]
      /\ known /\ f.kind = "chunk" => loop' = [pc |-> "write", job |-> j, chunk |-> f.n]
      /\ ~ known \/ f.kind = "error" => loop' = Reading
  BY <1>1, <1>3
<1>8. TypeOK'
  <2>1. wire' \in [Jobs -> Seq(Frames)]
    BY <1>0, <1>2 DEF TypeOK
  <2>2. loop'.pc \in {"read", "write", "final", "over"}
    BY <1>3, <1>7 DEF Reading
  <2>3. first' \subseteq Jobs /\ bad' \cup {i \in Jobs : fin'[i] = "ok"} \subseteq first'
    BY <1>0, <1>1, <1>4 DEF TypeOK
  <2> QED BY <1>0, <1>4, <2>1, <2>2, <2>3 DEF TypeOK
<1>9. ControlInv'
  BY <1>0, <1>4, <1>8, ControlKept DEF IInv
<1>10. StreamIntact' /\ WireInv' /\ SentInv' /\ OkInv'
  <2>1. StreamIntact'
    BY <1>0 DEF DataInv, StreamIntact
  <2>2. WireInv'
    BY <1>0, <1>2, <1>6 DEF DataInv, WireInv
  <2>3. SentInv'
    BY <1>0, <1>2, <1>5 DEF DataInv, SentInv
  <2>4. OkInv'
    BY <1>0, <1>2, <1>4, <1>5 DEF DataInv, OkInv, Gone
  <2> QED BY <2>1, <2>2, <2>3, <2>4
<1>11. LoopInv'
  <2> SUFFICES ASSUME loop'.pc \in {"write", "final"}
               PROVE  /\ loop'.job \in Jobs /\ fin'[loop'.job] # "ok" /\ loop'.job \in first'
                      /\ loop'.pc = "write" => loop'.job \in Streams
                      /\ loop'.pc = "final" => spoke'[loop'.job] = "over" /\ wire'[loop'.job] = <<>>
    BY DEF LoopInv, Gone
  <2>1. known /\ f.kind # "error" /\ loop'.job = j
    BY <1>3, <1>7 DEF Reading
  <2>2. fin'[j] # "ok" /\ j \in first'
    BY <1>1, <1>4, <1>5, <2>1
  <2>3. CASE f.kind = "chunk"
    <3>1. loop'.pc = "write" /\ n > 0
      BY <1>2, <1>6, <1>7, <2>1, <2>3 DEF Tailing
    <3> QED BY <1>0, <2>1, <2>2, <3>1 DEF DataInv, SentInv
  <2>4. CASE f.kind # "chunk"
    <3>1. loop'.pc = "final"
      BY <1>3, <1>7, <2>1, <2>4
    <3> QED BY <1>0, <1>2, <1>6, <2>1, <2>2, <2>4, <3>1
  <2> QED BY <2>3, <2>4
<1>12. CountInv'
  <2> SUFFICES ASSUME NEW i \in Jobs, pc[i] # "over", fin'[i] # "err"
               PROVE  /\ Len(got[i]) + InHand(i)' + Left(wire'[i], spoke[i]) = emitted[i]
                      /\ InHand(i)' = 1 => loop'.chunk = Len(got[i]) + 1
    BY <1>0 DEF CountInv
  <2>1. fin[i] # "err" /\ InHand(i) = 0
    BY <1>0, <1>4 DEF InHand
  <2>2. Len(got[i]) + InHand(i) + Left(wire[i], spoke[i]) = emitted[i]
    BY <1>0, <2>1 DEF DataInv, CountInv
  <2>3. CASE i # j
    <3>1. InHand(i)' = 0
      BY <1>3, <1>7, <2>3 DEF InHand, Reading
    <3> QED BY <1>2, <2>1, <2>2, <2>3, <3>1
  <2>4. CASE i = j
    <3>1. fin[j] = "no"
      BY <1>0, <1>5, <2>1, <2>4 DEF TypeOK
    <3>2. known
      BY <1>0, <1>5, <2>4, <3>1 DEF ControlInv, MapInv
    <3>3. f.kind # "error"
      BY <1>4, <2>4, <3>1, <3>2
    <3>4. CASE f.kind = "chunk"
      <4>1. InHand(j)' = 1 /\ loop'.chunk = f.n
        BY <1>7, <3>2, <3>4 DEF InHand
      <4> QED BY <1>2, <1>6, <2>1, <2>2, <2>4, <3>4, <4>1
    <3>5. CASE f.kind # "chunk"
      <4>1. InHand(j)' = 0
        BY <1>3, <1>7, <3>2, <3>3, <3>5 DEF InHand
      <4> QED BY <1>2, <1>6, <2>1, <2>2, <2>4, <3>5, <4>1
    <3> QED BY <3>4, <3>5
  <2> QED BY <2>3, <2>4
<1> QED BY <1>9, <1>10, <1>11, <1>12 DEF IInv, DataInv

\* A chunk is dropped only when nobody will read on.
LEMMA LoopDropsKeeps ==
  ASSUME IInv, LoopDrops
  PROVE  IInv'
<1>0. /\ ControlInv /\ TypeOK /\ DataInv
      /\ loop.pc = "write" /\ loop' = Reading
      /\ fin[loop.job] # "no" \/ loop.job \notin readerOpen
      /\ UNCHANGED <<pc, ended, got, ctx, jobs, fin, first, bad, cancelFn, readerOpen, closed,
                     closer, connOpen, sentJob, sentCancel, spoke, emitted, wire>>
  BY DEF IInv, ControlInv, LoopDrops, LoopFrame, execVars, waiterVars, sessionVars
<1>1. TypeOK'
  BY <1>0 DEF TypeOK, Reading
<1>2. ControlInv'
  BY <1>0, <1>1, ControlKept DEF IInv
<1>3. /\ loop.job \in Jobs
      /\ pc[loop.job] = "over" \/ fin[loop.job] = "err"
  <2>1. loop.job \in Jobs /\ loop.job \in Streams /\ fin[loop.job] # "ok"
    BY <1>0 DEF DataInv, LoopInv
  <2> QED BY <1>0, <2>1 DEF TypeOK, ControlInv, ReaderInv
<1>4. CountInv'
  <2> SUFFICES ASSUME NEW i \in Jobs, pc[i] # "over", fin[i] # "err"
               PROVE  /\ Len(got[i]) + InHand(i)' + Left(wire[i], spoke[i]) = emitted[i]
                      /\ InHand(i)' # 1
    BY <1>0 DEF CountInv
  <2>1. InHand(i) = 0 /\ InHand(i)' = 0
    BY <1>0, <1>3 DEF InHand, Reading
  <2> QED BY <1>0, <2>1 DEF DataInv, CountInv
<1>5. StreamIntact' /\ WireInv' /\ SentInv' /\ OkInv' /\ LoopInv'
  BY <1>0 DEF DataInv, StreamIntact, WireInv, SentInv, OkInv, LoopInv, Gone, Reading
<1> QED BY <1>2, <1>4, <1>5 DEF IInv, DataInv

\* The last frame ends the waiter well when all chunks have gone before it.
LEMMA LoopFinishesKeeps ==
  ASSUME IInv, LoopFinishes
  PROVE  IInv'
<1>0. /\ ControlInv /\ TypeOK /\ DataInv
      /\ loop.pc = "final" /\ loop' = Reading
      /\ fin' = [fin EXCEPT ![loop.job] = IF @ = "no" THEN "ok" ELSE @]
      /\ UNCHANGED <<pc, ended, got, ctx, jobs, first, bad, cancelFn, readerOpen, closed,
                     closer, connOpen, sentJob, sentCancel, spoke, emitted, wire>>
  BY DEF IInv, ControlInv, LoopFinishes, LoopFrame, execVars, sessionVars
<1>1. /\ loop.job \in Jobs /\ loop.job \in first
      /\ spoke[loop.job] = "over" /\ wire[loop.job] = <<>>
  BY <1>0 DEF DataInv, LoopInv, Gone
<1>2. /\ fin' \in [Jobs -> {"no", "ok", "err"}]
      /\ \A i \in Jobs : \/ fin'[i] = fin[i]
                         \/ i = loop.job /\ fin[i] = "no" /\ fin'[i] = "ok"
  BY <1>0, <1>1 DEF TypeOK
<1>3. TypeOK'
  <2>1. bad \cup {i \in Jobs : fin'[i] = "ok"} \subseteq first
    BY <1>0, <1>1, <1>2 DEF TypeOK
  <2> QED BY <1>0, <1>2, <2>1 DEF TypeOK, Reading
<1>4. ControlInv'
  BY <1>0, <1>2, <1>3, ControlKept DEF IInv
<1>5. OkInv'
  BY <1>0, <1>1, <1>2 DEF DataInv, OkInv, Gone
<1>6. CountInv'
  <2> SUFFICES ASSUME NEW i \in Jobs, pc[i] # "over", fin'[i] # "err"
               PROVE  /\ Len(got[i]) + InHand(i)' + Left(wire[i], spoke[i]) = emitted[i]
                      /\ InHand(i)' # 1
    BY <1>0 DEF CountInv
  <2>1. InHand(i) = 0 /\ InHand(i)' = 0 /\ fin[i] # "err"
    BY <1>0, <1>2 DEF InHand, Reading
  <2> QED BY <1>0, <2>1 DEF DataInv, CountInv
<1>7. StreamIntact' /\ WireInv' /\ SentInv' /\ LoopInv'
  BY <1>0 DEF DataInv, StreamIntact, WireInv, SentInv, LoopInv, Reading
<1> QED BY <1>4, <1>5, <1>6, <1>7 DEF IInv, DataInv

LEMMA LoopEndsKeeps ==
  ASSUME IInv, LoopEnds
  PROVE  IInv'
<1>0. /\ ControlInv /\ TypeOK /\ DataInv
      /\ loop.pc = "read" /\ loop' = [Reading EXCEPT !.pc = "over"]
      /\ \/ UNCHANGED <<closed, closer>>
         \/ closed' = TRUE /\ closer' = "failing"
      /\ UNCHANGED <<pc, ended, got, ctx, jobs, fin, first, bad, cancelFn, readerOpen,
                     connOpen, sentJob, sentCancel, spoke, emitted, wire>>
  BY DEF IInv, ControlInv, LoopEnds, LoopFrame, execVars, waiterVars, sessionVars
<1>1. loop'.pc = "over"
  BY <1>0 DEF Reading
<1>2. TypeOK'
  BY <1>0, <1>1 DEF TypeOK
<1>3. ControlInv'
  BY <1>0, <1>2, ControlKept DEF IInv
<1>4. CountInv'
  <2>1. \A i \in Jobs : InHand(i) = 0 /\ InHand(i)' = 0
    BY <1>0, <1>1 DEF InHand
  <2> QED BY <1>0, <2>1 DEF DataInv, CountInv
<1>5. StreamIntact' /\ WireInv' /\ SentInv' /\ OkInv' /\ LoopInv'
  BY <1>0, <1>1 DEF DataInv, StreamIntact, WireInv, SentInv, OkInv, LoopInv, Gone
<1> QED BY <1>3, <1>4, <1>5 DEF IInv, DataInv

------------------------------------------------------------------------------
(* The theorems *)

\* Every step keeps the inductive invariant.
LEMMA Inductive == IInv /\ [Next]_vars => IInv'
<1> SUFFICES ASSUME IInv, [Next]_vars PROVE IInv'
  OBVIOUS
<1>1. ASSUME NEW j \in Jobs, BeginJob(j) \/ ContextEnds(j) \/ CancelFn(j)
      PROVE  IInv'
  BY <1>1, BeginKeeps, ContextKeeps, CancelKeeps
<1>2. ASSUME NEW j \in Jobs, Execute(j)
      PROVE  IInv'
  BY <1>2, ControlStepKeeps, ReadChunkKeeps, ReadEndKeeps, CloseFailsKeeps DEF Execute
<1>3. ASSUME NEW j \in Jobs, Spoke(j)
      PROVE  IInv'
  BY <1>3, SpokeControlKeeps, SpokeSendsKeeps, SpokeEndsKeeps DEF Spoke
<1>4. CASE Loop
  BY <1>4, LoopReadsKeeps, LoopDropsKeeps, LoopFinishesKeeps, LoopEndsKeeps DEF Loop
<1>5. CASE CloseSession \/ Closer \/ ConnLost
  BY <1>5, CloseSessionKeeps, CloserKeeps
<1>6. CASE UNCHANGED vars
  BY <1>6, Stuttering
<1> QED BY <1>1, <1>2, <1>3, <1>4, <1>5, <1>6 DEF Next

LEMMA Invariant == Spec => []IInv
BY Initially, Inductive, PTL DEF Spec

\* A client reads the chunks of its job in order and without a gap, and is told of
\* the regular end only when it has read all of them and the spoke is done, whatever
\* cancellations, errors, closes and losses of the session come in between.
THEOREM StreamsIntact == Spec => []StreamIntact
<1>1. IInv => StreamIntact
  BY DEF IInv, DataInv
<1> QED BY <1>1, Invariant, PTL

\* What is over has left the map, and nothing waits on a session that has failed the
\* jobs it found, though jobs register without looking whether it is closed.
THEOREM JobsAreSettled == Spec => []JobsSettled
<1>1. IInv => JobsSettled
  BY DEF IInv, ControlInv, JobsSettled
<1> QED BY <1>1, Invariant, PTL

------------------------------------------------------------------------------
(* The metadata a spoke publishes *)

PubType ==
  [pc : {"off", "publish", "send", "select", "over"}, dirty : BOOLEAN, force : BOOLEAN,
   last : Versions \cup {NoVersion}, retries : 0 .. Retries, timer : BOOLEAN,
   body : Versions \cup {NoVersion}]
Snapshots == [id : Nat \X Nat, body : Versions]

\* Every variable in its range; a connection that was not made has sent nothing.
MetadataTyped ==
  /\ content \in Versions /\ notifying \in 0 .. content
  /\ notify \in BOOLEAN /\ rejectCh \in BOOLEAN
  /\ cur \in 0 .. MaxConns /\ up \subseteq open /\ open \subseteq {cur} \ {0}
  /\ pub \in [Conns -> PubType]
  /\ toHub \in [Conns -> Seq(Snapshots)]
  /\ toSpoke \in [Conns -> Seq(Nat \X Nat)]
  /\ hand \in [Conns -> (Versions \ Bad) \cup {NoVersion}]
  /\ meta \in [Conns -> (Versions \ Bad) \cup {NoVersion}]
  /\ sends \in [Conns -> Nat] /\ notified \in [Conns -> Nat]

Untouched(c) ==
  /\ pub[c].last = NoVersion /\ pub[c].body = NoVersion
  /\ toHub[c] = <<>> /\ hand[c] = NoVersion /\ meta[c] = NoVersion
  /\ sends[c] = 0 /\ notified[c] = 0
NotMade == \A c \in Conns : c > cur => pub[c].pc = "off" /\ Untouched(c)

\* What is older comes first: the hub's version, the one its read loop has in hand,
\* those on the wire in their order, the last one sent, the one being sent, the content.
HeldUpTo(c, v) == /\ meta[c] # NoVersion => meta[c] <= v
                  /\ hand[c] # NoVersion => hand[c] <= v
WireOrdered(c) ==
  /\ \A i, j \in DOMAIN toHub[c] : i <= j => toHub[c][i].body <= toHub[c][j].body
  /\ \A i \in DOMAIN toHub[c] :
       /\ pub[c].last # NoVersion /\ toHub[c][i].body <= pub[c].last
       /\ HeldUpTo(c, toHub[c][i].body)
MetaOrdered(c) ==
  /\ meta[c] # NoVersion \/ hand[c] # NoVersion => pub[c].last # NoVersion
  /\ HeldUpTo(c, pub[c].last)
  /\ meta[c] # NoVersion /\ hand[c] # NoVersion => meta[c] <= hand[c]
PubOrdered(c) ==
  /\ pub[c].last # NoVersion => pub[c].last <= content
  /\ pub[c].pc = "send" => /\ pub[c].body \in Versions /\ pub[c].body <= content
                           /\ pub[c].last # NoVersion => pub[c].last <= pub[c].body
OrderInv == \A c \in Conns : WireOrdered(c) /\ MetaOrdered(c) /\ PubOrdered(c)

\* What a publisher may still send without being told of another change: what it is
\* about to, what its timer is set for, and the retries that are left.
Budget(n) == (1 + n) * (1 + Retries)
Due(p) == (IF p.pc \in {"publish", "send"} THEN 1 ELSE 0) + (IF p.timer THEN 1 ELSE 0)
            + (Retries - p.retries)
BudgetInv == \A c \in Conns : sends[c] + Due(pub[c]) <= Budget(notified[c])

MetadataInv == MetadataTyped /\ NotMade /\ OrderInv /\ BudgetInv

LEMMA MetadataRanges ==
  /\ Retries \in Nat /\ MaxChanges \in Nat /\ MaxConns \in Nat \ {0}
  /\ 0 \in Versions /\ NoVersion \notin Versions /\ NoVersion \in Nat
  /\ Versions \subseteq Nat /\ Conns \subseteq Nat \ {0} /\ Bad \subseteq Versions
BY MetadataAssumption DEF MetadataAssumption, NoVersion, Versions, Conns

LEMMA BudgetGrows ==
  ASSUME NEW n \in Nat
  PROVE  /\ Budget(n) \in Nat
         /\ Budget(n + 1) = Budget(n) + 1 + Retries
         /\ Budget(0) = 1 + Retries
BY MetadataRanges DEF Budget

LEMMA DueNat == ASSUME NEW p \in PubType PROVE Due(p) \in Nat
BY MetadataRanges DEF Due, PubType

\* A publisher with another control is a publisher again.
LEMMA PubGoesOn ==
  ASSUME NEW p \in PubType, NEW at \in {"off", "publish", "send", "select", "over"}
  PROVE  [p EXCEPT !.pc = at] \in PubType
BY DEF PubType

LEMMA CleanSays ==
  ASSUME NEW p \in PubType, Retries \in Nat
  PROVE  /\ Clean(p) \in PubType
         /\ Clean(p).pc = "select" /\ Clean(p).last = p.last
         /\ Due(Clean(p)) <= Due(p)
         /\ p.pc \in {"publish", "send"} => Due(Clean(p)) + 1 = Due(p)
<1>1. Clean(p) \in PubType
  BY DEF Clean, PubType
<1>2. /\ Clean(p).pc = "select" /\ Clean(p).last = p.last
      /\ Clean(p).retries = p.retries /\ Clean(p).timer = p.timer
  BY DEF Clean, PubType
<1> QED BY <1>1, <1>2 DEF Due, PubType

Built(p, v) == [p EXCEPT !.pc = "send", !.body = v]
LEMMA BuiltSays ==
  ASSUME NEW p \in PubType, NEW v \in Versions, Retries \in Nat
  PROVE  /\ Built(p, v) \in PubType
         /\ Built(p, v).pc = "send" /\ Built(p, v).last = p.last /\ Built(p, v).body = v
         /\ p.pc = "publish" => Due(Built(p, v)) = Due(p)
<1>1. Built(p, v) \in PubType
  BY DEF Built, PubType
<1>2. /\ Built(p, v).pc = "send" /\ Built(p, v).last = p.last /\ Built(p, v).body = v
      /\ Built(p, v).retries = p.retries /\ Built(p, v).timer = p.timer
  BY DEF Built, PubType
<1> QED BY <1>1, <1>2 DEF Due, PubType

LEMMA TakeNotifySays ==
  ASSUME NEW p \in PubType, Retries \in Nat
  PROVE  /\ TakeNotify(p) \in PubType
         /\ TakeNotify(p).pc = "publish" /\ TakeNotify(p).last = p.last
         /\ Due(TakeNotify(p)) = 1 + Retries
<1>0. 0 \in 0 .. Retries
  OBVIOUS
<1>1. TakeNotify(p) \in PubType
  BY <1>0 DEF TakeNotify, PubType
<1>2. /\ TakeNotify(p).pc = "publish" /\ TakeNotify(p).last = p.last
      /\ TakeNotify(p).retries = 0 /\ TakeNotify(p).timer = FALSE
  BY DEF TakeNotify, PubType
<1> QED BY <1>1, <1>2 DEF Due

LEMMA ScheduleRetrySays ==
  ASSUME NEW p \in PubType, Retries \in Nat
  PROVE  /\ ScheduleRetry(p) \in PubType
         /\ ScheduleRetry(p).pc = p.pc /\ ScheduleRetry(p).last = p.last
         /\ Due(ScheduleRetry(p)) <= Due(p)
<1> DEFINE q == ScheduleRetry(p)
<1>1. CASE p.retries >= Retries
  <2>1. q = [p EXCEPT !.timer = FALSE]
    BY <1>1 DEF ScheduleRetry
  <2> HIDE DEF q
  <2>2. q \in PubType
    BY <2>1 DEF PubType
  <2>3. q.pc = p.pc /\ q.last = p.last /\ q.retries = p.retries /\ q.timer = FALSE
    BY <2>1 DEF PubType
  <2>4. Due(q) <= Due(p)
    BY <2>3 DEF Due, PubType
  <2> QED BY <2>2, <2>3, <2>4 DEF q
<1>2. CASE p.retries < Retries
  <2> DEFINE r == p.retries + 1
  <2>1. q = [p EXCEPT !.timer = TRUE, !.retries = r]
    BY <1>2 DEF ScheduleRetry, PubType
  <2>0. r \in 0 .. Retries
    BY <1>2 DEF PubType
  <2> HIDE DEF q, r
  <2>2. q \in PubType
    BY <2>0, <2>1 DEF PubType
  <2>3. q.pc = p.pc /\ q.last = p.last /\ q.retries = p.retries + 1 /\ q.timer = TRUE
    BY <2>1 DEF PubType, r
  <2>4. Due(q) <= Due(p)
    BY <2>3 DEF Due, PubType
  <2> QED BY <2>2, <2>3, <2>4 DEF q
<1> QED BY <1>1, <1>2 DEF PubType

LEMMA StartingSays ==
  /\ Starting \in PubType /\ [Starting EXCEPT !.pc = "off"] \in PubType
  /\ Starting.last = NoVersion /\ Starting.pc = "publish" /\ Starting.body = NoVersion
  /\ Due(Starting) = 1 + Retries
  /\ Due([Starting EXCEPT !.pc = "off"]) = Retries
<1> USE MetadataRanges
<1>1. Starting \in PubType
  BY DEF Starting, PubType
<1>2. [Starting EXCEPT !.pc = "off"] \in PubType
  BY <1>1, PubGoesOn
<1>3. Due(Starting) = 1 + Retries
  BY DEF Starting, Due
<1>4. Due([Starting EXCEPT !.pc = "off"]) = Retries
  BY DEF Starting, Due
<1> QED BY <1>1, <1>2, <1>3, <1>4 DEF Starting

LEMMA MetadataInitially == MetadataInit => MetadataInv
<1> SUFFICES ASSUME MetadataInit PROVE MetadataInv
  OBVIOUS
<1> USE MetadataRanges, StartingSays DEF MetadataInit
<1>1. MetadataTyped
  <2>1. pub \in [Conns -> PubType]
    OBVIOUS
  <2>2. toHub \in [Conns -> Seq(Snapshots)] /\ toSpoke \in [Conns -> Seq(Nat \X Nat)]
    OBVIOUS
  <2>3. /\ hand \in [Conns -> (Versions \ Bad) \cup {NoVersion}]
        /\ meta \in [Conns -> (Versions \ Bad) \cup {NoVersion}]
    OBVIOUS
  <2>4. sends \in [Conns -> Nat] /\ notified \in [Conns -> Nat]
    OBVIOUS
  <2>5. content \in Versions /\ notifying \in 0 .. content
    OBVIOUS
  <2>6. cur \in 0 .. MaxConns /\ up \subseteq open /\ open \subseteq {cur} \ {0}
    OBVIOUS
  <2> QED BY <2>1, <2>2, <2>3, <2>4, <2>5, <2>6 DEF MetadataTyped
<1>2. NotMade
  BY DEF NotMade, Untouched, Starting
<1>3. OrderInv
  BY DEF OrderInv, WireOrdered, MetaOrdered, HeldUpTo, PubOrdered, Starting
<1>4. BudgetInv
  BY BudgetGrows DEF BudgetInv
<1> QED BY <1>1, <1>2, <1>3, <1>4 DEF MetadataInv

\* A publisher that is left alone, with what it has sent and is on the wire; its session
\* may end.
Alone(c) == /\ pub'[c] = pub[c] /\ toHub'[c] = toHub[c]
            /\ hand'[c] = hand[c] /\ meta'[c] \in {meta[c], NoVersion}
            /\ sends'[c] = sends[c] /\ notified'[c] = notified[c]

LEMMA AloneKeeps ==
  ASSUME MetadataInv, NEW c \in Conns, Alone(c), content' >= content, content' \in Versions
  PROVE  /\ WireOrdered(c)' /\ MetaOrdered(c)' /\ PubOrdered(c)'
         /\ sends'[c] + Due(pub'[c]) <= Budget(notified'[c])
         /\ cur' \in {cur, cur + 1} /\ c > cur' => pub'[c].pc = "off" /\ Untouched(c)'
<1> USE MetadataRanges
<1>1. WireOrdered(c)' /\ MetaOrdered(c)'
  BY DEF MetadataInv, OrderInv, Alone, WireOrdered, MetaOrdered, HeldUpTo
<1>2. PubOrdered(c)'
  <2>1. PubOrdered(c) /\ content \in Nat /\ content' \in Nat /\ pub[c] \in PubType
    BY DEF MetadataInv, OrderInv, MetadataTyped
  <2>2. /\ pub[c].last \in Versions \cup {NoVersion} /\ pub[c].body \in Versions \cup {NoVersion}
        /\ pub'[c] = pub[c]
    BY <2>1 DEF PubType, Alone
  <2>5. pub[c].last \in Nat /\ pub[c].body \in Nat
    BY <2>2
  <2>3. pub[c].last # NoVersion => pub[c].last <= content'
    BY <2>1, <2>2, <2>5 DEF PubOrdered
  <2>4. pub[c].pc = "send" => pub[c].body <= content'
    BY <2>1, <2>2, <2>5 DEF PubOrdered
  <2> QED BY <2>1, <2>2, <2>3, <2>4 DEF PubOrdered
<1>3. sends'[c] + Due(pub'[c]) <= Budget(notified'[c])
  BY DEF MetadataInv, BudgetInv, Alone
<1>4. ASSUME cur' \in {cur, cur + 1}, c > cur' PROVE pub'[c].pc = "off" /\ Untouched(c)'
  <2>1. c > cur
    BY <1>4 DEF MetadataInv, MetadataTyped
  <2> QED BY <2>1 DEF MetadataInv, NotMade, Untouched, Alone
<1> QED BY <1>1, <1>2, <1>3, <1>4

\* What a step of connection c keeps of the others.
OthersAlone(c) == \A d \in Conns \ {c} : Alone(d)

\* A step of connection c, or of none, that leaves the counters of connections alone.
LEMMA OneStepKeeps ==
  ASSUME MetadataInv, NEW c \in Conns, OthersAlone(c), MetadataTyped',
         content' >= content, cur' \in {cur, cur + 1},
         WireOrdered(c)', MetaOrdered(c)', PubOrdered(c)',
         sends'[c] + Due(pub'[c]) <= Budget(notified'[c]),
         c <= cur'
  PROVE  MetadataInv'
<1> USE MetadataRanges
<1>0. content' \in Versions
  BY DEF MetadataTyped
<1>1. ASSUME NEW d \in Conns \ {c}
      PROVE  /\ WireOrdered(d)' /\ MetaOrdered(d)' /\ PubOrdered(d)'
             /\ sends'[d] + Due(pub'[d]) <= Budget(notified'[d])
             /\ d > cur' => pub'[d].pc = "off" /\ Untouched(d)'
  BY <1>0, <1>1, AloneKeeps DEF OthersAlone
<1>2. OrderInv'
  BY <1>1 DEF OrderInv
<1>3. BudgetInv'
  BY <1>1 DEF BudgetInv
<1>4. ASSUME NEW d \in Conns, d > cur' PROVE d # c
  BY <1>4 DEF MetadataTyped
<1>5. NotMade'
  BY <1>1, <1>4 DEF NotMade
<1> QED BY <1>2, <1>3, <1>5 DEF MetadataInv

\* A publisher that sends nothing goes on with q, after what it was told of.
LEMMA PublisherMoves ==
  ASSUME MetadataInv, NEW c \in Conns, pub[c].pc # "off",
         NEW q \in PubType, pub' = [pub EXCEPT ![c] = q], q.last = pub[c].last,
         q.pc = "send" => q.body = content,
         UNCHANGED <<sourceVars, cur, wireVars, sends>>, up' \subseteq up,
         notify' \in BOOLEAN, rejectCh' \in BOOLEAN,
         \/ notified' = notified /\ Due(q) <= Due(pub[c])
         \/ notified' = [notified EXCEPT ![c] = @ + 1] /\ Due(q) <= Due(pub[c]) + 1 + Retries
  PROVE  MetadataInv'
<1> USE MetadataRanges
<1>0. MetadataTyped /\ NotMade /\ OrderInv /\ BudgetInv
  BY DEF MetadataInv
<1>1. pub'[c] = q /\ OthersAlone(c)
  BY <1>0 DEF OthersAlone, Alone, MetadataTyped, wireVars, hubVars
<1>2. MetadataTyped'
  <2>0. notified \in [Conns -> Nat]
    BY <1>0 DEF MetadataTyped
  <2>1. notified' \in [Conns -> Nat]
    BY <2>0
  <2>2. pub' \in [Conns -> PubType]
    BY <1>0 DEF MetadataTyped
  <2> QED BY <2>1, <2>2, <1>0 DEF MetadataTyped, wireVars, hubVars, sourceVars
<1>3. c <= cur'
  BY <1>0 DEF MetadataTyped, NotMade
<1>4. WireOrdered(c)' /\ MetaOrdered(c)'
  BY <1>0, <1>1 DEF OrderInv, WireOrdered, MetaOrdered, HeldUpTo, wireVars, hubVars
<1>5. PubOrdered(c)'
  <2>1. PubOrdered(c) /\ content' = content /\ content \in Versions
    BY <1>0 DEF OrderInv, MetadataTyped, sourceVars
  <2> QED BY <2>1, <1>1 DEF PubOrdered
<1>6. sends'[c] + Due(pub'[c]) <= Budget(notified'[c])
  <2>1. /\ sends[c] \in Nat /\ notified[c] \in Nat /\ Due(q) \in Nat /\ Due(pub[c]) \in Nat
        /\ sends'[c] = sends[c] /\ Budget(notified[c]) \in Nat
        /\ sends[c] + Due(pub[c]) <= Budget(notified[c])
    BY <1>0, DueNat, BudgetGrows DEF MetadataTyped, BudgetInv
  <2>2. CASE notified' = notified /\ Due(q) <= Due(pub[c])
    BY <2>1, <2>2, <1>1
  <2>3. CASE /\ notified' = [notified EXCEPT ![c] = @ + 1]
             /\ Due(q) <= Due(pub[c]) + 1 + Retries
    <3>1. notified'[c] = notified[c] + 1
      BY <2>3, <1>0 DEF MetadataTyped
    <3>2. Budget(notified'[c]) = Budget(notified[c]) + 1 + Retries
      BY <3>1, <2>1, BudgetGrows
    <3> QED BY <2>1, <2>3, <3>2, <1>1
  <2> QED BY <2>2, <2>3
<1>7. content' >= content /\ cur' = cur
  BY <1>0 DEF MetadataTyped, sourceVars
<1> QED BY <1>1, <1>2, <1>3, <1>4, <1>5, <1>6, <1>7, OneStepKeeps

LEMMA PublishMoves == ASSUME MetadataInv, NEW c \in Conns, Publish(c) PROVE MetadataInv'
<1>1. /\ pub[c] \in PubType /\ content \in Versions /\ notify \in BOOLEAN
      /\ rejectCh \in BOOLEAN /\ Retries \in Nat
  BY MetadataRanges DEF MetadataInv, MetadataTyped
<1>2. CASE pub' = [pub EXCEPT ![c] = Clean(@)]
  BY <1>1, <1>2, CleanSays, PublisherMoves DEF Publish, countVars
<1>3. CASE pub' = [pub EXCEPT ![c] = [@ EXCEPT !.pc = "send", !.body = content]]
  <2> DEFINE q == Built(pub[c], content)
  <2>1. pub' = [pub EXCEPT ![c] = q]
    BY <1>3 DEF Built
  <2>2. /\ q \in PubType /\ q.last = pub[c].last /\ q.body = content
        /\ pub[c].pc = "publish" => Due(q) = Due(pub[c])
    BY <1>1, BuiltSays
  <2> HIDE DEF q
  <2>3. Due(pub[c]) \in Nat /\ Due(q) \in Nat
    BY <1>1, <2>2, DueNat
  <2>4. Due(q) <= Due(pub[c]) /\ pub[c].pc # "off"
    BY <2>2, <2>3 DEF Publish
  <2>5. /\ up' \subseteq up /\ notified' = notified /\ UNCHANGED sends
        /\ UNCHANGED <<sourceVars, cur, wireVars>> /\ notify' = notify /\ rejectCh' = rejectCh
    BY DEF Publish, countVars
  <2> QED BY <2>1, <2>2, <2>4, <2>5, <1>1, PublisherMoves
<1> QED BY <1>2, <1>3 DEF Publish

LEMMA DisconnectedMoves ==
  ASSUME MetadataInv, NEW c \in Conns, Disconnected(c) PROVE MetadataInv'
<1>1. /\ pub[c] \in PubType /\ notify \in BOOLEAN /\ rejectCh \in BOOLEAN /\ Retries \in Nat
  BY MetadataRanges DEF MetadataInv, MetadataTyped
<1> DEFINE q == [pub[c] EXCEPT !.pc = "over"]
<1>2. pub' = [pub EXCEPT ![c] = q]
  BY DEF Disconnected
<1>3. q \in PubType
  BY <1>1, PubGoesOn
<1>4. q.last = pub[c].last /\ q.pc = "over" /\ q.retries = pub[c].retries /\ q.timer = pub[c].timer
  BY <1>1 DEF PubType
<1> HIDE DEF q
<1>5. Due(q) <= Due(pub[c])
  BY <1>1, <1>4 DEF Due, PubType
<1> QED BY <1>1, <1>2, <1>3, <1>4, <1>5, PublisherMoves DEF Disconnected, countVars

LEMMA NotifiedMoves ==
  ASSUME MetadataInv, NEW c \in Conns, Notified(c) PROVE MetadataInv'
<1>1. pub[c] \in PubType /\ rejectCh \in BOOLEAN /\ Retries \in Nat
  BY MetadataRanges DEF MetadataInv, MetadataTyped
<1>2. Due(TakeNotify(pub[c])) <= Due(pub[c]) + 1 + Retries
  BY <1>1, DueNat, TakeNotifySays
<1> QED BY <1>1, <1>2, TakeNotifySays, PublisherMoves DEF Notified

LEMMA RejectedMoves ==
  ASSUME MetadataInv, NEW c \in Conns, Rejected(c) PROVE MetadataInv'
<1>1. pub[c] \in PubType /\ notify \in BOOLEAN /\ Retries \in Nat
  BY MetadataRanges DEF MetadataInv, MetadataTyped
<1> DEFINE f == [pub[c] EXCEPT !.dirty = TRUE, !.force = TRUE]
<1>2. pub' = [pub EXCEPT ![c] = ScheduleRetry(f)]
  BY DEF Rejected
<1>3. f \in PubType
  BY <1>1 DEF PubType
<1>4. f.last = pub[c].last /\ f.pc = pub[c].pc /\ f.retries = pub[c].retries /\ f.timer = pub[c].timer
  BY <1>1 DEF PubType
<1> HIDE DEF f
<1>5. Due(f) = Due(pub[c])
  BY <1>4 DEF Due
<1>6. Due(ScheduleRetry(f)) <= Due(pub[c])
  BY <1>1, <1>3, <1>5, ScheduleRetrySays
<1> QED BY <1>1, <1>2, <1>3, <1>4, <1>6, ScheduleRetrySays, PublisherMoves DEF Rejected, countVars

LEMMA TimerFiresMoves ==
  ASSUME MetadataInv, NEW c \in Conns, TimerFires(c) PROVE MetadataInv'
<1>1. /\ pub[c] \in PubType /\ notify \in BOOLEAN /\ rejectCh \in BOOLEAN /\ Retries \in Nat
  BY MetadataRanges DEF MetadataInv, MetadataTyped
<1> DEFINE at == IF pub[c].dirty THEN "publish" ELSE "select"
<1> DEFINE q == [pub[c] EXCEPT !.timer = FALSE, !.pc = at]
<1>2. pub' = [pub EXCEPT ![c] = q]
  BY DEF TimerFires
<1>3. at \in {"publish", "select"}
  OBVIOUS
<1> HIDE DEF at
<1>4. q \in PubType
  BY <1>1, <1>3 DEF PubType
<1>5. q.last = pub[c].last /\ q.pc = at /\ q.retries = pub[c].retries /\ q.timer = FALSE
  BY <1>1 DEF PubType
<1> HIDE DEF q
<1>6. pub[c].pc = "select" /\ pub[c].timer
  BY DEF TimerFires
<1>7. Due(q) <= Due(pub[c])
  BY <1>1, <1>3, <1>5, <1>6 DEF Due, PubType
<1> QED BY <1>1, <1>2, <1>3, <1>4, <1>5, <1>6, <1>7, PublisherMoves DEF TimerFires, countVars

LEMMA SourceMoves ==
  ASSUME MetadataInv, Change \/ Notify
  PROVE  MetadataInv'
<1> USE MetadataRanges
<1>0. MetadataTyped /\ NotMade /\ OrderInv /\ BudgetInv
  BY DEF MetadataInv
<1>1. /\ UNCHANGED <<rejectCh, lastId, cur, up, pub, wireVars, countVars>>
      /\ content' \in Versions /\ content' >= content
      /\ notifying' \in 0 .. content' /\ notify' \in BOOLEAN
  <2>1. CASE Change
    <3>1. content' \in Versions /\ content' >= content /\ notifying' \in 0 .. content'
      BY <2>1, <1>0, MetadataAssumption DEF Change, MetadataTyped, Versions, MetadataAssumption
    <3> QED BY <2>1, <3>1, <1>0 DEF Change, MetadataTyped
  <2>2. CASE Notify
    <3>1. content' = content /\ content' \in Versions
      BY <2>2, <1>0 DEF Notify, MetadataTyped
    <3>2. notifying' \in 0 .. content'
      BY <2>2, <3>1, <1>0 DEF Notify, MetadataTyped
    <3> QED BY <2>2, <3>1, <3>2 DEF Notify
  <2> QED BY <2>1, <2>2
<1>2. ASSUME NEW d \in Conns PROVE Alone(d)
  BY <1>1 DEF Alone, wireVars, hubVars, countVars
<1>3. MetadataTyped'
  BY <1>0, <1>1 DEF MetadataTyped, wireVars, hubVars, countVars
<1>4. OrderInv' /\ BudgetInv'
  BY <1>1, <1>2, AloneKeeps DEF OrderInv, BudgetInv
<1>5. NotMade'
  BY <1>0, <1>1 DEF NotMade, Untouched, wireVars, hubVars, countVars
<1> QED BY <1>3, <1>4, <1>5 DEF MetadataInv

LEMMA ConnectMoves == ASSUME MetadataInv, Connect PROVE MetadataInv'
<1> USE MetadataRanges
<1>0. MetadataTyped /\ NotMade /\ OrderInv /\ BudgetInv
  BY DEF MetadataInv
<1>10. cur + 1 \in Conns
  BY <1>0 DEF Connect, MetadataTyped, Conns
<1>11. PICK c \in Conns : c = cur + 1
  BY <1>10
<1>1. /\ c \in Conns /\ pub' = [pub EXCEPT ![c] = Starting] /\ cur' = c
      /\ cur \in Nat /\ c > cur
      /\ UNCHANGED <<sourceVars, notify, rejectCh, lastId, toHub, toSpoke, hand, countVars>>
      /\ meta' = [d \in Conns |-> IF d \in open THEN NoVersion ELSE meta[d]]
  BY <1>0, <1>11 DEF Connect, MetadataTyped
<1>2. up' \subseteq open' /\ open' \subseteq {cur'} \ {0} /\ cur' \in 0 .. MaxConns
  BY <1>0 DEF Connect, MetadataTyped
<1>3. MetadataTyped'
  <2>1. pub' \in [Conns -> PubType]
    BY <1>0, <1>1, StartingSays DEF MetadataTyped
  <2>2. meta' \in [Conns -> (Versions \ Bad) \cup {NoVersion}]
    BY <1>0, <1>1 DEF MetadataTyped
  <2> QED BY <1>0, <1>1, <1>2, <2>1, <2>2 DEF MetadataTyped, sourceVars, countVars
<1>4. pub'[c] = Starting /\ OthersAlone(c)
  BY <1>0, <1>1 DEF OthersAlone, Alone, MetadataTyped, countVars
<1>5. Untouched(c)
  BY <1>0, <1>1 DEF NotMade
<1>6. /\ toHub'[c] = <<>> /\ hand'[c] = NoVersion /\ meta'[c] = NoVersion
      /\ sends'[c] = 0 /\ notified'[c] = 0 /\ DOMAIN toHub'[c] = {}
  BY <1>1, <1>5 DEF Untouched, countVars
<1>7. WireOrdered(c)' /\ MetaOrdered(c)' /\ PubOrdered(c)'
  <2>1. WireOrdered(c)'
    BY <1>6 DEF WireOrdered
  <2>2. MetaOrdered(c)'
    BY <1>6 DEF MetaOrdered, HeldUpTo
  <2>3. pub'[c].last = NoVersion /\ pub'[c].pc = "publish"
    BY <1>4, StartingSays
  <2>4. PubOrdered(c)'
    BY <2>3 DEF PubOrdered
  <2> QED BY <2>1, <2>2, <2>4
<1>8. sends'[c] + Due(pub'[c]) <= Budget(notified'[c])
  <2>1. Due(pub'[c]) = 1 + Retries
    BY <1>4, StartingSays
  <2>2. Budget(notified'[c]) = 1 + Retries
    BY <1>6, BudgetGrows
  <2> QED BY <2>1, <2>2, <1>6
<1>9. content' >= content /\ cur' = cur + 1 /\ c <= cur'
  BY <1>0, <1>1, <1>11 DEF MetadataTyped, sourceVars
<1> QED BY <1>1, <1>3, <1>4, <1>7, <1>8, <1>9, OneStepKeeps

LEMMA LoseMoves == ASSUME MetadataInv, NEW c \in Conns, Lose(c) PROVE MetadataInv'
<1> USE MetadataRanges
<1>0. MetadataTyped /\ NotMade /\ OrderInv /\ BudgetInv
  BY DEF MetadataInv
<1>1. MetadataTyped'
  BY <1>0 DEF Lose, MetadataTyped, sourceVars, wireVars, hubVars, countVars
<1>2. OrderInv'
  BY <1>0 DEF Lose, OrderInv, WireOrdered, MetaOrdered, HeldUpTo, PubOrdered, sourceVars, wireVars,
              hubVars
<1>3. NotMade' /\ BudgetInv'
  BY <1>0 DEF Lose, NotMade, Untouched, BudgetInv, wireVars, hubVars, countVars
<1> QED BY <1>1, <1>2, <1>3 DEF MetadataInv

LEMMA SendMoves == ASSUME MetadataInv, NEW c \in Conns, Send(c) PROVE MetadataInv'
<1> USE MetadataRanges
<1>0. MetadataTyped /\ NotMade /\ OrderInv /\ BudgetInv
  BY DEF MetadataInv
<1>1. /\ pub[c] \in PubType /\ pub[c].pc = "send" /\ notify \in BOOLEAN /\ rejectCh \in BOOLEAN
      /\ UNCHANGED <<sourceVars, notify, rejectCh, lastId, cur, toSpoke, hubVars, notified>>
      /\ Retries \in Nat
  BY <1>0 DEF Send, MetadataTyped
<1>2. CASE pub' = [pub EXCEPT ![c].pc = "over"] /\ up' = up \ {c} /\ UNCHANGED <<sends, toHub>>
  <2> DEFINE q == [pub[c] EXCEPT !.pc = "over"]
  <2>1. pub' = [pub EXCEPT ![c] = q]
    BY <1>2
  <2>2. q \in PubType
    BY <1>1, PubGoesOn
  <2>3. q.last = pub[c].last /\ q.pc = "over" /\ q.retries = pub[c].retries /\ q.timer = pub[c].timer
    BY <1>1 DEF PubType
  <2> HIDE DEF q
  <2>4. Due(q) <= Due(pub[c])
    BY <1>1, <2>3 DEF Due, PubType
  <2>5. UNCHANGED <<sourceVars, cur, wireVars, sends>> /\ up' \subseteq up
    BY <1>1, <1>2 DEF wireVars
  <2> QED BY <1>1, <2>1, <2>2, <2>3, <2>4, <2>5, PublisherMoves
<1>3. CASE /\ pub' = [pub EXCEPT ![c] = [Clean(@) EXCEPT !.last = pub[c].body]]
           /\ sends' = [sends EXCEPT ![c] = @ + 1]
           /\ toHub' = IF c \in up
                         THEN [toHub EXCEPT ![c] = Append(@, [id |-> <<c, sends[c] + 1>>,
                                                              body |-> pub[c].body])]
                         ELSE toHub
           /\ UNCHANGED up
  <2> DEFINE q == [Clean(pub[c]) EXCEPT !.last = pub[c].body]
  <2> DEFINE b == pub[c].body
  <2>1. pub' = [pub EXCEPT ![c] = q]
    BY <1>3
  <2>2. /\ b \in Versions /\ b <= content /\ content \in Nat /\ b \in Nat
        /\ pub[c].last # NoVersion => pub[c].last <= b
        /\ pub[c].last \in Versions \cup {NoVersion}
    BY <1>0, <1>1 DEF OrderInv, PubOrdered, MetadataTyped, PubType
  <2>0. pub[c].last \in Nat /\ meta[c] \in Nat /\ hand[c] \in Nat
    <3>1. {meta[c], hand[c]} \subseteq (Versions \ Bad) \cup {NoVersion}
      BY <1>0 DEF MetadataTyped
    <3> QED BY <2>2, <3>1
  <2>3. q \in PubType
    BY <1>1, <2>2, CleanSays DEF PubType
  <2>4. q.last = b /\ q.pc = "select" /\ Due(q) = Due(Clean(pub[c]))
    <3>1. /\ q.last = b /\ q.pc = Clean(pub[c]).pc /\ q.retries = Clean(pub[c]).retries
          /\ q.timer = Clean(pub[c]).timer
      BY <1>1, CleanSays DEF PubType
    <3>2. q.pc = "select"
      BY <3>1, <1>1, CleanSays
    <3> QED BY <3>1, <3>2 DEF Due
  <2>5. Due(q) + 1 = Due(pub[c]) /\ Due(q) \in Nat
    BY <2>3, <2>4, <1>1, CleanSays, DueNat
  <2> HIDE DEF q
  <2> DEFINE s == [id |-> <<c, sends[c] + 1>>, body |-> b]
  <2>6. s \in Snapshots /\ s.body = b
    BY <1>0, <2>2 DEF Snapshots, MetadataTyped
  <2>7. toHub'[c] = toHub[c] \/ toHub'[c] = Append(toHub[c], s)
    BY <1>3, <1>0 DEF MetadataTyped
  <2> HIDE DEF s
  <2>8. /\ toHub[c] \in Seq(Snapshots) /\ toHub'[c] \in Seq(Snapshots)
        /\ \A i \in DOMAIN toHub'[c] :
             \/ i \in DOMAIN toHub[c] /\ toHub'[c][i] = toHub[c][i]
             \/ toHub'[c][i].body = b /\ \A j \in DOMAIN toHub'[c] : j <= i
    <3>1. toHub[c] \in Seq(Snapshots)
      BY <1>0 DEF MetadataTyped
    <3>2. CASE toHub'[c] = toHub[c]
      BY <3>1, <3>2
    <3>3. CASE toHub'[c] = Append(toHub[c], s)
      <4>1. /\ toHub'[c] \in Seq(Snapshots) /\ DOMAIN toHub[c] = 1 .. Len(toHub[c])
            /\ DOMAIN toHub'[c] = 1 .. Len(toHub[c]) + 1 /\ Len(toHub[c]) \in Nat
            /\ toHub'[c][Len(toHub[c]) + 1] = s
            /\ \A i \in 1 .. Len(toHub[c]) : toHub'[c][i] = toHub[c][i]
        BY <3>1, <3>3, <2>6
      <4>2. ASSUME NEW i \in DOMAIN toHub'[c]
            PROVE  \/ i \in DOMAIN toHub[c] /\ toHub'[c][i] = toHub[c][i]
                   \/ toHub'[c][i].body = b /\ \A j \in DOMAIN toHub'[c] : j <= i
        BY <4>1, <2>6
      <4> QED BY <3>1, <4>1, <4>2
    <3> QED BY <2>7, <3>2, <3>3
  <2>9. MetadataTyped'
    <3>1. sends' \in [Conns -> Nat]
      BY <1>0, <1>3 DEF MetadataTyped
    <3>3. pub' \in [Conns -> PubType]
      BY <1>0, <2>1, <2>3 DEF MetadataTyped
    <3>2. toHub' \in [Conns -> Seq(Snapshots)]
      BY <1>0, <1>3, <2>8 DEF MetadataTyped
    <3> QED BY <1>0, <1>1, <1>3, <3>1, <3>2, <3>3 DEF MetadataTyped, sourceVars, hubVars
  <2>10. pub'[c] = q /\ sends'[c] = sends[c] + 1 /\ OthersAlone(c)
    BY <1>0, <1>1, <1>3, <2>1 DEF OthersAlone, Alone, MetadataTyped, hubVars
  <2>11. WireOrdered(c)'
    <3>1. /\ WireOrdered(c) /\ MetaOrdered(c) /\ b # NoVersion
          /\ meta'[c] = meta[c] /\ hand'[c] = hand[c]
      BY <1>0, <1>1, <2>2 DEF OrderInv, hubVars
    <3>2. ASSUME NEW i \in DOMAIN toHub'[c]
          PROVE  /\ toHub'[c][i].body <= b /\ toHub'[c][i].body \in Nat
                 /\ HeldUpTo(c, toHub'[c][i].body)
      <4>1. CASE i \in DOMAIN toHub[c] /\ toHub'[c][i] = toHub[c][i]
        <5>1. /\ toHub[c][i].body <= pub[c].last /\ pub[c].last # NoVersion
              /\ HeldUpTo(c, toHub[c][i].body)
          BY <3>1, <4>1 DEF WireOrdered
        <5>2. toHub[c][i].body \in Nat /\ pub[c].last \in Nat
          <6>1. toHub[c][i] \in Snapshots
            BY <2>8, <4>1
          <6>2. toHub[c][i].body \in Versions
            BY <6>1 DEF Snapshots
          <6> QED BY <2>0, <6>2
        <5> QED BY <5>1, <5>2, <4>1, <2>2
      <4>2. CASE toHub'[c][i].body = b
        <5>1. HeldUpTo(c, b)
          BY <3>1, <2>0, <2>2 DEF MetaOrdered, HeldUpTo
        <5> QED BY <4>2, <5>1, <2>2
      <4> QED BY <2>8, <4>1, <4>2
    <3>3. ASSUME NEW i \in DOMAIN toHub'[c], NEW j \in DOMAIN toHub'[c], i <= j
          PROVE  toHub'[c][i].body <= toHub'[c][j].body
      <4>1. CASE j \in DOMAIN toHub[c] /\ toHub'[c][j] = toHub[c][j]
        <5>1. i \in DOMAIN toHub[c] /\ toHub'[c][i] = toHub[c][i]
          BY <3>3, <4>1, <2>6, <2>7, <2>8
        <5> QED BY <5>1, <4>1, <3>1, <3>3 DEF WireOrdered
      <4>2. CASE toHub'[c][j].body = b
        BY <4>2, <3>2
      <4> QED BY <2>8, <4>1, <4>2
    <3> QED BY <3>1, <3>2, <3>3, <2>10, <2>4 DEF WireOrdered, HeldUpTo
  <2>12. MetaOrdered(c)' /\ PubOrdered(c)'
    <3>1. /\ MetaOrdered(c) /\ b # NoVersion /\ content' = content
          /\ meta'[c] = meta[c] /\ hand'[c] = hand[c]
      BY <1>0, <1>1, <2>2 DEF OrderInv, MetadataTyped, sourceVars, hubVars
    <3>2. HeldUpTo(c, b)
      BY <3>1, <2>0, <2>2 DEF MetaOrdered, HeldUpTo
    <3> QED BY <3>1, <3>2, <2>2, <2>4, <2>10 DEF MetaOrdered, HeldUpTo, PubOrdered
  <2>13. sends'[c] + Due(pub'[c]) <= Budget(notified'[c])
    <3>1. /\ sends[c] + Due(pub[c]) <= Budget(notified[c]) /\ notified'[c] = notified[c]
          /\ sends[c] \in Nat /\ Due(pub[c]) \in Nat
      BY <1>0, <1>1, DueNat DEF BudgetInv, MetadataTyped
    <3>2. sends'[c] + Due(pub'[c]) = sends[c] + Due(pub[c])
      BY <3>1, <2>5, <2>10
    <3> QED BY <3>1, <3>2
  <2>14. content' >= content /\ cur' = cur /\ c <= cur'
    BY <1>0, <1>1 DEF MetadataTyped, sourceVars, NotMade
  <2> QED BY <2>9, <2>10, <2>11, <2>12, <2>13, <2>14, OneStepKeeps
<1> QED BY <1>2, <1>3 DEF Send

LEMMA ReceiveMoves == ASSUME MetadataInv, NEW c \in Conns, Receive(c) PROVE MetadataInv'
<1> USE MetadataRanges
<1>0. MetadataTyped /\ NotMade /\ OrderInv /\ BudgetInv
  BY DEF MetadataInv
<1> DEFINE s == toHub[c]
<1> DEFINE b == Head(s).body
<1>1. /\ s \in Seq(Snapshots) /\ s # <<>> /\ toHub' = [toHub EXCEPT ![c] = Tail(s)]
      /\ Accept(c, b) /\ hand[c] = NoVersion
      /\ UNCHANGED <<sourceVars, notify, rejectCh, lastId, cur, up, pub, open, meta, countVars>>
  BY <1>0 DEF Receive, Accept, MetadataTyped
<1>2. /\ Len(s) \in Nat \ {0} /\ Head(s) = s[1] /\ s[1] \in Snapshots /\ DOMAIN s = 1 .. Len(s)
      /\ Tail(s) \in Seq(Snapshots) /\ DOMAIN Tail(s) = 1 .. Len(s) - 1
      /\ \A i \in 1 .. Len(s) - 1 : Tail(s)[i] = s[i + 1]
  <2>1. Len(s) \in Nat \ {0} /\ Head(s) = s[1] /\ s[1] \in Snapshots /\ DOMAIN s = 1 .. Len(s)
    BY <1>1
  <2>2. /\ Tail(s) \in Seq(Snapshots) /\ Len(Tail(s)) = Len(s) - 1
        /\ \A i \in 1 .. Len(Tail(s)) : Tail(s)[i] = s[i + 1]
    BY <1>1, HeadTailProperties
  <2> QED BY <2>1, <2>2
<1>3. b \in Versions /\ b \in Nat /\ b = s[1].body
  BY <1>2 DEF Snapshots
<1>4. /\ toHub'[c] = Tail(s) /\ OthersAlone(c)
      /\ hand'[c] \in {NoVersion, b}
      /\ hand' \in [Conns -> (Versions \ Bad) \cup {NoVersion}]
  <2>1. toHub'[c] = Tail(s) /\ \A d \in Conns \ {c} : toHub'[d] = toHub[d]
    BY <1>0, <1>1 DEF MetadataTyped
  <2>2. CASE b \in Bad
    BY <2>1, <2>2, <1>0, <1>1 DEF MetadataTyped, Accept, OthersAlone, Alone, countVars
  <2>3. CASE b \notin Bad
    <3>1. hand' = [hand EXCEPT ![c] = b]
      BY <2>3, <1>1 DEF Accept
    <3>2. hand' \in [Conns -> (Versions \ Bad) \cup {NoVersion}]
      BY <3>1, <2>3, <1>0, <1>3 DEF MetadataTyped
    <3>3. hand'[c] = b /\ \A d \in Conns \ {c} : hand'[d] = hand[d]
      BY <3>1, <1>0 DEF MetadataTyped
    <3>4. OthersAlone(c)
      BY <3>3, <2>1, <1>1 DEF OthersAlone, Alone, countVars
    <3> QED BY <2>1, <2>3, <3>2, <3>3, <3>4
  <2> QED BY <2>2, <2>3
<1>5. toSpoke' \in [Conns -> Seq(Nat \X Nat)]
  <2>1. Head(s).id \in Nat \X Nat
    BY <1>2 DEF Snapshots
  <2>2. toSpoke' = toSpoke \/ toSpoke' = [toSpoke EXCEPT ![c] = Append(@, Head(s).id)]
    BY DEF Receive
  <2>3. toSpoke[c] \in Seq(Nat \X Nat)
    BY <1>0 DEF MetadataTyped
  <2>4. Append(toSpoke[c], Head(s).id) \in Seq(Nat \X Nat)
    BY <2>1, <2>3
  <2> QED BY <2>2, <2>4, <1>0 DEF MetadataTyped
<1>6. MetadataTyped'
  <2>1. toHub' \in [Conns -> Seq(Snapshots)]
    BY <1>0, <1>1, <1>2 DEF MetadataTyped
  <2> QED BY <2>1, <1>0, <1>1, <1>4, <1>5 DEF MetadataTyped, sourceVars, countVars
<1>7. /\ \A i, j \in 1 .. Len(s) : i <= j => s[i].body <= s[j].body
      /\ \A i \in 1 .. Len(s) :
           /\ pub[c].last # NoVersion /\ s[i].body <= pub[c].last
           /\ meta[c] # NoVersion => meta[c] <= s[i].body
  BY <1>0, <1>2 DEF OrderInv, WireOrdered, HeldUpTo
<1> HIDE DEF b, s
<1>8. WireOrdered(c)'
  <2>1. ASSUME NEW i \in 1 .. Len(s) - 1
        PROVE  /\ toHub'[c][i] = s[i + 1] /\ i + 1 \in 1 .. Len(s) /\ 1 \in 1 .. Len(s)
               /\ b <= s[i + 1].body
    BY <1>2, <1>3, <1>4, <1>7
  <2>2. DOMAIN toHub'[c] = 1 .. Len(s) - 1 /\ pub'[c] = pub[c]
    BY <1>1, <1>2, <1>4
  <2>3. ASSUME NEW i \in 1 .. Len(s) - 1, NEW j \in 1 .. Len(s) - 1, i <= j
        PROVE  toHub'[c][i].body <= toHub'[c][j].body
    BY <2>1, <2>3, <1>2, <1>7
  <2>4. ASSUME NEW i \in 1 .. Len(s) - 1
        PROVE  /\ pub[c].last # NoVersion /\ toHub'[c][i].body <= pub[c].last
               /\ meta[c] # NoVersion => meta[c] <= toHub'[c][i].body
               /\ hand'[c] # NoVersion => hand'[c] <= toHub'[c][i].body
    BY <2>1, <1>4, <1>7
  <2> QED BY <2>2, <2>3, <2>4, <1>1 DEF WireOrdered, HeldUpTo
<1>9. MetaOrdered(c)'
  <2>1. MetaOrdered(c) /\ pub'[c] = pub[c]
    BY <1>0, <1>1 DEF OrderInv
  <2>2. b <= pub[c].last /\ pub[c].last # NoVersion
    BY <1>2, <1>3, <1>7
  <2>3. meta[c] # NoVersion => meta[c] <= b
    BY <1>2, <1>3, <1>7
  <2> QED BY <2>1, <2>2, <2>3, <1>1, <1>4 DEF MetaOrdered, HeldUpTo
<1>10. PubOrdered(c)'
  BY <1>0, <1>1 DEF OrderInv, PubOrdered, sourceVars
<1>11. sends'[c] + Due(pub'[c]) <= Budget(notified'[c])
  BY <1>0, <1>1 DEF BudgetInv, countVars
<1>12. content' >= content /\ cur' = cur /\ c <= cur'
  <2>1. c <= cur
    BY <1>0, <1>1, <1>2 DEF MetadataTyped, NotMade, Untouched, s
  <2> QED BY <2>1, <1>0, <1>1 DEF MetadataTyped, sourceVars
<1> QED BY <1>4, <1>6, <1>8, <1>9, <1>10, <1>11, <1>12, OneStepKeeps

LEMMA HandleRejectMoves ==
  ASSUME MetadataInv, NEW c \in Conns, HandleReject(c) PROVE MetadataInv'
<1> USE MetadataRanges
<1>0. MetadataTyped /\ NotMade /\ OrderInv /\ BudgetInv
  BY DEF MetadataInv
<1>1. MetadataTyped'
  <2>1. toSpoke[c] \in Seq(Nat \X Nat) /\ toSpoke[c] # <<>>
    BY <1>0 DEF HandleReject, MetadataTyped
  <2>2. Tail(toSpoke[c]) \in Seq(Nat \X Nat)
    BY <2>1
  <2>3. toSpoke' \in [Conns -> Seq(Nat \X Nat)]
    BY <1>0, <2>2 DEF HandleReject, MetadataTyped
  <2>4. rejectCh' \in BOOLEAN
    BY DEF HandleReject
  <2> QED BY <1>0, <2>3, <2>4 DEF HandleReject, MetadataTyped, sourceVars, hubVars, countVars
<1>2. OrderInv'
  BY <1>0 DEF HandleReject, OrderInv, WireOrdered, MetaOrdered, HeldUpTo, PubOrdered, sourceVars,
              hubVars
<1>3. NotMade' /\ BudgetInv'
  BY <1>0 DEF HandleReject, NotMade, Untouched, BudgetInv, hubVars, countVars
<1> QED BY <1>1, <1>2, <1>3 DEF MetadataInv

LEMMA ReplaceMoves ==
  ASSUME MetadataInv, NEW c \in Conns, ReplaceMetadata(c) PROVE MetadataInv'
<1> USE MetadataRanges
<1>0. MetadataTyped /\ NotMade /\ OrderInv /\ BudgetInv
  BY DEF MetadataInv
<1>1. /\ hand[c] # NoVersion /\ hand[c] \in Versions \ Bad
      /\ meta'[c] = hand[c] /\ hand'[c] = NoVersion
      /\ UNCHANGED <<sourceVars, notify, rejectCh, lastId, cur, up, pub, open, toHub, toSpoke, countVars>>
  BY <1>0 DEF ReplaceMetadata, MetadataTyped
<1>2. MetadataTyped' /\ OthersAlone(c)
  <2>1. meta' \in [Conns -> (Versions \ Bad) \cup {NoVersion}]
    BY <1>0, <1>1 DEF ReplaceMetadata, MetadataTyped
  <2>2. hand' \in [Conns -> (Versions \ Bad) \cup {NoVersion}]
    BY <1>0 DEF ReplaceMetadata, MetadataTyped
  <2>3. \A d \in Conns \ {c} : meta'[d] = meta[d] /\ hand'[d] = hand[d]
    BY <1>0 DEF ReplaceMetadata, MetadataTyped
  <2> QED BY <2>1, <2>2, <2>3, <1>0, <1>1
          DEF MetadataTyped, OthersAlone, Alone, sourceVars, countVars
<1>3. WireOrdered(c)' /\ MetaOrdered(c)' /\ PubOrdered(c)'
  BY <1>0, <1>1 DEF OrderInv, WireOrdered, MetaOrdered, HeldUpTo, PubOrdered, sourceVars
<1>4. sends'[c] + Due(pub'[c]) <= Budget(notified'[c])
  BY <1>0, <1>1 DEF BudgetInv, countVars
<1>5. content' >= content /\ cur' = cur /\ c <= cur'
  BY <1>0, <1>1 DEF MetadataTyped, NotMade, Untouched, sourceVars
<1> QED BY <1>2, <1>3, <1>4, <1>5, OneStepKeeps

LEMMA EndSessionMoves ==
  ASSUME MetadataInv, NEW c \in Conns, EndSession(c) PROVE MetadataInv'
<1> USE MetadataRanges
<1>0. MetadataTyped /\ NotMade /\ OrderInv /\ BudgetInv
  BY DEF MetadataInv
<1>1. /\ UNCHANGED <<sourceVars, notify, rejectCh, lastId, cur, pub, toHub, toSpoke, hand, countVars>>
      /\ open' = open \ {c} /\ up' = up \ {c} /\ meta' = [meta EXCEPT ![c] = NoVersion]
  BY DEF EndSession
<1>2. \A d \in Conns : Alone(d)
  BY <1>0, <1>1 DEF Alone, MetadataTyped, countVars
<1>3. MetadataTyped'
  <2>1. meta' \in [Conns -> (Versions \ Bad) \cup {NoVersion}]
    BY <1>0, <1>1 DEF MetadataTyped
  <2> QED BY <2>1, <1>0, <1>1 DEF MetadataTyped, sourceVars, countVars
<1>4. content' >= content /\ content' \in Versions /\ cur' = cur
  BY <1>0, <1>1 DEF MetadataTyped, sourceVars
<1>5. OrderInv' /\ BudgetInv'
  BY <1>2, <1>4, AloneKeeps DEF OrderInv, BudgetInv
<1>6. NotMade'
  BY <1>2, <1>4, AloneKeeps DEF NotMade
<1> QED BY <1>3, <1>5, <1>6 DEF MetadataInv

LEMMA MetadataInductive == MetadataInv /\ [MetadataNext]_metadataVars => MetadataInv'
<1> SUFFICES ASSUME MetadataInv, [MetadataNext]_metadataVars PROVE MetadataInv'
  OBVIOUS
<1>1. CASE UNCHANGED metadataVars
  BY <1>1 DEF metadataVars, sourceVars, wireVars, hubVars, countVars, MetadataInv, MetadataTyped,
              NotMade, Untouched, OrderInv, WireOrdered, MetaOrdered, HeldUpTo, PubOrdered, BudgetInv
<1>2. CASE Change \/ Notify
  BY <1>2, SourceMoves
<1>3. CASE Connect
  BY <1>3, ConnectMoves
<1>4. ASSUME NEW c \in Conns, Lose(c) PROVE MetadataInv'
  BY <1>4, LoseMoves
<1>5. ASSUME NEW c \in Conns, Publisher(c) PROVE MetadataInv'
  BY <1>5, PublishMoves, SendMoves, DisconnectedMoves, NotifiedMoves, RejectedMoves, TimerFiresMoves
  DEF Publisher
<1>6. ASSUME NEW c \in Conns,
             Receive(c) \/ HandleReject(c) \/ ReplaceMetadata(c) \/ EndSession(c)
      PROVE  MetadataInv'
  BY <1>6, ReceiveMoves, HandleRejectMoves, ReplaceMoves, EndSessionMoves
<1> QED BY <1>1, <1>2, <1>3, <1>4, <1>5, <1>6 DEF MetadataNext

LEMMA MetadataInvariant == MetadataSpec => []MetadataInv
BY MetadataInitially, MetadataInductive, PTL DEF MetadataSpec

\* For any number of connections, one of them ending while the next publishes, and
\* however they share the channels that wake them: what each holds is in range, a version
\* the hub rejects never becomes a session's metadata, and no publisher sends more than a
\* snapshot and its retries for every change it was told of.
THEOREM PublishersBounded == MetadataSpec => []PublisherBounded
<1>1. MetadataInv => PublisherBounded
  <2> SUFFICES ASSUME MetadataInv PROVE PublisherBounded
    OBVIOUS
  <2> USE MetadataRanges
  <2>0. MetadataTyped /\ BudgetInv
    BY DEF MetadataInv
  <2>1. MetadataTypeOK
    <3>1. notifying \in 0 .. MaxChanges
      BY <2>0 DEF MetadataTyped, Versions
    <3>2. ASSUME NEW c \in Conns
          PROVE  /\ pub[c].pc \in {"off", "publish", "send", "select", "over"}
                 /\ pub[c].last \in Versions \cup {NoVersion}
                 /\ pub[c].retries \in 0 .. Retries
                 /\ {hand[c], meta[c]} \subseteq (Versions \ Bad) \cup {NoVersion}
      BY <2>0 DEF MetadataTyped, PubType
    <3> QED BY <2>0, <3>1, <3>2 DEF MetadataTyped, MetadataTypeOK
  <2>2. SendsBounded
    <3>1. ASSUME NEW c \in Conns PROVE sends[c] <= (1 + notified[c]) * (1 + Retries)
      <4>1. /\ sends[c] \in Nat /\ Due(pub[c]) \in Nat /\ Budget(notified[c]) \in Nat
            /\ sends[c] + Due(pub[c]) <= Budget(notified[c])
        BY <2>0, DueNat, BudgetGrows DEF MetadataTyped, BudgetInv
      <4>2. sends[c] <= Budget(notified[c])
        BY <4>1
      <4> QED BY <4>2 DEF Budget
    <3> QED BY <3>1 DEF SendsBounded
  <2> QED BY <2>1, <2>2 DEF PublisherBounded
<1> QED BY <1>1, MetadataInvariant, PTL

\* However often the content changes, whatever the hub rejects, however late a snapshot
\* is sent and whenever a session is closed: the metadata of a session only moves on to
\* newer versions, and only the closing of the session clears it.
THEOREM MetadataNeverOlder == MetadataSpec => NeverOlder
<1> DEFINE MovesOn(c) == meta[c] # NoVersion =>
                           \/ meta'[c] # NoVersion /\ meta'[c] >= meta[c]
                           \/ c \in open /\ c \notin open' /\ meta'[c] = NoVersion
<1> DEFINE Step == \A c \in Conns : MovesOn(c)
<1>1. MetadataInv /\ [MetadataNext]_metadataVars => [Step]_metadataVars
  <2> SUFFICES ASSUME MetadataInv, MetadataNext PROVE Step
    OBVIOUS
  <2> USE MetadataRanges
  <2>0. MetadataTyped /\ OrderInv
    BY DEF MetadataInv
  <2>1. ASSUME NEW c \in Conns PROVE meta[c] \in Nat /\ hand[c] \in Nat
    <3>1. {meta[c], hand[c]} \subseteq (Versions \ Bad) \cup {NoVersion}
      BY <2>0 DEF MetadataTyped
    <3> QED BY <3>1
  <2>2. CASE meta' = meta
    BY <2>1, <2>2
  <2>3. CASE Change \/ Notify
    BY <2>2, <2>3 DEF Change, Notify, wireVars, hubVars
  <2>4. CASE Connect
    <3>1. /\ meta' = [d \in Conns |-> IF d \in open THEN NoVersion ELSE meta[d]]
          /\ open' = {cur + 1} /\ open \subseteq {cur} /\ cur \in Nat
      BY <2>0, <2>4 DEF Connect, MetadataTyped
    <3>2. \A d \in open : d \notin open'
      BY <3>1
    <3> QED BY <2>1, <3>1, <3>2
  <2>5. ASSUME NEW c \in Conns, ReplaceMetadata(c) PROVE Step
    <3>1. meta' = [meta EXCEPT ![c] = hand[c]] /\ hand[c] # NoVersion /\ meta \in [Conns -> Nat]
      BY <2>0, <2>5 DEF ReplaceMetadata, MetadataTyped
    <3>2. meta[c] # NoVersion => meta[c] <= hand[c]
      BY <2>0, <3>1 DEF OrderInv, MetaOrdered
    <3> QED BY <2>1, <3>1, <3>2
  <2>6. ASSUME NEW c \in Conns, EndSession(c) PROVE Step
    <3>1. /\ meta' = [meta EXCEPT ![c] = NoVersion] /\ meta \in [Conns -> Nat]
          /\ c \in open /\ open' = open \ {c}
      BY <2>0, <2>6 DEF EndSession, MetadataTyped
    <3> QED BY <2>1, <3>1
  <2>7. ASSUME NEW c \in Conns, Lose(c) \/ Publisher(c) \/ HandleReject(c) \/ Receive(c)
        PROVE  Step
    BY <2>2, <2>7 DEF Lose, Publisher, Publish, Send, Disconnected, Notified, Rejected, TimerFires,
                      HandleReject, Receive, Accept, wireVars, hubVars
  <2> QED BY <2>3, <2>4, <2>5, <2>6, <2>7 DEF MetadataNext
<1> QED BY <1>1, MetadataInvariant, PTL DEF MetadataSpec, NeverOlder

=============================================================================
