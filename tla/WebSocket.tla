----------------------------- MODULE WebSocket -----------------------------
(***************************************************************************)
(* WebSocketClient::Impl (src/src/ws.cpp): the queues of reads and sends   *)
(* over one Boost.Beast websocket stream, close and cancel.                *)
(*                                                                         *)
(* All of it runs on the strand m_ex, so every call and every completion   *)
(* of the stream is one action.  Handlers are posted, never called inline: *)
(* a completion is the moment its handler is posted.  The stream is        *)
(* external: it is "open" until a close, an error or cancel ends it, and   *)
(* what is asked of it afterwards fails.                                   *)
(***************************************************************************)
EXTENDS Naturals, Sequences, FiniteSets

CONSTANTS
  Reads,   \* calls of async_read, each made at most once
  Sends,   \* calls of async_send, each made at most once; also its message
  Closes   \* calls of async_close, each made at most once

VARIABLES
  m_read_queue, m_reading, m_cancelled, m_closing, m_sending, m_send_queue,
  stream,          \* "open" or "closed"
  reading,         \* reads handed to the stream and not completed
  writing,         \* <<message, first sender of its DrainOp>> being written
  closing,         \* closes handed to the stream and not completed
  \* History variables.
  read_calls,      \* reads accepted, in order
  issued,          \* reads handed to the stream, in order
  read_done,       \* how often each read completed
  send_calls,      \* messages passed to async_send, in order
  wire,            \* messages the stream wrote, in order
  send_done,       \* how often each send completed
  close_done,      \* how often each close completed
  write_failed     \* some write ended with an error

rVars == <<m_read_queue, m_reading, reading, read_calls, issued, read_done>>
wVars == <<m_sending, m_send_queue, writing, send_calls, wire, send_done,
           write_failed>>
cVars == <<m_closing, closing, close_done>>
vars == <<rVars, wVars, cVars, m_cancelled, stream>>

\* The types of the state; no handler is ever posted twice.
TypeOK ==
  /\ m_read_queue \in Seq(Reads) /\ read_calls \in Seq(Reads) /\ issued \in Seq(Reads)
  /\ m_send_queue \in Seq(Sends) /\ send_calls \in Seq(Sends) /\ wire \in Seq(Sends)
  /\ {m_reading, m_cancelled, m_closing, m_sending, write_failed} \subseteq BOOLEAN
  /\ stream \in {"open", "closed"}
  /\ reading \in SUBSET Reads
  /\ writing \in SUBSET (Sends \X Sends)
  /\ closing \in SUBSET Closes
  /\ read_done \in [Reads -> 0..1]
  /\ send_done \in [Sends -> 0..1]
  /\ close_done \in [Closes -> 0..1]

Init ==
  /\ m_read_queue = <<>> /\ m_reading = FALSE /\ reading = {}
  /\ read_calls = <<>> /\ issued = <<>> /\ read_done = [r \in Reads |-> 0]
  /\ m_sending = FALSE /\ m_send_queue = <<>> /\ writing = {}
  /\ send_calls = <<>> /\ wire = <<>> /\ send_done = [s \in Sends |-> 0]
  /\ write_failed = FALSE
  /\ m_closing = FALSE /\ closing = {} /\ close_done = [c \in Closes |-> 0]
  /\ m_cancelled = FALSE /\ stream = "open"

Elems(q) == {q[i] : i \in DOMAIN q}

\* done, with one more completion for every element of S.
Post(done, S) == [x \in DOMAIN done |-> done[x] + (IF x \in S THEN 1 ELSE 0)]

-----------------------------------------------------------------------------
(* Reads.                                                                  *)

NewRead(r) == read_done[r] = 0 /\ r \notin Elems(read_calls)

\* Mutation: takes the read that was queued last.
NextReadIsLast(q, fl) ==
  \/ /\ q = <<>>
     /\ m_read_queue' = <<>> /\ m_reading' = FALSE /\ reading' = fl
     /\ UNCHANGED issued
  \/ /\ q # <<>>
     /\ m_read_queue' = SubSeq(q, 1, Len(q) - 1) /\ m_reading' = TRUE
     /\ reading' = fl \cup {q[Len(q)]}
     /\ issued' = Append(issued, q[Len(q)])

\* start_next_read on the queue q with the reads fl in flight.  cancel
\* empties the queue and async_read fills it no more, so the check of
\* m_cancelled in this loop never finds a queued read.
start_next_read(q, fl) ==
  \/ /\ q = <<>>
     /\ m_read_queue' = <<>> /\ m_reading' = FALSE /\ reading' = fl
     /\ UNCHANGED issued
  \/ /\ q # <<>>
     /\ m_read_queue' = Tail(q) /\ m_reading' = TRUE
     /\ reading' = fl \cup {Head(q)}
     /\ issued' = Append(issued, Head(q))

ReadCancelled(r) ==
  /\ NewRead(r) /\ m_cancelled
  /\ read_done' = Post(read_done, {r})
  /\ UNCHANGED <<m_read_queue, m_reading, reading, read_calls, issued, wVars, cVars,
                 m_cancelled, stream>>

async_read(r) ==
  /\ NewRead(r) /\ ~m_cancelled
  /\ read_calls' = Append(read_calls, r)
  /\ \/ /\ m_reading
        /\ m_read_queue' = Append(m_read_queue, r)
        /\ UNCHANGED <<m_reading, reading, issued>>
     \/ ~m_reading /\ start_next_read(Append(m_read_queue, r), reading)
  /\ UNCHANGED <<read_done, wVars, cVars, m_cancelled, stream>>

\* Mutation: an error or a message does not start the next read.
ReadStopsQueue(r) ==
  /\ r \in reading
  /\ read_done' = Post(read_done, {r})
  /\ reading' = reading \ {r}
  /\ UNCHANGED <<m_read_queue, m_reading, issued, read_calls, wVars, cVars, m_cancelled>>

\* The stream completes a read with a message, or with an error that ends it.
ReadCompletes(r) ==
  /\ r \in reading
  /\ read_done' = Post(read_done, {r})
  /\ start_next_read(m_read_queue, reading \ {r})
  /\ UNCHANGED <<read_calls, wVars, cVars, m_cancelled>>

ReadMessage(r) == stream = "open" /\ ReadCompletes(r) /\ UNCHANGED stream

ReadError(r) == ReadCompletes(r) /\ stream' = "closed"

-----------------------------------------------------------------------------
(* Sends: the first sender's DrainOp writes until the queue is empty.      *)

NewSend(s) == s \notin Elems(send_calls)

\* Mutation: takes the message that was queued last.
StepTakesLast(q, f, others) ==
  \/ /\ q = <<>>
     /\ m_sending' = FALSE
     /\ m_send_queue' = <<>>
     /\ writing' = others
     /\ send_done' = Post(send_done, {f})
  \/ /\ q # <<>>
     /\ m_sending' = TRUE
     /\ m_send_queue' = SubSeq(q, 1, Len(q) - 1)
     /\ writing' = others \cup {<<q[Len(q)], f>>}
     /\ UNCHANGED send_done

\* DrainOp::step after a success, with the queue q and first sender f.
step(q, f, others) ==
  \/ /\ q = <<>>
     /\ m_sending' = FALSE
     /\ m_send_queue' = <<>>
     /\ writing' = others
     /\ send_done' = Post(send_done, {f})
  \/ /\ q # <<>>
     /\ m_sending' = TRUE
     /\ m_send_queue' = Tail(q)
     /\ writing' = others \cup {<<Head(q), f>>}
     /\ UNCHANGED send_done

\* Mutation: every send starts a drain of its own.
SendAlwaysDrains(s) ==
  /\ NewSend(s)
  /\ send_calls' = Append(send_calls, s)
  /\ step(Append(m_send_queue, s), s, writing)
  /\ UNCHANGED <<wire, write_failed, rVars, cVars, m_cancelled, stream>>

\* A send during a drain completes at once, before its message is written.
async_send(s) ==
  /\ NewSend(s)
  /\ send_calls' = Append(send_calls, s)
  /\ \/ /\ m_sending
        /\ m_send_queue' = Append(m_send_queue, s)
        /\ send_done' = Post(send_done, {s})
        /\ UNCHANGED <<m_sending, writing>>
     \/ ~m_sending /\ step(Append(m_send_queue, s), s, writing)
  /\ UNCHANGED <<wire, write_failed, rVars, cVars, m_cancelled, stream>>

\* Mutation: the drain ends after one message.
WriteDoneStops(w) ==
  /\ w \in writing /\ stream = "open"
  /\ wire' = Append(wire, w[1])
  /\ m_sending' = FALSE
  /\ writing' = writing \ {w}
  /\ send_done' = Post(send_done, {w[2]})
  /\ UNCHANGED <<m_send_queue, send_calls, write_failed, rVars, cVars, m_cancelled,
                 stream>>

WriteDone(w) ==
  /\ w \in writing /\ stream = "open"
  /\ wire' = Append(wire, w[1])
  /\ step(m_send_queue, w[2], writing \ {w})
  /\ UNCHANGED <<send_calls, write_failed, rVars, cVars, m_cancelled, stream>>

\* Mutation: the first sender is not told.
WriteErrorSilent(w) ==
  /\ w \in writing
  /\ writing' = writing \ {w}
  /\ m_sending' = FALSE
  /\ write_failed' = TRUE
  /\ stream' = "closed"
  /\ UNCHANGED <<send_done, m_send_queue, send_calls, wire, rVars, cVars, m_cancelled>>

\* The drain stops; messages still queued stay queued.
WriteError(w) ==
  /\ w \in writing
  /\ writing' = writing \ {w}
  /\ m_sending' = FALSE
  /\ send_done' = Post(send_done, {w[2]})
  /\ write_failed' = TRUE
  /\ stream' = "closed"
  /\ UNCHANGED <<m_send_queue, send_calls, wire, rVars, cVars, m_cancelled>>

-----------------------------------------------------------------------------
(* Close and cancel.                                                       *)

NewClose(c) == close_done[c] = 0 /\ c \notin closing

CloseInProgress(c) ==
  /\ NewClose(c) /\ m_closing
  /\ close_done' = Post(close_done, {c})
  /\ UNCHANGED <<m_closing, closing, rVars, wVars, m_cancelled, stream>>

async_close(c) ==
  /\ NewClose(c) /\ ~m_closing
  /\ m_closing' = TRUE
  /\ closing' = closing \cup {c}
  /\ UNCHANGED <<close_done, rVars, wVars, m_cancelled, stream>>

CloseCompletes(c) ==
  /\ c \in closing
  /\ m_closing' = FALSE
  /\ closing' = closing \ {c}
  /\ close_done' = Post(close_done, {c})
  /\ stream' = "closed"
  /\ UNCHANGED <<rVars, wVars, m_cancelled>>

\* cancel, also called by the destructor; calls may repeat.
cancel ==
  /\ m_cancelled' = TRUE
  /\ stream' = "closed"
  /\ read_done' = Post(read_done, Elems(m_read_queue))
  /\ m_read_queue' = <<>>
  /\ m_send_queue' = <<>>
  /\ UNCHANGED <<m_reading, reading, read_calls, issued, m_sending, writing,
                 send_calls, wire, send_done, write_failed, cVars>>

-----------------------------------------------------------------------------
ReadStep(r) == ReadMessage(r) \/ ReadError(r)
WriteStep == \E w \in writing : WriteDone(w) \/ WriteError(w)

Next ==
  \/ \E r \in Reads : async_read(r) \/ ReadCancelled(r) \/ ReadStep(r)
  \/ \E s \in Sends : async_send(s)
  \/ WriteStep
  \/ \E c \in Closes : async_close(c) \/ CloseInProgress(c) \/ CloseCompletes(c)
  \/ cancel

Spec == Init /\ [][Next]_vars

\* A write completes or fails with its connection, and a close does (Beast's
\* handshake timeout); a read need not complete while the stream is open, but it
\* fails on a stream that is closed.
Fairness ==
  /\ WF_vars(WriteStep)
  /\ \A c \in Closes : WF_vars(CloseCompletes(c))
  /\ \A r \in Reads : WF_vars(stream = "closed" /\ ReadError(r))

FairSpec == Spec /\ Fairness

-----------------------------------------------------------------------------
(* Properties.                                                             *)

\* What Beast demands of its user: at most one read, one write and one close
\* outstanding on a stream, although every caller may overlap with any other.
StreamContract ==
  Cardinality(reading) <= 1 /\ Cardinality(writing) <= 1 /\ Cardinality(closing) <= 1

\* Every read is queued, in flight or completed, and completes at most once,
\* however cancel and the completion of the read in flight interleave; and the
\* reads reach the stream in the order of the calls, so that the n-th message
\* goes to the n-th reader.
ReadsOnceInOrder ==
  /\ \A r \in Reads :
       (IF r \in Elems(m_read_queue) THEN 1 ELSE 0) + (IF r \in reading THEN 1 ELSE 0)
         + read_done[r] = IF NewRead(r) THEN 0 ELSE 1
  /\ \E n \in 0..Len(read_calls) : issued = SubSeq(read_calls, 1, n)

\* Messages are written in the order they were sent, also when a drain failed
\* and a later send resumed the queue it left.
WireInOrder ==
  \A i, j \in DOMAIN wire : i < j =>
    \E k, l \in DOMAIN send_calls :
      k < l /\ send_calls[k] = wire[i] /\ send_calls[l] = wire[j]

\* Messages lie in the queue with nobody to write them only after a write
\* failed: a drain that ends well leaves the queue empty.
StrandedOnlyAfterError == m_send_queue # <<>> /\ ~m_sending => write_failed

\* Every send is answered.
SendCompletes == \A s \in Sends : ~NewSend(s) ~> send_done[s] > 0

\* "All N must complete with error (not hang)": once a close was started,
\* every read that is pending then completes.
CloseEndsReads ==
  \A r \in Reads : (closing # {} \/ m_cancelled) /\ ~NewRead(r) ~> read_done[r] > 0
=============================================================================
