-------------------------- MODULE HttpConnection --------------------------
(***************************************************************************)
(* One HTTP connection (src/src/http.cpp, src/include/ekizu/http.hpp).     *)
(*                                                                         *)
(* connect_impl resolves, connects and shakes hands; every stage may fail, *)
(* and the caller's handler is called at the end.  After that, request and *)
(* cancel may be called on any thread: request posts to m_strand, cancel   *)
(* sets the atomic m_cancelled at once and posts cancel_on_strand.  The    *)
(* strand runs one handler at a time; `strand' says where it is when a     *)
(* handler acts after it read m_cancelled, reads it again or calls out to  *)
(* a completion handler, because another thread may set m_cancelled, or    *)
(* the completion handler may call back, in between.                       *)
(*                                                                         *)
(* The server answers the requests it received in order; `wire' holds the  *)
(* responses on their way.  An error of the stream (reset, end of stream,  *)
(* the 30 s timeout) leaves it closed.                                     *)
(***************************************************************************)
EXTENDS Naturals, Sequences, FiniteSets

CONSTANTS
  Requests,   \* the calls of request; each is made at most once
  None,
  Https       \* whether the scheme is https

ASSUME HttpNoneAssumption ==
  None \notin Requests \cup {"error", "cancelled"} /\ "cancel" \notin Requests
ASSUME HttpsAssumption == Https \in BOOLEAN

VARIABLES
  phase,                  \* of connect_impl: "idle" ... "up" or "failed"
  tasks,                  \* handlers posted to m_strand: requests or "cancel"
  strand,                 \* "free", or where the handler on it is
  m_queue,
  m_busy,
  m_cancelled,            \* atomic, set by any thread
  m_cancelled_on_strand,
  op,                     \* the RequestOp in progress, or None
  stream,                 \* "open" or "closed"
  wire,                   \* responses on their way
  called,                 \* requests made (history)
  verdict,                \* what finish is about to hand over, or None
  result,                 \* what each completion handler was given (history)
  late                    \* who was given a response or an error after cancel (history)

vars == <<phase, tasks, strand, m_queue, m_busy, m_cancelled, m_cancelled_on_strand,
          op, stream, wire, called, verdict, result, late>>

Phase == {"idle", "resolving", "connecting", "handshaking", "up", "failed"}

\* A RequestOp: a write or read in progress, or one that completed and whose
\* handler is queued on the strand.
Op == [req : Requests, pc : {"writing", "written", "reading", "failed"}]
        \cup [req : Requests, pc : {"answered"}, res : Requests]

ASSUME NoOpAssumption == None \notin Op

TypeOK ==
  /\ phase \in Phase
  /\ tasks \in Seq(Requests \cup {"cancel"})
  /\ strand \in {"free", "start_next", "telling", "finish"}
  /\ m_queue \in Seq(Requests)
  /\ m_busy \in BOOLEAN /\ m_cancelled \in BOOLEAN /\ m_cancelled_on_strand \in BOOLEAN
  /\ op \in Op \cup {None}
  /\ stream \in {"open", "closed"}
  /\ wire \in Seq(Requests)
  /\ called \in SUBSET Requests
  /\ verdict \in Requests \cup {None, "error", "cancelled"}
  /\ result \in [Requests -> Requests \cup {None, "error", "cancelled"}]
  /\ late \in SUBSET Requests

Init ==
  /\ phase = "idle" /\ tasks = <<>> /\ strand = "free"
  /\ m_queue = <<>> /\ m_busy = FALSE
  /\ m_cancelled = FALSE /\ m_cancelled_on_strand = FALSE
  /\ op = None /\ stream = "closed" /\ wire = <<>>
  /\ called = {} /\ verdict = None /\ result = [r \in Requests |-> None] /\ late = {}

requestVars == <<tasks, strand, m_queue, m_busy, m_cancelled, m_cancelled_on_strand, op,
                 wire, called, verdict, result, late>>

-----------------------------------------------------------------------------
(* connect_impl and Impl::async_run                                        *)

\* A URL that does not parse, a scheme that is not http or https, or a TLS
\* context that cannot be set up fails before anything is started.
Connect ==
  /\ phase = "idle"
  /\ phase' \in {"resolving", "failed"}
  /\ UNCHANGED <<stream, requestVars>>

Resolved ==
  /\ phase = "resolving"
  /\ phase' \in {"connecting", "failed"}
  /\ UNCHANGED <<stream, requestVars>>

\* With https the server name is set, which may fail, and the handshake follows.
TcpConnected ==
  /\ phase = "connecting"
  /\ phase' \in {IF Https THEN "handshaking" ELSE "up", "failed"}
  /\ stream' = IF phase' = "up" THEN "open" ELSE stream
  /\ UNCHANGED requestVars

Handshaken ==
  /\ phase = "handshaking"
  /\ phase' \in {"up", "failed"}
  /\ stream' = IF phase' = "up" THEN "open" ELSE stream
  /\ UNCHANGED requestVars

-----------------------------------------------------------------------------
(* request and cancel                                                      *)

\* request_impl from another thread: enqueue is posted.
Request(r) ==
  /\ phase = "up" /\ r \notin called
  /\ called' = called \cup {r}
  /\ tasks' = Append(tasks, r)
  /\ UNCHANGED <<phase, strand, m_queue, m_busy, m_cancelled, m_cancelled_on_strand, op,
                 stream, wire, verdict, result, late>>

\* Mutation: the flag is not looked at.
EnqueueAnyway(r) ==
  /\ strand' = "start_next"
  /\ m_queue' = Append(m_queue, r)
  /\ UNCHANGED result

\* The body of enqueue up to start_next.
enqueue(r) ==
  \/ /\ m_cancelled
     /\ result' = [result EXCEPT ![r] = "cancelled"]
     /\ UNCHANGED <<strand, m_queue>>
  \/ /\ ~m_cancelled
     /\ m_queue' = Append(m_queue, r)
     /\ strand' = "start_next"
     /\ UNCHANGED result

\* cancel_on_strand: answer what is queued, close the socket.  A stream
\* operation in progress is aborted; one that completed before stays completed.
cancel_on_strand ==
  /\ m_cancelled_on_strand' = TRUE
  /\ IF m_cancelled_on_strand
     THEN UNCHANGED <<m_queue, result, stream, op>>
     ELSE /\ m_queue' = <<>>
          /\ result' = [r \in Requests |->
                          IF \E i \in DOMAIN m_queue : m_queue[i] = r
                          THEN "cancelled" ELSE result[r]]
          /\ stream' = "closed"
          /\ op' = IF op # None /\ op.pc \in {"writing", "reading"}
                   THEN [op EXCEPT !.pc = "failed"] ELSE op

\* The strand runs the next posted handler.
RunEnqueue ==
  /\ strand = "free" /\ tasks # <<>> /\ Head(tasks) # "cancel"
  /\ tasks' = Tail(tasks)
  /\ enqueue(Head(tasks))
  /\ UNCHANGED <<phase, m_busy, m_cancelled, m_cancelled_on_strand, op, stream, wire, called,
                 verdict, late>>

RunCancel ==
  /\ strand = "free" /\ tasks # <<>> /\ Head(tasks) = "cancel"
  /\ tasks' = Tail(tasks)
  /\ cancel_on_strand
  /\ UNCHANGED <<phase, strand, m_busy, m_cancelled, wire, called, verdict, late>>

\* cancel, or the destructor, on another thread.  Only the first call counts.
Cancel ==
  /\ phase = "up" /\ ~m_cancelled
  /\ m_cancelled' = TRUE
  /\ tasks' = Append(tasks, "cancel")
  /\ UNCHANGED <<phase, strand, m_queue, m_busy, m_cancelled_on_strand, op, stream, wire,
                 called, verdict, result, late>>

\* Mutation: m_busy is not looked at.
StartAnotherRequest ==
  /\ strand = "start_next" /\ strand' = "free"
  /\ \/ /\ m_cancelled
        /\ cancel_on_strand
        /\ UNCHANGED m_busy
     \/ /\ ~m_cancelled /\ m_queue = <<>>
        /\ UNCHANGED <<m_queue, m_busy, op, m_cancelled_on_strand, result, stream>>
     \/ /\ ~m_cancelled /\ m_queue # <<>>
        /\ m_busy' = TRUE
        /\ m_queue' = Tail(m_queue)
        /\ op' = [req |-> Head(m_queue), pc |-> "writing"]
        /\ UNCHANGED <<m_cancelled_on_strand, result, stream>>
  /\ UNCHANGED <<phase, tasks, m_cancelled, wire, called, verdict, late>>

\* start_next, and RequestOp::start of the request it takes.
StartNext ==
  /\ strand = "start_next" /\ strand' = "free"
  /\ \/ /\ m_cancelled
        /\ cancel_on_strand
        /\ UNCHANGED m_busy
     \/ /\ ~m_cancelled /\ (m_busy \/ m_queue = <<>>)
        /\ UNCHANGED <<m_queue, m_busy, op, m_cancelled_on_strand, result, stream>>
     \/ /\ ~m_cancelled /\ ~m_busy /\ m_queue # <<>>
        /\ m_busy' = TRUE
        /\ m_queue' = Tail(m_queue)
        /\ op' = [req |-> Head(m_queue), pc |-> "writing"]
        /\ UNCHANGED <<m_cancelled_on_strand, result, stream>>
  /\ UNCHANGED <<phase, tasks, m_cancelled, wire, called, verdict, late>>

-----------------------------------------------------------------------------
(* The stream (Beast) and RequestOp                                        *)

StreamOp(pc) == op # None /\ op.pc = pc

SameButStream == UNCHANGED <<phase, tasks, strand, m_queue, m_busy, m_cancelled,
                             m_cancelled_on_strand, called, verdict, result, late>>

\* The write completes; the server will answer.
WriteDone ==
  /\ StreamOp("writing") /\ stream = "open"
  /\ op' = [op EXCEPT !.pc = "written"]
  /\ wire' = Append(wire, op.req)
  /\ UNCHANGED stream /\ SameButStream

\* The read takes the response that comes first.
ReadDone ==
  /\ StreamOp("reading") /\ stream = "open" /\ wire # <<>>
  /\ op' = [req |-> op.req, pc |-> "answered", res |-> Head(wire)]
  /\ wire' = Tail(wire)
  /\ UNCHANGED stream /\ SameButStream

\* A write or read fails: reset, end of stream, or 30 seconds have passed.
StreamFails ==
  /\ StreamOp("writing") \/ StreamOp("reading")
  /\ op' = [op EXCEPT !.pc = "failed"]
  /\ stream' = "closed"
  /\ UNCHANGED wire /\ SameButStream

\* RequestOp's write handler without an error: read.
OnWritten ==
  /\ strand = "free" /\ StreamOp("written")
  /\ op' = [op EXCEPT !.pc = IF stream = "open" THEN "reading" ELSE "failed"]
  /\ UNCHANGED <<stream, wire>> /\ SameButStream

\* Mutation: the flag is not looked at.
FinishWithoutLooking(res) == verdict' = res

\* What finish makes of the outcome when it looks at the flag.
finish(res) == verdict' = IF m_cancelled THEN "cancelled" ELSE res

\* finish starts: it loads m_cancelled, which another thread may set before the
\* outcome is handed over.
Finish ==
  /\ strand = "free" /\ strand' = "telling"
  /\ \/ StreamOp("answered") /\ finish(op.res)
     \/ StreamOp("failed") /\ finish("error")
  /\ UNCHANGED <<phase, tasks, m_queue, m_busy, m_cancelled, m_cancelled_on_strand, op,
                 stream, wire, called, result, late>>

\* It hands the outcome to the executor of the completion handler: from here on
\* the handler may run, and the strand has m_busy = false and start_next left
\* to do.
Tell ==
  /\ strand = "telling" /\ strand' = "finish"
  /\ result' = [result EXCEPT ![op.req] = verdict]
  /\ late' = IF m_cancelled /\ verdict # "cancelled" THEN late \cup {op.req} ELSE late
  /\ op' = None /\ verdict' = None
  /\ UNCHANGED <<phase, tasks, m_queue, m_busy, m_cancelled, m_cancelled_on_strand,
                 stream, wire, called>>

\* A completion handler that runs inside finish makes another request: enqueue
\* runs inline, and its start_next finds m_busy set (or cancels, as the
\* start_next after it does).
HandlerRequests(r) ==
  /\ strand = "finish" /\ r \notin called
  /\ called' = called \cup {r}
  /\ \/ /\ m_cancelled
        /\ result' = [result EXCEPT ![r] = "cancelled"]
        /\ UNCHANGED m_queue
     \/ /\ ~m_cancelled
        /\ m_queue' = Append(m_queue, r)
        /\ UNCHANGED result
  /\ UNCHANGED <<phase, tasks, strand, m_busy, m_cancelled, m_cancelled_on_strand, op,
                 stream, wire, verdict, late>>

\* It drops the connection: cancel and cancel_on_strand run inline.
HandlerCancels ==
  /\ strand = "finish" /\ ~m_cancelled
  /\ m_cancelled' = TRUE
  /\ cancel_on_strand
  /\ UNCHANGED <<phase, tasks, strand, m_busy, wire, called, verdict, late>>

\* The rest of finish.
Finished ==
  /\ strand = "finish"
  /\ m_busy' = FALSE
  /\ strand' = "start_next"
  /\ UNCHANGED <<phase, tasks, m_queue, m_cancelled, m_cancelled_on_strand, op, stream,
                 wire, called, verdict, result, late>>

StrandRuns == RunEnqueue \/ RunCancel \/ StartNext \/ OnWritten \/ Finish \/ Tell \/ Finished

Next ==
  \/ Connect \/ Resolved \/ TcpConnected \/ Handshaken
  \/ \E r \in Requests : Request(r) \/ HandlerRequests(r)
  \/ Cancel \/ HandlerCancels
  \/ WriteDone \/ ReadDone \/ StreamFails
  \/ StrandRuns

Spec == Init /\ [][Next]_vars

\* The strand runs what is queued on it, and a stream operation completes (its
\* timeout sees to it).
Fairness == WF_vars(StrandRuns) /\ WF_vars(WriteDone \/ ReadDone \/ StreamFails)

FairSpec == Spec /\ Fairness

-----------------------------------------------------------------------------
(* Properties.                                                             *)

\* A completion handler gets the response to its own request: no two requests
\* are on the stream at once, whatever is queued, cancelled or called back.
OwnResponse == \A r \in Requests : result[r] \in {r, None, "error", "cancelled"}

\* After cancel at most one request is still given a response or an error, the
\* one whose finish had looked at the flag before; and none once cancel_on_strand
\* has run, although its response may have arrived and wait for the strand.
CancelSticks == [][late' # late => late = {} /\ ~m_cancelled_on_strand]_vars

Service ==
  INSTANCE SerialService WITH
    pending <- (IF op # None THEN <<op.req>> ELSE <<>>) \o m_queue,
    answered <- {r \in Requests : result[r] # None},
    stopping <- m_cancelled,
    stopped <- m_cancelled_on_strand

\* The connection is a serial service: requests are answered one at a time in
\* the order they reached the strand, each exactly once and eventually, and a
\* cancel answers everything that is queued.
IsSerialService == Service!SSpec
=============================================================================
