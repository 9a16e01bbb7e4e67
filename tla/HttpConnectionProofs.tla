------------------------ MODULE HttpConnectionProofs ------------------------
(***************************************************************************)
(* Proofs about HttpConnection, for any set of requests: a handler gets    *)
(* the response to its own request, at most one request is given anything  *)
(* but a cancellation after a cancel, and every step is one of             *)
(* SerialService or changes nothing there.                                 *)
(***************************************************************************)
EXTENDS HttpConnection, TLAPS

-----------------------------------------------------------------------------
(* One request on the stream.                                              *)

ConnType ==
  /\ phase \in Phase
  /\ strand \in {"free", "start_next", "telling", "finish"}
  /\ tasks \in Seq(Requests \cup {"cancel"})
  /\ m_queue \in Seq(Requests)
  /\ m_busy \in BOOLEAN /\ m_cancelled \in BOOLEAN /\ m_cancelled_on_strand \in BOOLEAN
  /\ op \in Op \cup {None}
  /\ stream \in {"open", "closed"}
  /\ result \in [Requests -> Requests \cup {None, "error", "cancelled"}]

\* Nothing is asked of a connection before its handler was called.
IdleInv == phase # "up" => /\ op = None /\ stream = "closed" /\ strand = "free"
                           /\ tasks = <<>> /\ m_queue = <<>> /\ wire = <<>>

\* m_busy is set from start_next until after the completion handler, and what
\* is on its way on a stream that is still open is the response to the request
\* in progress, and only between its write and its read.
StreamInv ==
  /\ op # None => m_busy
  /\ strand = "finish" => op = None /\ m_busy
  /\ m_cancelled_on_strand => m_cancelled
  /\ stream = "open" =>
       wire = IF op # None /\ op.pc \in {"written", "reading"} THEN <<op.req>> ELSE <<>>
  /\ op # None /\ op.pc = "failed" => stream = "closed"
  /\ op # None /\ op.pc = "answered" => op.res = op.req

\* finish, once it looked at the flag, holds the outcome of the request in
\* progress; it was not a cancellation only if the flag was not set then, so
\* nobody was told anything late before, and cancel_on_strand waits for the strand.
TellInv ==
  /\ strand = "telling" =>
       /\ op # None /\ op.pc \in {"answered", "failed"}
       /\ verdict \in {op.req, "error", "cancelled"}
       /\ verdict # "cancelled" => late = {} /\ ~m_cancelled_on_strand
  /\ late # {} => m_cancelled

\* cancel_on_strand is posted by cancel, which set the flag before.
PostInv == \A i \in 1..Len(tasks) : tasks[i] = "cancel" => m_cancelled

HInv == ConnType /\ IdleInv /\ StreamInv /\ TellInv /\ OwnResponse /\ PostInv

\* A RequestOp that completes is a RequestOp again.
LEMMA OpFacts ==
  ASSUME op \in Op
  PROVE  /\ op # None => op.req \in Requests
         /\ op.req \in Requests
         /\ \A k \in {"writing", "written", "reading", "failed"} :
              /\ [req |-> op.req, pc |-> k] \in Op
              /\ op.pc # "answered" => [op EXCEPT !.pc = k] = [req |-> op.req, pc |-> k]
         /\ \A x \in Requests : [req |-> op.req, pc |-> "answered", res |-> x] \in Op
         /\ op.pc = "answered" => op.res \in Requests
         /\ op.pc \in {"writing", "written", "reading", "failed", "answered"}
BY DEF Op

LEMMA HInit == Init => HInv
<1> SUFFICES ASSUME Init PROVE HInv
  OBVIOUS
<1>1. <<>> \in Seq(Requests) /\ <<>> \in Seq(Requests \cup {"cancel"})
  OBVIOUS
<1>2. ConnType
  BY <1>1 DEF Init, ConnType, Phase
<1>3. IdleInv /\ StreamInv /\ TellInv /\ OwnResponse /\ PostInv
  BY DEF Init, IdleInv, StreamInv, TellInv, OwnResponse, PostInv
<1> QED BY <1>2, <1>3 DEF HInv

\* Only cancel posts cancel_on_strand.
LEMMA PostStep == HInv /\ [Next]_vars => PostInv'
<1> SUFFICES ASSUME HInv, [Next]_vars PROVE PostInv'
  OBVIOUS
<1>1. ConnType /\ PostInv
  BY DEF HInv
<1>2. m_cancelled => m_cancelled'
  BY DEF Next, StrandRuns, vars, Connect, Resolved, TcpConnected, Handshaken, Request,
     HandlerRequests, Cancel, HandlerCancels, WriteDone, ReadDone, StreamFails, RunEnqueue,
     RunCancel, StartNext, OnWritten, Finish, Tell, Finished, SameButStream, requestVars
<1>3. CASE UNCHANGED tasks
  BY <1>1, <1>2, <1>3 DEF PostInv
<1>4. ASSUME NEW r \in Requests, tasks' = Append(tasks, r) PROVE PostInv'
  BY <1>1, <1>2, <1>4, HttpNoneAssumption DEF PostInv, ConnType
<1>5. CASE Cancel
  BY <1>5 DEF Cancel, PostInv
<1>6. CASE tasks # <<>> /\ tasks' = Tail(tasks)
  BY <1>1, <1>2, <1>6 DEF PostInv, ConnType
<1> QED
  BY <1>3, <1>4, <1>5, <1>6 DEF Next, StrandRuns, vars, Connect, Resolved, TcpConnected,
     Handshaken, Request, HandlerRequests, HandlerCancels, WriteDone, ReadDone, StreamFails,
     RunEnqueue, RunCancel, StartNext, OnWritten, Finish, Tell, Finished, SameButStream, requestVars

\* cancel_on_strand answers the queued requests with a cancellation and ends
\* the stream; the request in progress keeps its place.
LEMMA CancelKeeps ==
  ASSUME HInv, PostInv', phase = "up", m_cancelled', cancel_on_strand,
         UNCHANGED <<phase, m_busy, wire, late>>,
         strand' \in {strand, "free"}, strand' = "finish" => strand = "finish",
         strand' # "telling",
         tasks' \in Seq(Requests \cup {"cancel"}), m_cancelled' \in BOOLEAN
  PROVE  HInv'
<1> USE HttpNoneAssumption
<1>1. CASE m_cancelled_on_strand
  <2>1. UNCHANGED <<m_queue, result, stream, op, m_cancelled_on_strand>>
    BY <1>1 DEF cancel_on_strand
  <2>2. ConnType' /\ IdleInv' /\ OwnResponse'
    BY <2>1 DEF HInv, ConnType, IdleInv, OwnResponse
  <2>3. StreamInv' /\ TellInv'
    BY <2>1 DEF HInv, StreamInv, TellInv
  <2> QED BY <2>2, <2>3 DEF HInv
<1>2. CASE ~m_cancelled_on_strand
  <2>1. /\ m_queue' = <<>> /\ stream' = "closed" /\ m_cancelled_on_strand' = TRUE
        /\ result' = [r \in Requests |-> IF \E i \in DOMAIN m_queue : m_queue[i] = r
                                         THEN "cancelled" ELSE result[r]]
        /\ op' = IF op # None /\ op.pc \in {"writing", "reading"}
                 THEN [op EXCEPT !.pc = "failed"] ELSE op
    BY <1>2 DEF cancel_on_strand
  <2>2. /\ op' \in Op \cup {None}
        /\ op' # None => op # None
        /\ op' # None /\ op'.pc = "answered" => op' = op
    BY <2>1, OpFacts DEF HInv, ConnType
  <2>3. result' \in [Requests -> Requests \cup {None, "error", "cancelled"}] /\ OwnResponse'
    BY <2>1 DEF HInv, ConnType, OwnResponse
  <2>4. m_queue' \in Seq(Requests)
    BY <2>1
  <2>5. ConnType'
    <3>1. strand' \in {"free", "start_next", "telling", "finish"} /\ m_busy' \in BOOLEAN /\ phase' \in Phase
      BY DEF HInv, ConnType
    <3> QED BY <2>1, <2>2, <2>3, <2>4, <3>1 DEF ConnType
  <2>6. IdleInv'
    BY DEF IdleInv
  <2>7. StreamInv' /\ TellInv'
    BY <2>1, <2>2 DEF HInv, StreamInv, TellInv
  <2> QED BY <2>3, <2>5, <2>6, <2>7 DEF HInv
<1> QED BY <1>1, <1>2 DEF HInv, ConnType

\* The step case, one handler at a time.
LEMMA HStep == HInv /\ [Next]_vars => HInv'
<1> SUFFICES ASSUME HInv, [Next]_vars PROVE HInv'
  OBVIOUS
<1> USE HttpNoneAssumption, PostStep
<1>a. ConnType /\ IdleInv /\ StreamInv /\ OwnResponse /\ TellInv
  BY DEF HInv
<1>b. ASSUME strand' # "telling", UNCHANGED late, m_cancelled => m_cancelled' PROVE TellInv'
  BY <1>a, <1>b DEF TellInv
<1>c. ASSUME UNCHANGED <<strand, op, verdict, late, m_cancelled_on_strand>>,
             m_cancelled => m_cancelled'
      PROVE  TellInv'
  BY <1>a, <1>c DEF TellInv
<1>1. CASE Connect \/ Resolved \/ TcpConnected \/ Handshaken
  <2>1. /\ phase' \in Phase /\ phase # "up" /\ UNCHANGED requestVars
        /\ stream' = IF phase' = "up" THEN "open" ELSE stream
    BY <1>1, <1>a DEF Connect, Resolved, TcpConnected, Handshaken, Phase, ConnType, IdleInv
  <2>2. TellInv'
    BY <2>1, <1>c DEF requestVars
  <2> QED BY <2>1, <2>2, <1>a DEF HInv, ConnType, IdleInv, StreamInv, OwnResponse, requestVars
<1>2. ASSUME NEW r \in Requests, Request(r) PROVE HInv'
  <2>1. Append(tasks, r) \in Seq(Requests \cup {"cancel"})
    BY <1>a DEF ConnType
  <2>2. TellInv'
    BY <1>2, <1>c DEF Request
  <2> QED BY <1>2, <1>a, <2>1, <2>2 DEF Request, HInv, ConnType, IdleInv, StreamInv, OwnResponse
<1>3. ASSUME NEW r \in Requests, HandlerRequests(r) PROVE HInv'
  <2>1. Append(m_queue, r) \in Seq(Requests)
    BY <1>a DEF ConnType
  <2>2. UNCHANGED <<phase, tasks, strand, m_busy, m_cancelled, m_cancelled_on_strand, op,
                    stream, wire, late>> /\ strand = "finish"
    BY <1>3 DEF HandlerRequests
  <2>3. /\ m_queue' \in Seq(Requests)
        /\ result' \in [Requests -> Requests \cup {None, "error", "cancelled"}]
        /\ OwnResponse'
    BY <1>3, <1>a, <2>1 DEF HandlerRequests, ConnType, OwnResponse
  <2>4. TellInv'
    BY <2>2, <1>b
  <2> QED BY <1>a, <2>2, <2>3, <2>4 DEF HInv, ConnType, IdleInv, StreamInv
<1>4. CASE Cancel
  <2>1. Append(tasks, "cancel") \in Seq(Requests \cup {"cancel"})
    BY <1>a DEF ConnType
  <2>2. TellInv'
    BY <1>4, <1>c DEF Cancel
  <2> QED BY <1>4, <1>a, <2>1, <2>2 DEF Cancel, HInv, ConnType, IdleInv, StreamInv, OwnResponse
<1>5. CASE HandlerCancels
  <2>1. phase = "up"
    BY <1>5, <1>a DEF HandlerCancels, IdleInv
  <2> QED BY <1>5, <1>a, <2>1, CancelKeeps DEF HandlerCancels, ConnType
<1>6. CASE WriteDone \/ ReadDone \/ StreamFails \/ OnWritten
  <2> USE DEF SameButStream, StreamOp
  <2>1. op \in Op /\ op # None /\ phase = "up"
    BY <1>6, <1>a DEF WriteDone, ReadDone, StreamFails, OnWritten, ConnType, IdleInv
  <2>2. UNCHANGED <<phase, tasks, strand, m_queue, m_busy, m_cancelled, m_cancelled_on_strand,
                    called, verdict, result, late>>
    BY <1>6 DEF WriteDone, ReadDone, StreamFails, OnWritten
  <2>3. op' \in Op /\ stream' \in {"open", "closed"}
    <3>1. CASE ReadDone
      <4>1. Head(wire) = op.req
        BY <3>1, <1>a, <2>1 DEF ReadDone, StreamInv
      <4> QED BY <3>1, <4>1, <2>1, <1>a, OpFacts DEF ReadDone, ConnType
    <3>2. CASE WriteDone \/ StreamFails \/ OnWritten
      BY <3>2, <2>1, <1>a, OpFacts DEF WriteDone, StreamFails, OnWritten, ConnType
    <3> QED BY <1>6, <3>1, <3>2
  <2>4. ConnType' /\ IdleInv' /\ OwnResponse'
    BY <1>a, <2>1, <2>2, <2>3 DEF ConnType, IdleInv, OwnResponse
  <2>5. op' # None => m_busy'
    BY <1>a, <2>1, <2>2 DEF StreamInv
  <2>6. ASSUME op'.pc \in {"written", "reading"} /\ stream' = "open" => wire' = <<op'.req>>,
               op'.pc \notin {"written", "reading"} /\ stream' = "open" => wire' = <<>>,
               op'.pc = "failed" => stream' = "closed",
               op'.pc = "answered" => op'.res = op'.req
        PROVE  StreamInv'
    <3>1. strand' # "finish"
      BY <1>a, <2>1, <2>2 DEF StreamInv
    <3>2. m_cancelled_on_strand' => m_cancelled'
      BY <1>a, <2>2 DEF StreamInv
    <3>3. op' # None
      BY <2>3, NoOpAssumption
    <3> QED BY <2>5, <2>6, <3>1, <3>2, <3>3 DEF StreamInv
  <2>7. StreamInv'
    <3>1. CASE WriteDone
      <4>1. wire = <<>> /\ op' = [req |-> op.req, pc |-> "written"] /\ wire' = Append(wire, op.req)
              /\ stream' = stream
        BY <3>1, <1>a, <2>1, OpFacts DEF WriteDone, StreamInv
      <4>2. wire' = <<op.req>> /\ op'.req = op.req /\ op'.pc = "written"
        BY <4>1
      <4> QED BY <2>6, <4>2
    <3>2. CASE ReadDone
      <4>1. wire = <<op.req>> /\ stream' = stream
        BY <3>2, <1>a, <2>1 DEF ReadDone, StreamInv
      <4>2. wire' = <<>> /\ op' = [req |-> op.req, pc |-> "answered", res |-> op.req]
        BY <3>2, <4>1 DEF ReadDone
      <4> QED BY <4>1, <4>2, <1>a, <2>1, <2>2 DEF StreamInv
    <3>3. CASE StreamFails
      <4>1. op' = [req |-> op.req, pc |-> "failed"] /\ stream' = "closed"
        BY <3>3, <2>1, OpFacts DEF StreamFails
      <4> QED BY <4>1, <1>a, <2>1, <2>2 DEF StreamInv
    <3>4. CASE OnWritten
      <4>1. op' = [req |-> op.req, pc |-> IF stream = "open" THEN "reading" ELSE "failed"]
              /\ op.pc = "written" /\ UNCHANGED <<stream, wire>>
        BY <3>4, <2>1, OpFacts DEF OnWritten
      <4>2. op'.req = op.req /\ op'.pc = IF stream = "open" THEN "reading" ELSE "failed"
        BY <4>1
      <4>3. stream' = "open" => wire' = <<op'.req>>
        BY <4>1, <4>2, <1>a, <2>1 DEF StreamInv
      <4> QED BY <2>6, <4>1, <4>2, <4>3, <1>a DEF ConnType
    <3> QED BY <1>6, <3>1, <3>2, <3>3, <3>4
  <2>8. op.pc \notin {"answered", "failed"}
    BY <1>6 DEF WriteDone, ReadDone, StreamFails, OnWritten
  <2>9. TellInv'
    BY <1>a, <1>b, <2>2, <2>8 DEF TellInv
  <2> QED BY <2>4, <2>7, <2>9 DEF HInv
<1>7. CASE RunEnqueue
  <2>1. Head(tasks) \in Requests /\ Tail(tasks) \in Seq(Requests \cup {"cancel"})
    BY <1>7, <1>a DEF RunEnqueue, ConnType
  <2>2. Append(m_queue, Head(tasks)) \in Seq(Requests)
    BY <1>a, <2>1 DEF ConnType
  <2>3. /\ UNCHANGED <<phase, m_busy, m_cancelled, m_cancelled_on_strand, op, stream, wire,
                       late>>
        /\ strand = "free" /\ phase = "up" /\ tasks' = Tail(tasks)
    BY <1>7, <1>a DEF RunEnqueue, IdleInv
  <2>4. /\ m_queue' \in Seq(Requests) /\ strand' \in {"free", "start_next"}
        /\ result' \in [Requests -> Requests \cup {None, "error", "cancelled"}]
        /\ OwnResponse'
    BY <1>7, <1>a, <2>1, <2>2 DEF RunEnqueue, enqueue, ConnType, OwnResponse
  <2>5. TellInv'
    BY <1>b, <2>3, <2>4
  <2> QED BY <1>a, <2>1, <2>3, <2>4, <2>5 DEF HInv, ConnType, IdleInv, StreamInv
<1>8. CASE RunCancel
  <2>1. phase = "up" /\ Tail(tasks) \in Seq(Requests \cup {"cancel"})
    BY <1>8, <1>a DEF RunCancel, IdleInv, ConnType
  <2>2. m_cancelled
    <3>1. 1 \in 1..Len(tasks) /\ tasks[1] = "cancel"
      BY <1>8, <1>a DEF RunCancel, ConnType
    <3> QED BY <3>1 DEF HInv, PostInv
  <2> QED BY <1>8, <1>a, <2>1, <2>2, CancelKeeps DEF RunCancel, ConnType
<1>9. CASE StartNext
  <2>1. phase = "up" /\ strand = "start_next" /\ strand' = "free"
          /\ UNCHANGED <<phase, tasks, m_cancelled, wire, called, late>>
    BY <1>9, <1>a DEF StartNext, IdleInv
  <2>5. TellInv'
    BY <1>b, <2>1
  <2>2. CASE m_cancelled
    BY <1>9, <1>a, <2>1, <2>2, CancelKeeps DEF StartNext, ConnType
  <2>3. CASE ~m_cancelled /\ (m_busy \/ m_queue = <<>>)
    BY <1>9, <1>a, <2>1, <2>3, <2>5 DEF StartNext, HInv, ConnType, IdleInv, StreamInv, OwnResponse
  <2>4. CASE ~m_cancelled /\ ~m_busy /\ m_queue # <<>>
    <3>1. Head(m_queue) \in Requests /\ Tail(m_queue) \in Seq(Requests)
      BY <1>a, <2>4 DEF ConnType
    <3>2. [req |-> Head(m_queue), pc |-> "writing"] \in Op
      BY <3>1 DEF Op
    <3>3. /\ m_busy' = TRUE /\ m_queue' = Tail(m_queue)
          /\ op' = [req |-> Head(m_queue), pc |-> "writing"]
          /\ UNCHANGED <<m_cancelled_on_strand, result, stream>>
      BY <1>9, <2>4 DEF StartNext
    <3>4. ConnType' /\ IdleInv' /\ OwnResponse'
      BY <1>a, <2>1, <3>1, <3>2, <3>3 DEF ConnType, IdleInv, OwnResponse
    <3>5. op = None
      BY <1>a, <2>4 DEF StreamInv
    <3>6. StreamInv'
      BY <1>a, <2>1, <3>3, <3>5 DEF StreamInv
    <3> QED BY <2>5, <3>4, <3>6 DEF HInv
  <2> QED BY <2>2, <2>3, <2>4
<1>10. CASE Finish
  <2>1. op # None /\ phase = "up" /\ op.pc \in {"answered", "failed"}
    BY <1>10, <1>a DEF Finish, StreamOp, ConnType, IdleInv
  <2>2. /\ UNCHANGED <<phase, tasks, m_queue, m_busy, m_cancelled, m_cancelled_on_strand, op,
                       stream, wire, called, result, late>>
        /\ strand' = "telling"
    BY <1>10 DEF Finish
  <2>3. verdict' \in {op.req, "error", "cancelled"}
    BY <1>10, <1>a, <2>1 DEF Finish, finish, StreamOp, StreamInv
  <2>4. verdict' # "cancelled" => ~m_cancelled
    BY <1>10 DEF Finish, finish
  <2>5. TellInv'
    BY <1>a, <2>1, <2>2, <2>3, <2>4 DEF TellInv, StreamInv
  <2> QED BY <1>a, <2>1, <2>2, <2>5 DEF HInv, ConnType, IdleInv, StreamInv, OwnResponse
<1>13. CASE Tell
  <2>1. /\ op \in Op /\ op # None /\ phase = "up" /\ op.pc \in {"answered", "failed"}
        /\ verdict \in {op.req, "error", "cancelled"}
    BY <1>13, <1>a DEF Tell, TellInv, ConnType, IdleInv
  <2>2. /\ UNCHANGED <<phase, tasks, m_queue, m_busy, m_cancelled, m_cancelled_on_strand,
                       stream, wire>>
        /\ op' = None /\ strand' = "finish" /\ result' = [result EXCEPT ![op.req] = verdict]
    BY <1>13 DEF Tell
  <2>3. result' \in [Requests -> Requests \cup {None, "error", "cancelled"}] /\ OwnResponse'
    BY <2>1, <2>2, <1>a, OpFacts DEF ConnType, OwnResponse
  <2>4. TellInv'
    BY <1>13, <1>a, <2>2 DEF Tell, TellInv
  <2> QED BY <1>a, <2>1, <2>2, <2>3, <2>4 DEF HInv, ConnType, IdleInv, StreamInv
<1>11. CASE Finished
  <2>1. TellInv'
    BY <1>11, <1>b DEF Finished
  <2> QED BY <1>11, <1>a, <2>1 DEF Finished, HInv, ConnType, IdleInv, StreamInv, OwnResponse
<1>12. CASE UNCHANGED vars
  <2>1. TellInv'
    BY <1>12, <1>c DEF vars
  <2> QED BY <1>12, <1>a, <2>1 DEF vars, HInv, ConnType, IdleInv, StreamInv, OwnResponse
<1> QED
  BY <1>1, <1>2, <1>3, <1>4, <1>5, <1>6, <1>7, <1>8, <1>9, <1>10, <1>11, <1>12, <1>13
  DEF Next, StrandRuns

\* HInv is an invariant of the connection.
THEOREM ConnectionInductive == Spec => []HInv
<1>1. Init => HInv
  BY HInit
<1>2. HInv /\ [Next]_vars => HInv'
  BY HStep
<1> QED BY <1>1, <1>2, PTL DEF Spec

\* A completion handler gets the response to its own request: what http.cpp
\* rests on when it answers the request in progress with whatever it reads.
THEOREM OwnAnswer == Spec => []OwnResponse
<1>1. HInv => OwnResponse
  BY DEF HInv
<1> QED BY <1>1, ConnectionInductive, PTL

\* After cancel set its flag at most one handler is given a response or an
\* error, the one finish had decided on before, and none after cancel_on_strand:
\* only the strand's finish hands anything else than a cancellation over.
THEOREM CancelIsFinal == Spec => CancelSticks
<1> DEFINE OnceBefore == late' # late => late = {} /\ ~m_cancelled_on_strand
<1>1. HInv /\ [Next]_vars => [OnceBefore]_vars
  <2> SUFFICES ASSUME HInv, Next, late' # late
               PROVE  late = {} /\ ~m_cancelled_on_strand
    BY DEF vars
  <2>1. Tell
    BY DEF Next, StrandRuns, Connect, Resolved, TcpConnected,
       Handshaken, Request, HandlerRequests, Cancel, HandlerCancels, WriteDone, ReadDone,
       StreamFails, RunEnqueue, RunCancel, StartNext, OnWritten, Finish, Finished,
       SameButStream, requestVars
  <2>2. strand = "telling" /\ verdict # "cancelled"
    BY <2>1 DEF Tell
  <2> QED BY <2>2 DEF HInv, TellInv
<1> QED BY <1>1, ConnectionInductive, PTL DEF Spec, CancelSticks

-----------------------------------------------------------------------------
(* Every request is in one place.                                          *)

Elems(q) == {q[i] : i \in DOMAIN q}
NoDup(q) == \A i, j \in DOMAIN q : q[i] = q[j] => i = j

Serving == IF op # None THEN {op.req} ELSE {}
Answered == {r \in Requests : result[r] # None}

\* A request that was made is posted, queued, in progress or answered, and
\* only one of these.
PlaceInv ==
  /\ called \subseteq Requests
  /\ NoDup(tasks) /\ NoDup(m_queue)
  /\ Elems(tasks) \subseteq called \cup {"cancel"}
  /\ Elems(m_queue) \subseteq called
  /\ Serving \subseteq called
  /\ Answered \subseteq called
  /\ Elems(tasks) \cap Elems(m_queue) = {}
  /\ Elems(tasks) \cap Serving = {}
  /\ Elems(tasks) \cap Answered = {}
  /\ Elems(m_queue) \cap Serving = {}
  /\ Elems(m_queue) \cap Answered = {}
  /\ Serving \cap Answered = {}

\* Appending adds one element.
LEMMA AppendElems ==
  ASSUME NEW S, NEW q \in Seq(S), NEW x \in S
  PROVE  /\ Elems(Append(q, x)) = Elems(q) \cup {x}
         /\ NoDup(q) /\ x \notin Elems(q) => NoDup(Append(q, x))
<1>1. /\ DOMAIN Append(q, x) = DOMAIN q \cup {Len(q) + 1}
      /\ Append(q, x)[Len(q) + 1] = x
      /\ \A i \in DOMAIN q : Append(q, x)[i] = q[i]
  OBVIOUS
<1>2. Elems(Append(q, x)) = Elems(q) \cup {x}
  BY <1>1, Zenon DEF Elems
<1>3. NoDup(q) /\ x \notin Elems(q) => NoDup(Append(q, x))
  BY DEF NoDup, Elems
<1> QED BY <1>2, <1>3

\* Taking the first element away removes it from a sequence without repetition.
LEMMA TailElems ==
  ASSUME NEW S, NEW q \in Seq(S), q # <<>>, NoDup(q)
  PROVE  /\ Elems(q) = {Head(q)} \cup Elems(Tail(q))
         /\ NoDup(Tail(q)) /\ Head(q) \notin Elems(Tail(q))
<1>1. /\ DOMAIN q = 1..Len(q) /\ DOMAIN Tail(q) = 1..(Len(q) - 1)
      /\ \A i \in DOMAIN Tail(q) : i + 1 \in DOMAIN q /\ Tail(q)[i] = q[i + 1]
      /\ 1 \in DOMAIN q /\ Head(q) = q[1] /\ Len(q) \in Nat
  OBVIOUS
<1>2. ASSUME NEW x \in Elems(q) PROVE x \in {Head(q)} \cup Elems(Tail(q))
  <2>1. PICK i \in DOMAIN q : x = q[i]
    BY <1>2 DEF Elems
  <2>2. CASE i = 1
    BY <1>1, <2>1, <2>2
  <2>3. CASE i # 1
    <3>1. i - 1 \in DOMAIN Tail(q) /\ (i - 1) + 1 = i
      BY <1>1, <2>1, <2>3
    <3>2. Tail(q)[i - 1] = x
      BY <1>1, <2>1, <3>1
    <3> QED BY <3>1, <3>2 DEF Elems
  <2> QED BY <2>2, <2>3
<1>3. Elems(Tail(q)) \subseteq Elems(q) /\ Head(q) \in Elems(q)
  BY <1>1 DEF Elems
<1>4. NoDup(Tail(q))
  BY <1>1 DEF NoDup
<1>5. Head(q) \notin Elems(Tail(q))
  BY <1>1 DEF NoDup, Elems
<1> QED BY <1>2, <1>3, <1>4, <1>5

LEMMA PlaceInit == Init => PlaceInv
BY DEF Init, PlaceInv, Elems, NoDup, Serving, Answered

\* What cancel_on_strand does to the places.
LEMMA CancelMoves ==
  ASSUME HInv, cancel_on_strand
  PROVE  /\ Serving' = Serving
         /\ \/ m_cancelled_on_strand /\ UNCHANGED <<m_queue, result, m_cancelled_on_strand>>
            \/ /\ ~m_cancelled_on_strand /\ m_cancelled_on_strand' /\ m_queue' = <<>>
               /\ Answered' = Answered \cup Elems(m_queue)
<1>1. ConnType
  BY DEF HInv
<1>2. Serving' = Serving
  BY <1>1, OpFacts, NoOpAssumption DEF cancel_on_strand, Serving, ConnType
<1>3. CASE m_cancelled_on_strand
  BY <1>2, <1>3 DEF cancel_on_strand
<1>4. CASE ~m_cancelled_on_strand
  <2>1. /\ m_cancelled_on_strand' /\ m_queue' = <<>>
        /\ \A r \in Requests :
             result'[r] = IF \E i \in DOMAIN m_queue : m_queue[i] = r
                          THEN "cancelled" ELSE result[r]
    BY <1>4 DEF cancel_on_strand
  <2>2. /\ Elems(m_queue) \subseteq Requests
        /\ \A r \in Requests : r \in Elems(m_queue) <=> \E i \in DOMAIN m_queue : m_queue[i] = r
    BY <1>1 DEF ConnType, Elems
  <2>3. \A r \in Requests : result'[r] # None <=> result[r] # None \/ r \in Elems(m_queue)
    BY <2>1, <2>2, HttpNoneAssumption
  <2>4. Answered' = Answered \cup Elems(m_queue)
    BY <2>2, <2>3 DEF Answered
  <2> QED BY <1>2, <1>4, <2>1, <2>4
<1> QED BY <1>1, <1>3, <1>4 DEF ConnType

\* The steps of the stream leave the request in progress in its place.
LEMMA SameRequest ==
  ASSUME ConnType, StreamInv, op # None, WriteDone \/ ReadDone \/ StreamFails \/ OnWritten
  PROVE  op'.req = op.req /\ op' # None
<1>a. op \in Op
  BY DEF ConnType
<1>1. CASE ReadDone
  <2>1. op' = [req |-> op.req, pc |-> "answered", res |-> op.req]
    BY <1>1, <1>a DEF ReadDone, StreamOp, StreamInv
  <2>2. op' \in Op /\ op'.req = op.req
    BY <2>1, <1>a, OpFacts
  <2> QED BY <2>2, NoOpAssumption
<1>2. CASE WriteDone \/ StreamFails \/ OnWritten
  <2>1. \E k \in {"written", "reading", "failed"} : op' = [req |-> op.req, pc |-> k]
    BY <1>2, <1>a, OpFacts DEF WriteDone, StreamFails, OnWritten, StreamOp
  <2>2. op' \in Op /\ op'.req = op.req
    BY <2>1, <1>a, OpFacts
  <2> QED BY <2>2, NoOpAssumption
<1> QED BY <1>1, <1>2

\* The step case, one handler at a time; a handler moves a request from one
\* place to another, or all that are queued.
LEMMA PlaceStep == HInv /\ HInv' /\ PlaceInv /\ [Next]_vars => PlaceInv'
<1> SUFFICES ASSUME HInv, HInv', PlaceInv, [Next]_vars PROVE PlaceInv'
  OBVIOUS
<1> USE HttpNoneAssumption
<1>a. ConnType /\ StreamInv
  BY DEF HInv
<1>b. NoDup(<<>>) /\ Elems(<<>>) = {}
  BY DEF NoDup, Elems
<1>1. CASE UNCHANGED <<tasks, m_queue, called, result>> /\ Serving' = Serving
  BY <1>1 DEF PlaceInv, Answered
<1>2. CASE Connect \/ Resolved \/ TcpConnected \/ Handshaken \/ Finish \/ Finished
             \/ UNCHANGED vars
  BY <1>1, <1>2 DEF Connect, Resolved, TcpConnected, Handshaken, Finish, Finished, vars,
     requestVars, Serving
<1>3. CASE WriteDone \/ ReadDone \/ StreamFails \/ OnWritten
  <2>1. op \in Op /\ op # None
    BY <1>3, <1>a DEF WriteDone, ReadDone, StreamFails, OnWritten, StreamOp, ConnType
  <2>2. op'.req = op.req /\ op' # None
    BY <1>3, <1>a, <2>1, SameRequest
  <2>3. Serving' = Serving
    BY <2>1, <2>2 DEF Serving
  <2> QED BY <1>1, <1>3, <2>3 DEF WriteDone, ReadDone, StreamFails, OnWritten, SameButStream
<1>4. ASSUME NEW r \in Requests, Request(r) PROVE PlaceInv'
  <2>1. r \notin Elems(tasks)
    BY <1>4 DEF Request, PlaceInv
  <2>2. Elems(tasks') = Elems(tasks) \cup {r} /\ NoDup(tasks')
    BY <1>4, <1>a, <2>1, AppendElems DEF Request, ConnType, PlaceInv
  <2> QED BY <1>4, <2>2 DEF Request, PlaceInv, Serving, Answered
<1>5. CASE Cancel
  <2>1. "cancel" \notin Elems(tasks)
    BY <1>5, <1>a DEF Cancel, HInv, PostInv, Elems, ConnType
  <2>2. Elems(tasks') = Elems(tasks) \cup {"cancel"} /\ NoDup(tasks')
    BY <1>5, <1>a, <2>1, AppendElems DEF Cancel, ConnType, PlaceInv
  <2>3. UNCHANGED <<m_queue, op, called, result>> /\ "cancel" \notin called
    BY <1>5 DEF Cancel, PlaceInv
  <2>4. UNCHANGED <<Serving, Answered>>
    BY <2>3 DEF Serving, Answered
  <2> QED BY <2>2, <2>3, <2>4 DEF PlaceInv
<1>6. ASSUME NEW r \in Requests, r \notin Elems(m_queue), r \notin Serving, r \notin Answered,
             UNCHANGED op, r \notin Elems(tasks'), r \in called',
             \/ m_queue' = Append(m_queue, r) /\ UNCHANGED result
             \/ result' = [result EXCEPT ![r] = "cancelled"] /\ UNCHANGED m_queue,
             called \subseteq called', called' \subseteq Requests,
             NoDup(tasks'), Elems(tasks') \subseteq Elems(tasks)
      PROVE  PlaceInv'
  <2>1. UNCHANGED Serving
    BY <1>6 DEF Serving
  <2>2. CASE m_queue' = Append(m_queue, r) /\ UNCHANGED result
    <3>1. Elems(m_queue') = Elems(m_queue) \cup {r} /\ NoDup(m_queue')
      BY <2>2, <1>6, <1>a, AppendElems DEF ConnType, PlaceInv
    <3>2. UNCHANGED Answered
      BY <2>2 DEF Answered
    <3> QED BY <1>6, <2>1, <3>1, <3>2 DEF PlaceInv
  <2>3. CASE result' = [result EXCEPT ![r] = "cancelled"] /\ UNCHANGED m_queue
    <3>1. Answered' = Answered \cup {r}
      BY <2>3, <1>a DEF Answered, ConnType
    <3> QED BY <1>6, <2>1, <2>3, <3>1 DEF PlaceInv
  <2> QED BY <1>6, <2>2, <2>3
<1>7. ASSUME NEW r \in Requests, HandlerRequests(r) PROVE PlaceInv'
  <2>1. r \notin Elems(tasks) /\ r \notin Elems(m_queue) /\ r \notin Serving /\ r \notin Answered
    BY <1>7 DEF HandlerRequests, PlaceInv
  <2>2. UNCHANGED <<tasks, op>> /\ called' = called \cup {r} /\ called' \subseteq Requests
    BY <1>7 DEF HandlerRequests, PlaceInv
  <2> QED BY <1>6, <1>7, <2>1, <2>2 DEF HandlerRequests, PlaceInv
<1>8. ASSUME tasks # <<>>, tasks' = Tail(tasks)
      PROVE  /\ Elems(tasks) = {Head(tasks)} \cup Elems(tasks') /\ NoDup(tasks')
             /\ Head(tasks) \notin Elems(tasks')
  BY <1>8, <1>a, TailElems DEF ConnType, PlaceInv
<1>9. CASE RunEnqueue
  <2>1. Head(tasks) \in Requests /\ tasks # <<>> /\ tasks' = Tail(tasks)
    BY <1>9, <1>a DEF RunEnqueue, ConnType
  <2>2. Head(tasks) \in Elems(tasks)
    BY <1>8, <2>1
  <2>3. Head(tasks) \in called /\ Head(tasks) \notin Elems(m_queue) /\ Head(tasks) \notin Serving
          /\ Head(tasks) \notin Answered
    BY <2>1, <2>2 DEF PlaceInv
  <2>4. UNCHANGED <<op, called>>
    BY <1>9 DEF RunEnqueue
  <2> QED BY <1>6, <1>8, <1>9, <2>1, <2>3, <2>4 DEF RunEnqueue, enqueue, PlaceInv
<1>10. ASSUME cancel_on_strand, UNCHANGED called, NoDup(tasks'), Elems(tasks') \subseteq Elems(tasks)
       PROVE  PlaceInv'
  <2>1. Serving' = Serving
    BY <1>10, CancelMoves
  <2>2. CASE UNCHANGED <<m_queue, result>>
    BY <1>10, <2>1, <2>2 DEF PlaceInv, Answered
  <2>3. CASE m_queue' = <<>> /\ Answered' = Answered \cup Elems(m_queue)
    <3>1. NoDup(m_queue') /\ Elems(m_queue') = {}
      BY <2>3, <1>b
    <3> QED BY <1>10, <2>1, <2>3, <3>1 DEF PlaceInv
  <2> QED BY <1>10, <2>2, <2>3, CancelMoves
<1>11. CASE RunCancel \/ HandlerCancels
  <2>1. NoDup(tasks') /\ Elems(tasks') \subseteq Elems(tasks)
    BY <1>8, <1>11 DEF RunCancel, HandlerCancels, PlaceInv
  <2> QED BY <1>10, <1>11, <2>1 DEF RunCancel, HandlerCancels
<1>12. CASE StartNext
  <2>1. UNCHANGED <<tasks, called>> /\ NoDup(tasks)
    BY <1>12 DEF StartNext, PlaceInv
  <2>2. CASE m_cancelled
    BY <1>10, <1>12, <2>1, <2>2 DEF StartNext
  <2>3. CASE UNCHANGED <<m_queue, op, result>>
    BY <1>1, <2>1, <2>3 DEF Serving
  <2>4. CASE ~m_cancelled /\ ~m_busy /\ m_queue # <<>>
    <3>1. m_queue' = Tail(m_queue) /\ op' = [req |-> Head(m_queue), pc |-> "writing"]
            /\ UNCHANGED result
      BY <1>12, <2>4 DEF StartNext
    <3>2. Elems(m_queue) = {Head(m_queue)} \cup Elems(m_queue') /\ NoDup(m_queue')
            /\ Head(m_queue) \notin Elems(m_queue')
      BY <1>a, <2>4, <3>1, TailElems DEF ConnType, PlaceInv
    <3>3. op'.req = Head(m_queue) /\ op' \in Op /\ op' # None
      <4>1. Head(m_queue) \in Requests
        BY <1>a, <2>4 DEF ConnType
      <4> QED BY <3>1, <4>1, NoOpAssumption DEF Op
    <3>4. Serving' = {Head(m_queue)} /\ Answered' = Answered
      BY <3>1, <3>3 DEF Serving, Answered
    <3> QED BY <2>1, <3>2, <3>4 DEF PlaceInv
  <2> QED BY <1>12, <2>2, <2>3, <2>4 DEF StartNext
<1>13. CASE Tell
  <2>1. op \in Op /\ op # None /\ op.req \in Requests /\ Serving = {op.req}
    BY <1>13, <1>a, OpFacts DEF Tell, HInv, TellInv, ConnType, Serving
  <2>2. UNCHANGED <<tasks, m_queue, called>> /\ op' = None
    BY <1>13 DEF Tell
  <2>3. PICK x \in Requests \cup {"error", "cancelled"} : result' = [result EXCEPT ![op.req] = x]
    BY <1>13, <2>1 DEF Tell, HInv, TellInv
  <2>4. Answered' = Answered \cup {op.req} /\ Serving' = {}
    BY <1>a, <2>1, <2>2, <2>3 DEF Answered, Serving, ConnType
  <2> QED BY <2>1, <2>2, <2>4 DEF PlaceInv
<1> QED
  BY <1>2, <1>3, <1>4, <1>5, <1>7, <1>9, <1>11, <1>12, <1>13 DEF Next, StrandRuns

-----------------------------------------------------------------------------
(* The connection is a serial service.                                     *)

Pending == (IF op # None THEN <<op.req>> ELSE <<>>) \o m_queue

\* What the provers need to know of a request in front of a queue.
LEMMA Front ==
  ASSUME NEW S, NEW q \in Seq(S), NEW x \in S
  PROVE  /\ <<>> \o q = q
         /\ <<x>> \o q \in Seq(S) /\ <<x>> \o q # <<>>
         /\ Head(<<x>> \o q) = x /\ Tail(<<x>> \o q) = q
         /\ Elems(<<x>> \o q) = {x} \cup Elems(q)
         /\ \A y \in S : Append(<<x>> \o q, y) = <<x>> \o Append(q, y)
         /\ q # <<>> => q = <<Head(q)>> \o Tail(q)
<1>1. /\ <<>> \o q = q
      /\ <<x>> \o q \in Seq(S) /\ <<x>> \o q # <<>>
      /\ Head(<<x>> \o q) = x /\ Tail(<<x>> \o q) = q
  OBVIOUS
<1>2. \A y \in S : Append(<<x>> \o q, y) = <<x>> \o Append(q, y)
  OBVIOUS
<1>3. q # <<>> => q = <<Head(q)>> \o Tail(q)
  OBVIOUS
<1>4. Elems(<<x>> \o q) = {x} \cup Elems(q)
  <2> DEFINE c == <<x>> \o q
  <2>1. /\ DOMAIN c = 1..(Len(q) + 1) /\ c[1] = x /\ DOMAIN q = 1..Len(q) /\ Len(q) \in Nat
        /\ \A i \in 2..(Len(q) + 1) : c[i] = q[i - 1]
        /\ \A i \in 1..Len(q) : c[i + 1] = q[i]
    OBVIOUS
  <2> HIDE DEF c
  <2>2. ASSUME NEW y \in Elems(c) PROVE y \in {x} \cup Elems(q)
    <3>1. PICK i \in DOMAIN c : y = c[i]
      BY <2>2 DEF Elems
    <3>2. CASE i = 1
      BY <2>1, <3>1, <3>2
    <3>3. CASE i # 1
      <4>1. i \in 2..(Len(q) + 1) /\ i - 1 \in DOMAIN q
        BY <2>1, <3>1, <3>3
      <4> QED BY <2>1, <3>1, <4>1 DEF Elems
    <3> QED BY <3>2, <3>3
  <2>3. x \in Elems(c)
    BY <2>1 DEF Elems
  <2>4. ASSUME NEW y \in Elems(q) PROVE y \in Elems(c)
    <3>1. PICK i \in DOMAIN q : y = q[i]
      BY <2>4 DEF Elems
    <3>2. i + 1 \in DOMAIN c /\ c[i + 1] = y
      BY <2>1, <3>1
    <3> QED BY <3>2 DEF Elems
  <2> QED BY <2>2, <2>3, <2>4 DEF c
<1> QED BY <1>1, <1>2, <1>3, <1>4

\* The values of the service's variables.
LEMMA Mapping ==
  ASSUME ConnType, PlaceInv
  PROVE  /\ Pending \in Seq(Requests)
         /\ Elems(Pending) = Serving \cup Elems(m_queue)
         /\ op = None => Pending = m_queue
         /\ op # None => /\ Pending = <<op.req>> \o m_queue /\ Pending # <<>>
                         /\ Head(Pending) = op.req /\ Tail(Pending) = m_queue
         /\ \A r \in Requests :
              Append(Pending, r) = (IF op # None THEN <<op.req>> ELSE <<>>) \o Append(m_queue, r)
<1>1. m_queue \in Seq(Requests)
  BY DEF ConnType
<1>2. CASE op = None
  <2>1. Pending = m_queue
    BY <1>1, <1>2 DEF Pending
  <2>2. \A r \in Requests : Append(m_queue, r) \in Seq(Requests)
    BY <1>1
  <2>3. \A r \in Requests : Append(m_queue, r) = <<>> \o Append(m_queue, r)
    BY <2>2
  <2> QED BY <1>1, <1>2, <2>1, <2>3 DEF Serving
<1>3. CASE op # None
  <2>1. op.req \in Requests
    BY <1>3, OpFacts DEF ConnType
  <2>2. Pending = <<op.req>> \o m_queue
    BY <1>3 DEF Pending
  <2>3. /\ Pending \in Seq(Requests) /\ Pending # <<>>
        /\ Head(Pending) = op.req /\ Tail(Pending) = m_queue
    BY <1>1, <2>1, <2>2
  <2>4. Elems(Pending) = {op.req} \cup Elems(m_queue)
    BY <1>1, <2>1, <2>2, Front
  <2>5. \A r \in Requests : Append(Pending, r) = <<op.req>> \o Append(m_queue, r)
    BY <1>1, <2>1, <2>2, Front
  <2> QED BY <1>3, <2>2, <2>3, <2>4, <2>5 DEF Serving
<1> QED BY <1>2, <1>3

\* The service's actions, said of the connection's state.
LEMMA ServiceActions ==
  /\ Service!SInit <=> Pending = <<>> /\ Answered = {} /\ m_cancelled = FALSE
                         /\ m_cancelled_on_strand = FALSE
  /\ Service!Known = Answered \cup Elems(Pending)
  /\ \A r \in Requests :
       /\ ~m_cancelled_on_strand /\ r \notin Answered \cup Elems(Pending)
       /\ Pending' = Append(Pending, r)
       /\ Answered' = Answered /\ UNCHANGED <<m_cancelled, m_cancelled_on_strand>>
       => Service!Accept(r)
  /\ \A r \in Requests :
       /\ m_cancelled /\ r \notin Answered \cup Elems(Pending)
       /\ Answered' = Answered \cup {r}
       /\ Pending' = Pending /\ UNCHANGED <<m_cancelled, m_cancelled_on_strand>>
       => Service!Reject(r)
  /\ /\ Pending # <<>> /\ Pending' = Tail(Pending)
     /\ Answered' = Answered \cup {Head(Pending)}
     /\ UNCHANGED <<m_cancelled, m_cancelled_on_strand>>
     => Service!Answer
  /\ /\ ~m_cancelled /\ m_cancelled' = TRUE
     /\ Pending' = Pending /\ Answered' = Answered /\ UNCHANGED m_cancelled_on_strand
     => Service!AskStop
  /\ /\ ~m_cancelled_on_strand /\ m_cancelled_on_strand' = TRUE /\ m_cancelled' = TRUE
     /\ Pending' \in {<<>>, IF Pending = <<>> THEN <<>> ELSE <<Head(Pending)>>}
     /\ Answered' = (Answered \cup Elems(Pending)) \ Elems(Pending')
     => Service!Stop
  /\ Pending' = Pending /\ Answered' = Answered /\ UNCHANGED <<m_cancelled, m_cancelled_on_strand>>
     => UNCHANGED Service!svars
BY DEF Pending, Answered, Elems, Service!SInit, Service!Known, Service!Accept, Service!Reject,
   Service!Answer, Service!AskStop, Service!Stop, Service!svars

\* Every step is one of the service or changes nothing there.
LEMMA ServiceStep ==
  HInv /\ HInv' /\ PlaceInv /\ PlaceInv' /\ [Next]_vars => [Service!SNext]_(Service!svars)
<1> SUFFICES ASSUME HInv, HInv', PlaceInv, PlaceInv', [Next]_vars
             PROVE  Service!SNext \/ UNCHANGED Service!svars
  OBVIOUS
<1>a. ConnType /\ StreamInv /\ ConnType'
  BY DEF HInv
<1>1. ASSUME Pending' = Pending, Answered' = Answered,
             UNCHANGED <<m_cancelled, m_cancelled_on_strand>>
      PROVE  UNCHANGED Service!svars
  BY <1>1, ServiceActions
<1>2. ASSUME NEW r \in Requests, r \notin Answered, r \notin Elems(m_queue), r \notin Serving,
             UNCHANGED <<op, m_cancelled, m_cancelled_on_strand>>,
             \/ m_cancelled /\ result' = [result EXCEPT ![r] = "cancelled"] /\ UNCHANGED m_queue
             \/ ~m_cancelled /\ m_queue' = Append(m_queue, r) /\ UNCHANGED result
      PROVE  Service!SNext
  <2>1. r \notin Answered \cup Elems(Pending)
    BY <1>2, <1>a, Mapping
  <2>2. CASE m_cancelled /\ result' = [result EXCEPT ![r] = "cancelled"] /\ UNCHANGED m_queue
    <3>1. Answered' = Answered \cup {r}
      BY <2>2, <1>a, HttpNoneAssumption DEF Answered, ConnType
    <3>2. Pending' = Pending
      BY <1>2, <2>2 DEF Pending
    <3> QED BY <1>2, <2>1, <2>2, <3>1, <3>2, ServiceActions DEF Service!SNext
  <2>3. CASE ~m_cancelled /\ m_queue' = Append(m_queue, r) /\ UNCHANGED result
    <3>1. Answered' = Answered
      BY <2>3 DEF Answered
    <3>2. Pending' = Append(Pending, r)
      BY <1>2, <2>3, <1>a, Mapping DEF Pending
    <3>3. ~m_cancelled_on_strand
      BY <1>a, <2>3 DEF StreamInv
    <3> QED BY <1>2, <2>1, <3>1, <3>2, <3>3, ServiceActions DEF Service!SNext
  <2> QED BY <1>2, <2>2, <2>3
<1>3. ASSUME cancel_on_strand, m_cancelled' = TRUE, ~m_cancelled => ~m_cancelled_on_strand
      PROVE  Service!SNext \/ UNCHANGED Service!svars
  <2>1. Serving' = Serving
    BY <1>3, CancelMoves
  <2>2. (op' = None <=> op = None) /\ (op # None => op'.req = op.req)
    BY <1>3, <1>a, OpFacts, NoOpAssumption DEF cancel_on_strand, ConnType
  <2>3. CASE m_cancelled_on_strand /\ UNCHANGED <<m_queue, result, m_cancelled_on_strand>>
    <3>1. Pending' = Pending /\ Answered' = Answered /\ m_cancelled' = m_cancelled
      BY <1>3, <1>a, <2>2, <2>3 DEF Pending, Answered, ConnType
    <3> QED BY <1>1, <2>3, <3>1
  <2>4. CASE /\ ~m_cancelled_on_strand /\ m_cancelled_on_strand' /\ m_queue' = <<>>
             /\ Answered' = Answered \cup Elems(m_queue)
    <3>1. CASE op = None
      <4>1. Pending' = <<>>
        BY <2>2, <2>4, <3>1 DEF Pending
      <4>2. Elems(Pending') = {} /\ Elems(Pending) = Elems(m_queue)
        BY <3>1, <4>1, <1>a, Mapping DEF Elems, Serving
      <4>3. Service!Stop
        BY <1>3, <1>a, <2>4, <4>1, <4>2, ServiceActions DEF ConnType
      <4> QED BY <4>3 DEF Service!SNext
    <3>2. CASE op # None
      <4>1. Pending' = <<op.req>>
        BY <2>2, <2>4, <3>2 DEF Pending
      <4>2. Elems(Pending') = {op.req} /\ Serving = {op.req}
        BY <3>2, <4>1 DEF Elems, Serving
      <4>3. Pending # <<>> /\ Head(Pending) = op.req
              /\ Elems(Pending) = {op.req} \cup Elems(m_queue)
        BY <3>2, <1>a, <4>2, Mapping
      <4>4. op.req \notin Answered /\ op.req \notin Elems(m_queue)
        BY <4>2 DEF PlaceInv
      <4>5. Answered' = (Answered \cup Elems(Pending)) \ Elems(Pending')
        BY <2>4, <4>2, <4>3, <4>4
      <4>6. Service!Stop
        BY <1>3, <1>a, <2>4, <4>1, <4>3, <4>5, ServiceActions DEF ConnType
      <4> QED BY <4>6 DEF Service!SNext
    <3> QED BY <3>1, <3>2
  <2> QED BY <1>3, <2>3, <2>4, CancelMoves
<1>4. CASE \/ Connect \/ Resolved \/ TcpConnected \/ Handshaken \/ Finish \/ Finished
           \/ UNCHANGED vars \/ \E r \in Requests : Request(r)
  <2>1. UNCHANGED <<op, m_queue, result, m_cancelled, m_cancelled_on_strand>>
    BY <1>4 DEF Connect, Resolved, TcpConnected, Handshaken, Finish, Finished, vars,
       requestVars, Request
  <2> QED BY <1>1, <2>1 DEF Pending, Answered
<1>5. CASE WriteDone \/ ReadDone \/ StreamFails \/ OnWritten
  <2>1. op \in Op /\ op # None
    BY <1>5, <1>a DEF WriteDone, ReadDone, StreamFails, OnWritten, StreamOp, ConnType
  <2>2. UNCHANGED <<m_queue, result, m_cancelled, m_cancelled_on_strand>>
    BY <1>5 DEF WriteDone, ReadDone, StreamFails, OnWritten, SameButStream
  <2>3. op'.req = op.req /\ op' # None
    BY <1>5, <1>a, <2>1, SameRequest
  <2> QED BY <1>1, <2>1, <2>2, <2>3 DEF Pending, Answered
<1>6. ASSUME NEW r \in Requests, HandlerRequests(r) PROVE Service!SNext
  <2>1. r \notin Answered /\ r \notin Elems(m_queue) /\ r \notin Serving
    BY <1>6 DEF HandlerRequests, PlaceInv
  <2> QED BY <1>2, <1>6, <2>1 DEF HandlerRequests
<1>7. CASE RunEnqueue
  <2>1. Head(tasks) \in Requests /\ Head(tasks) \in Elems(tasks)
    BY <1>7, <1>a DEF RunEnqueue, ConnType, Elems
  <2>2. Head(tasks) \notin Answered /\ Head(tasks) \notin Elems(m_queue) /\ Head(tasks) \notin Serving
    BY <2>1 DEF PlaceInv
  <2> QED BY <1>2, <1>7, <2>1, <2>2 DEF RunEnqueue, enqueue
<1>8. CASE Cancel
  <2>1. Pending' = Pending /\ Answered' = Answered
    BY <1>8 DEF Cancel, Pending, Answered
  <2> QED BY <1>8, <2>1, ServiceActions DEF Cancel, Service!SNext
<1>9. CASE RunCancel \/ HandlerCancels
  <2>1. ~m_cancelled => ~m_cancelled_on_strand
    BY <1>a DEF StreamInv
  <2>2. m_cancelled' = TRUE
    <3>1. CASE HandlerCancels
      BY <3>1 DEF HandlerCancels
    <3>2. CASE RunCancel
      <4>1. 1 \in 1..Len(tasks) /\ tasks[1] = "cancel" /\ m_cancelled' = m_cancelled
        BY <3>2, <1>a DEF RunCancel, ConnType
      <4> QED BY <1>a, <4>1 DEF HInv, PostInv, ConnType
    <3> QED BY <1>9, <3>1, <3>2
  <2> QED BY <1>3, <1>9, <2>1, <2>2 DEF RunCancel, HandlerCancels
<1>10. CASE StartNext
  <2>1. UNCHANGED m_cancelled
    BY <1>10 DEF StartNext
  <2>2. CASE m_cancelled
    BY <1>3, <1>10, <1>a, <2>1, <2>2 DEF StartNext, ConnType
  <2>3. CASE UNCHANGED <<m_queue, op, m_cancelled_on_strand, result>>
    BY <1>1, <2>1, <2>3 DEF Pending, Answered
  <2>4. CASE ~m_cancelled /\ ~m_busy /\ m_queue # <<>>
    <3>1. /\ m_queue' = Tail(m_queue) /\ op' = [req |-> Head(m_queue), pc |-> "writing"]
          /\ UNCHANGED <<m_cancelled_on_strand, result>>
      BY <1>10, <2>4 DEF StartNext
    <3>2. op = None
      BY <1>a, <2>4 DEF StreamInv
    <3>3. op'.req = Head(m_queue) /\ op' # None
      <4>1. Head(m_queue) \in Requests
        BY <1>a, <2>4 DEF ConnType
      <4> QED BY <3>1, <4>1, NoOpAssumption DEF Op
    <3>4. Pending = m_queue
      BY <1>a, <3>2, Mapping
    <3>5. Pending' = <<Head(m_queue)>> \o Tail(m_queue)
      BY <3>1, <3>3 DEF Pending
    <3>6. <<Head(m_queue)>> \o Tail(m_queue) = m_queue
      BY <1>a, <2>4 DEF ConnType
    <3>7. Answered' = Answered
      BY <3>1 DEF Answered
    <3> QED BY <1>1, <2>1, <3>1, <3>4, <3>5, <3>6, <3>7
  <2> QED BY <1>10, <2>2, <2>3, <2>4 DEF StartNext
<1>11. CASE Tell
  <2>1. op \in Op /\ op # None /\ op.req \in Requests
    BY <1>11, <1>a, OpFacts DEF Tell, HInv, TellInv, ConnType
  <2>2. UNCHANGED <<m_queue, m_cancelled, m_cancelled_on_strand>> /\ op' = None
    BY <1>11 DEF Tell
  <2>3. PICK x \in Requests \cup {"error", "cancelled"} : result' = [result EXCEPT ![op.req] = x]
    BY <1>11, <2>1 DEF Tell, HInv, TellInv
  <2>4. Answered' = Answered \cup {op.req}
    BY <1>a, <2>1, <2>3, HttpNoneAssumption DEF Answered, ConnType
  <2>5. Pending # <<>> /\ Head(Pending) = op.req /\ Tail(Pending) = m_queue
    BY <1>a, <2>1, Mapping
  <2>6. Pending' = m_queue
    BY <1>a, <2>2 DEF Pending, ConnType
  <2> QED BY <2>2, <2>4, <2>5, <2>6, ServiceActions DEF Service!SNext
<1> QED
  BY <1>4, <1>5, <1>6, <1>7, <1>8, <1>9, <1>10, <1>11 DEF Next, StrandRuns

\* The connection implements SerialService, its fairness aside: requests are
\* answered one at a time and in order, each exactly once, also by a cancel.
THEOREM ConnectionIsSerial == Spec => Service!SInit /\ [][Service!SNext]_(Service!svars)
<1>1. Init => Service!SInit
  <2> SUFFICES ASSUME Init PROVE Service!SInit
    OBVIOUS
  <2>1. Pending = <<>> /\ Answered = {}
    BY DEF Init, Pending, Answered
  <2> QED BY <2>1, ServiceActions DEF Init
<1>2. Spec => []PlaceInv
  BY PlaceInit, PlaceStep, ConnectionInductive, PTL DEF Spec
<1> QED BY <1>1, <1>2, ServiceStep, ConnectionInductive, PTL DEF Spec
=============================================================================
