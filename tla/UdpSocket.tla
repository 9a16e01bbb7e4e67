----------------------------- MODULE UdpSocket -----------------------------
(***************************************************************************)
(* The UDP socket of src/src/udp.cpp (src/include/ekizu/udp.hpp).          *)
(*                                                                         *)
(* Every method may be called from any thread.  The mutex m_m protects the *)
(* queue of receives and the flags, but the socket is used outside it, so  *)
(* a step here is one block under the mutex or one call on the socket, and *)
(* whatever other threads do happens in between.  `threads' holds the      *)
(* executions of start_receive and of a receive's completion that are      *)
(* under way, each with the receive it is about.                           *)
(*                                                                         *)
(* Datagrams are numbered in the order they arrive.  A receive has no      *)
(* timeout: without a datagram, an error or close() it waits.              *)
(***************************************************************************)
EXTENDS Naturals, Sequences, FiniteSets

CONSTANTS
  Receives,      \* calls of receive and receive_from, each made at most once
  Sends,         \* calls of send and send_to
  MaxDatagrams,  \* how many datagrams arrive
  Error, Canceled, Closed, NotConnected   \* errors a receive reports

ASSUME MaxDatagramsAssumption == MaxDatagrams \in Nat
ASSUME ErrorsAssumption ==
  {Error, Canceled, Closed, NotConnected} \cap Nat = {} /\ Closed \notin {Error, Canceled}

VARIABLES
  bound,                \* of bind: "idle", "resolving", "failed" or "bound"
  conn,                 \* of connect: "idle", "resolving", "checked", "connecting", "ok", "error" or "closed"
  m_recvq,
  m_receive_inflight,
  m_closing,
  m_connected,
  socket,               \* "open" or "closed"
  threads,
  closer,               \* close(): "idle", "socket", "answer" or "done"
  swapped,              \* the receives close() took from the queue
  arrived, taken,       \* datagrams that arrived, and that a receive took
  accepted,             \* receives in the order they were queued (history)
  result,               \* what each receive's handler was given (history)
  sending               \* where each send is, and in the end its result

vars == <<bound, conn, m_recvq, m_receive_inflight, m_closing, m_connected, socket, threads,
          closer, swapped, arrived, taken, accepted, result, sending>>

sendVars == <<sending>>
connVars == <<bound, conn, m_connected>>
closeVars == <<m_closing, socket, closer, swapped>>
wireVars == <<arrived, taken>>
queueVars == <<m_recvq, m_receive_inflight, accepted>>

Datagrams == 1..MaxDatagrams

TypeOK ==
  /\ bound \in {"idle", "resolving", "failed", "bound"}
  /\ conn \in {"idle", "resolving", "checked", "connecting", "ok", "error", "closed"}
  /\ m_recvq \in Seq(Receives) /\ accepted \in Seq(Receives) /\ swapped \in Seq(Receives)
  /\ m_receive_inflight \in BOOLEAN /\ m_closing \in BOOLEAN /\ m_connected \in BOOLEAN
  /\ socket \in {"open", "closed"}
  /\ threads \subseteq [at : {"start_receive", "popped", "on_socket", "answered"}, op : Receives]
                         \cup [at : {"completed", "decided"}, op : Receives,
                               ec : Datagrams \cup {Error, Canceled, Closed}]
  /\ closer \in {"idle", "socket", "answer", "done"}
  /\ arrived \in 0..MaxDatagrams /\ taken \in 0..arrived
  /\ result \in [Receives -> Seq(Datagrams \cup {Error, Canceled, Closed, NotConnected})]
  /\ sending \in [Sends -> {"idle", "resolving", "sending", "sent", "error", "not_connected",
                            "invalid_address"}]

Init ==
  /\ bound = "idle" /\ conn = "idle"
  /\ m_recvq = <<>> /\ m_receive_inflight = FALSE
  /\ m_closing = FALSE /\ m_connected = FALSE
  /\ socket = "closed" /\ threads = {}
  /\ closer = "idle" /\ swapped = <<>>
  /\ arrived = 0 /\ taken = 0
  /\ accepted = <<>>
  /\ result = [c \in Receives |-> <<>>]
  /\ sending = [s \in Sends |-> "idle"]

\* A receive that was called and whose handler was not called yet.
Called(c) == \E i \in DOMAIN accepted : accepted[i] = c
Waits(c) == Called(c) /\ result[c] = <<>>

-----------------------------------------------------------------------------
(* bind                                                                    *)

\* bind: an address that does not parse is refused before anything starts.
Bind ==
  /\ bound = "idle"
  /\ bound' \in {"resolving", "failed"}
  /\ UNCHANGED <<conn, m_connected, queueVars, closeVars, wireVars, threads, result, sendVars>>

\* on_resolve: open and bind the socket.
OnResolve ==
  /\ bound = "resolving"
  /\ \/ bound' = "failed" /\ UNCHANGED socket
     \/ bound' = "bound" /\ socket' = "open"
  /\ UNCHANGED <<conn, m_connected, m_closing, closer, swapped, queueVars, wireVars, threads,
                 result, sendVars>>

-----------------------------------------------------------------------------
(* connect                                                                 *)

AsyncConnect ==
  /\ bound = "bound" /\ conn = "idle"
  /\ conn' = "resolving"
  /\ UNCHANGED <<bound, m_connected, queueVars, closeVars, wireVars, threads, result, sendVars>>

\* The resolver's handler: an error, an empty list, or the look at m_closing.
ConnectResolved ==
  /\ conn = "resolving"
  /\ conn' \in {"error", IF m_closing THEN "closed" ELSE "checked"}
  /\ UNCHANGED <<bound, m_connected, queueVars, closeVars, wireVars, threads, result, sendVars>>

\* The call on the socket, outside the mutex: close() may have been faster.
ConnectSocket ==
  /\ conn = "checked"
  /\ conn' = IF socket = "open" THEN "connecting" ELSE "error"
  /\ UNCHANGED <<bound, m_connected, queueVars, closeVars, wireVars, threads, result, sendVars>>

ConnectDone ==
  /\ conn = "connecting"
  /\ \/ conn' = "error" /\ UNCHANGED m_connected
     \/ conn' = "ok" /\ m_connected' = TRUE
  /\ UNCHANGED <<bound, queueVars, closeVars, wireVars, threads, result, sendVars>>

-----------------------------------------------------------------------------
(* send and send_to                                                        *)

\* send needs m_connected; send_to with an endpoint needs nothing.  A socket
\* that was closed meanwhile makes the operation fail.
AsyncSend(s) ==
  /\ bound = "bound" /\ sending[s] = "idle"
  /\ sending' = [sending EXCEPT ![s] = IF m_connected THEN "sending" ELSE "not_connected"]
  /\ UNCHANGED <<connVars, queueVars, closeVars, wireVars, threads, result>>

AsyncSendTo(s) ==
  /\ bound = "bound" /\ sending[s] = "idle"
  /\ sending' = [sending EXCEPT ![s] = "sending"]
  /\ UNCHANGED <<connVars, queueVars, closeVars, wireVars, threads, result>>

\* send_to with a string parses it and resolves the host first.
AsyncSendToStr(s) ==
  /\ bound = "bound" /\ sending[s] = "idle"
  /\ \E r \in {"resolving", "invalid_address"} : sending' = [sending EXCEPT ![s] = r]
  /\ UNCHANGED <<connVars, queueVars, closeVars, wireVars, threads, result>>

SendToResolved(s) ==
  /\ sending[s] = "resolving"
  /\ \E r \in {"sending", "error"} : sending' = [sending EXCEPT ![s] = r]
  /\ UNCHANGED <<connVars, queueVars, closeVars, wireVars, threads, result>>

SendDone(s) ==
  /\ sending[s] = "sending"
  /\ \E r \in {"sent", "error"} :
       /\ r = "sent" => socket = "open"
       /\ sending' = [sending EXCEPT ![s] = r]
  /\ UNCHANGED <<connVars, queueVars, closeVars, wireVars, threads, result>>

-----------------------------------------------------------------------------
(* receive and receive_from                                                *)

Answer(c, r) == result' = [result EXCEPT ![c] = Append(@, r)]

\* The block under the mutex that the two kinds of receive share.
Enqueue(c) ==
  /\ m_recvq' = Append(m_recvq, c)
  /\ accepted' = Append(accepted, c)
  /\ m_receive_inflight' = TRUE
  /\ threads' = IF m_receive_inflight THEN threads
                ELSE threads \cup {[at |-> "start_receive", op |-> c]}
  /\ UNCHANGED result

\* connected: receive, which needs m_connected; otherwise receive_from.
AsyncReceive(c, connected) ==
  /\ bound = "bound" /\ ~Called(c) /\ result[c] = <<>>
  /\ \/ m_closing /\ Answer(c, Closed) /\ UNCHANGED <<queueVars, threads>>
     \/ /\ ~m_closing /\ connected /\ ~m_connected
        /\ Answer(c, NotConnected)
        /\ UNCHANGED <<queueVars, threads>>
     \/ ~m_closing /\ (connected => m_connected) /\ Enqueue(c)
  /\ UNCHANGED <<connVars, closeVars, wireVars, sendVars>>

\* Mutation: the newest receive is served first.
StartReceiveNewest(t) ==
  /\ t.at = "start_receive"
  /\ \/ /\ m_closing \/ m_recvq = <<>>
        /\ m_receive_inflight' = FALSE
        /\ threads' = threads \ {t}
        /\ UNCHANGED m_recvq
     \/ /\ ~m_closing /\ m_recvq # <<>>
        /\ m_recvq' = SubSeq(m_recvq, 1, Len(m_recvq) - 1)
        /\ threads' = (threads \ {t}) \cup {[at |-> "popped", op |-> m_recvq[Len(m_recvq)]]}
        /\ UNCHANGED m_receive_inflight
  /\ UNCHANGED <<accepted, connVars, closeVars, wireVars, result, sendVars>>

\* start_receive's block under the mutex.
StartReceive(t) ==
  /\ t.at = "start_receive"
  /\ \/ /\ m_closing \/ m_recvq = <<>>
        /\ m_receive_inflight' = FALSE
        /\ threads' = threads \ {t}
        /\ UNCHANGED m_recvq
     \/ /\ ~m_closing /\ m_recvq # <<>>
        /\ m_recvq' = Tail(m_recvq)
        /\ threads' = (threads \ {t}) \cup {[at |-> "popped", op |-> Head(m_recvq)]}
        /\ UNCHANGED m_receive_inflight
  /\ UNCHANGED <<accepted, connVars, closeVars, wireVars, result, sendVars>>

\* Its call on the socket: after close() it fails.
ReceiveOnSocket(t) ==
  /\ t.at = "popped"
  /\ threads' = (threads \ {t}) \cup
                  {IF socket = "open" THEN [at |-> "on_socket", op |-> t.op]
                   ELSE [at |-> "completed", op |-> t.op, ec |-> Error]}
  /\ UNCHANGED <<queueVars, connVars, closeVars, wireVars, result, sendVars>>

\* The socket completes a receive, with a datagram or with an error (a port
\* that is unreachable, say).
SocketReceives(t) ==
  /\ t.at = "on_socket" /\ taken < arrived
  /\ taken' = taken + 1
  /\ threads' = (threads \ {t}) \cup {[at |-> "completed", op |-> t.op, ec |-> taken + 1]}
  /\ UNCHANGED <<arrived, queueVars, connVars, closeVars, result, sendVars>>

SocketFails(t) ==
  /\ t.at = "on_socket"
  /\ threads' = (threads \ {t}) \cup {[at |-> "completed", op |-> t.op, ec |-> Error]}
  /\ UNCHANGED <<queueVars, connVars, closeVars, wireVars, result, sendVars>>

\* Mutation: the error is reported as it is.
CompleteWithRawError(t) ==
  /\ t.at = "completed"
  /\ threads' = (threads \ {t}) \cup {[at |-> "decided", op |-> t.op, ec |-> t.ec]}
  /\ UNCHANGED <<queueVars, connVars, closeVars, wireVars, result, sendVars>>

\* The completion's first block under the mutex: an error after close() is to
\* be reported as udp_closed.
Complete(t) ==
  /\ t.at = "completed"
  /\ threads' = (threads \ {t}) \cup
                  {[at |-> "decided", op |-> t.op,
                    ec |-> IF t.ec \in {Error, Canceled} /\ m_closing THEN Closed ELSE t.ec]}
  /\ UNCHANGED <<queueVars, connVars, closeVars, wireVars, result, sendVars>>

\* The handler is posted, outside the mutex.
Deliver(t) ==
  /\ t.at = "decided"
  /\ Answer(t.op, t.ec)
  /\ threads' = (threads \ {t}) \cup {[at |-> "answered", op |-> t.op]}
  /\ UNCHANGED <<queueVars, connVars, closeVars, wireVars, sendVars>>

\* Mutation: the flag is cleared although the next receive is started.
NextReceiveNotInflight(t) ==
  /\ t.at = "answered"
  /\ m_receive_inflight' = FALSE
  /\ threads' = (threads \ {t}) \cup
                  (IF ~m_closing /\ m_recvq # <<>>
                   THEN {[at |-> "start_receive", op |-> t.op]} ELSE {})
  /\ UNCHANGED <<m_recvq, accepted, connVars, closeVars, wireVars, result, sendVars>>

\* Mutation: the queue is not looked at again.
NextReceiveIsForgotten(t) ==
  /\ t.at = "answered"
  /\ m_receive_inflight' = (~m_closing /\ m_recvq # <<>>)
  /\ threads' = threads \ {t}
  /\ UNCHANGED <<m_recvq, accepted, connVars, closeVars, wireVars, result, sendVars>>

\* Its second block: start the next receive or clear the flag.
NextReceive(t) ==
  /\ t.at = "answered"
  /\ m_receive_inflight' = (~m_closing /\ m_recvq # <<>>)
  /\ threads' = (threads \ {t}) \cup
                  (IF m_receive_inflight' THEN {[at |-> "start_receive", op |-> t.op]} ELSE {})
  /\ UNCHANGED <<m_recvq, accepted, connVars, closeVars, wireVars, result, sendVars>>

\* external: a datagram reaches the socket.
Arrive ==
  /\ socket = "open" /\ arrived < MaxDatagrams
  /\ arrived' = arrived + 1
  /\ UNCHANGED <<taken, queueVars, connVars, closeVars, threads, result, sendVars>>

-----------------------------------------------------------------------------
(* close                                                                   *)

\* close(), or the destructor: the block under the mutex.  A second call
\* returns at once.
Close ==
  /\ bound = "bound" /\ ~m_closing
  /\ m_closing' = TRUE
  /\ swapped' = m_recvq /\ m_recvq' = <<>>
  /\ closer' = "socket"
  /\ UNCHANGED <<socket, m_receive_inflight, accepted, connVars, wireVars, threads, result, sendVars>>

\* The socket is closed outside the mutex; a receive on it is aborted with
\* operation_aborted, which compares equal to operation_canceled.
CloseSocket ==
  /\ closer = "socket" /\ closer' = "answer"
  /\ socket' = "closed"
  /\ threads' = {t \in threads : t.at # "on_socket"}
                  \cup {[at |-> "completed", op |-> t.op, ec |-> Canceled] :
                          t \in {u \in threads : u.at = "on_socket"}}
  /\ UNCHANGED <<m_closing, swapped, queueVars, connVars, wireVars, result, sendVars>>

\* complete_canceled for what was taken from the queue.
CloseAnswers ==
  /\ closer = "answer" /\ closer' = "done"
  /\ result' = [c \in Receives |->
                  IF \E i \in DOMAIN swapped : swapped[i] = c
                  THEN Append(result[c], Closed) ELSE result[c]]
  /\ swapped' = <<>>
  /\ UNCHANGED <<m_closing, socket, queueVars, connVars, wireVars, threads, sendVars>>

ReceiveSteps ==
  \E t \in threads : \/ StartReceive(t) \/ ReceiveOnSocket(t) \/ Complete(t)
                      \/ Deliver(t) \/ NextReceive(t)

Next ==
  \/ Bind \/ OnResolve
  \/ AsyncConnect \/ ConnectResolved \/ ConnectSocket \/ ConnectDone
  \/ \E s \in Sends : \/ AsyncSend(s) \/ AsyncSendTo(s) \/ AsyncSendToStr(s)
                      \/ SendToResolved(s) \/ SendDone(s)
  \/ \E c \in Receives, connected \in BOOLEAN : AsyncReceive(c, connected)
  \/ ReceiveSteps
  \/ \E t \in threads : SocketReceives(t) \/ SocketFails(t)
  \/ Arrive
  \/ Close \/ CloseSocket \/ CloseAnswers

Spec == Init /\ [][Next]_vars

\* Threads and handlers run, and the socket gives a datagram that is there to
\* the receive that waits on it.  Datagrams need not arrive.
Fairness ==
  /\ WF_vars(ReceiveSteps)
  /\ WF_vars(\E t \in threads : SocketReceives(t))
  /\ WF_vars(CloseSocket \/ CloseAnswers)

FairSpec == Spec /\ Fairness

-----------------------------------------------------------------------------
(* Properties.                                                             *)

\* m_receive_inflight says exactly whether somebody is serving the queue, and
\* never two are, although the flag is read and the socket used in different
\* blocks; and a queue that close() did not take has somebody serving it.
OneServesTheQueue ==
  /\ Cardinality(threads) <= 1
  /\ m_receive_inflight <=> threads # {}
  /\ m_recvq # <<>> => threads # {}

\* Every handler is called at most once, also when close() takes the queue
\* while a receive is handed to the socket, and datagrams reach the receives
\* in the order of the calls.
AnsweredOnceInOrder ==
  /\ \A c \in Receives : Len(result[c]) <= 1
  /\ \A i, j \in DOMAIN accepted :
       LET ri == result[accepted[i]]
           rj == result[accepted[j]]
       IN i < j /\ rj # <<>> /\ rj[1] \in Datagrams =>
            /\ ri # <<>>
            /\ ri[1] \in Datagrams => ri[1] < rj[1]

\* What the handler of c will be told is decided.
Decided(c) == \E t \in threads : t.at = "decided" /\ t.op = c

\* The destructor's guarantee: a receive that waits when close() is called is
\* answered, and an error is then reported as udp_closed, unless the receive had
\* failed and its completion looked at m_closing before.
CloseAnswersAll ==
  \A c \in Receives :
    /\ (m_closing /\ Waits(c)) ~> (result[c] # <<>>)
    /\ (m_closing /\ Waits(c) /\ ~Decided(c))
         ~> (result[c] # <<>> /\ result[c][1] \notin {Error, Canceled})

\* What tests/test_udp_basic.cpp requires of a receive that waits when close() is
\* called: operation_canceled, not udp_closed.
ClosedReceivesAreCanceled ==
  [][\A c \in Receives :
       m_closing /\ Waits(c) /\ result'[c] # <<>> =>
         result'[c][1] \in Datagrams \cup {Canceled}]_vars

\* A datagram does not stay in the socket while a receive waits.
DatagramsAreDelivered ==
  (taken < arrived /\ \E c \in Receives : Waits(c))
    ~> (taken = arrived \/ ~ \E c \in Receives : Waits(c))
=============================================================================
