--------------------------- MODULE UdpSocketProofs ---------------------------
(***************************************************************************)
(* Proofs about UdpSocket, for any sets of receives and sends and any      *)
(* number of datagrams: the flag and the queue agree with who serves them, *)
(* every receive is answered at most once and in order, and none that      *)
(* waits is forgotten.                                                     *)
(***************************************************************************)
EXTENDS UdpSocket, SequenceTheorems, FiniteSetTheorems, TLAPS

Thread == [at : {"start_receive", "popped", "on_socket", "answered"}, op : Receives]
            \cup [at : {"completed", "decided"}, op : Receives,
                  ec : Datagrams \cup {Error, Canceled, Closed}]

\* What serves the queue: at most one thread, which the flag announces.  A
\* closing socket has no queue, so that start_receive and NextReceive clear
\* the flag only when there is nothing left to serve.
ServeInv ==
  /\ arrived \in 0..MaxDatagrams /\ taken \in 0..arrived
  /\ m_recvq \in Seq(Receives)
  /\ m_receive_inflight \in BOOLEAN
  /\ m_closing \in BOOLEAN
  /\ threads \subseteq Thread
  /\ \A t, u \in threads : t = u
  /\ m_receive_inflight <=> threads # {}
  /\ m_recvq # <<>> => threads # {}
  /\ m_closing => m_recvq = <<>>

\* Two elements are what a set of more than one holds.
LEMMA AtMostOne ==
  ASSUME NEW S, \A a, b \in S : a = b
  PROVE  IsFiniteSet(S) /\ Cardinality(S) <= 1
<1>1. CASE S = {}
  BY <1>1, FS_EmptySet
<1>2. CASE S # {}
  <2>1. PICK a \in S : TRUE
    BY <1>2
  <2>2. S = {a}
    BY <2>1
  <2>3. Cardinality(S) = 1 /\ IsFiniteSet(S)
    BY <2>2, FS_Singleton
  <2> QED BY <2>3
<1> QED BY <1>1, <1>2

\* The step case of ServeInv, one action at a time.
LEMMA ServeStep == ServeInv /\ [Next]_vars => ServeInv'
<1> SUFFICES ASSUME ServeInv, [Next]_vars PROVE ServeInv'
  OBVIOUS
<1> USE DEF ServeInv
<1>0. (arrived \in 0..MaxDatagrams /\ taken \in 0..arrived)'
  <2>1. CASE Arrive
    BY <2>1, MaxDatagramsAssumption DEF Arrive
  <2>2. CASE \E t \in threads : SocketReceives(t)
    BY <2>2, MaxDatagramsAssumption DEF SocketReceives
  <2>3. CASE UNCHANGED <<arrived, taken>>
    BY <2>3
  <2> QED
    BY <2>1, <2>2, <2>3 DEF Next, ReceiveSteps, Bind, OnResolve, AsyncConnect, ConnectResolved,
       ConnectSocket, ConnectDone, AsyncSend, AsyncSendTo, AsyncSendToStr, SendToResolved,
       SendDone, AsyncReceive, StartReceive, ReceiveOnSocket, SocketFails, Complete, Deliver,
       NextReceive, Close, CloseSocket, CloseAnswers, vars, wireVars
<1> USE <1>0
<1>1. ASSUME NEW c \in Receives, NEW k \in BOOLEAN, AsyncReceive(c, k)
      PROVE  ServeInv'
  <2>1. CASE UNCHANGED <<queueVars, threads>>
    BY <1>1, <2>1 DEF AsyncReceive, queueVars, closeVars
  <2>2. CASE ~m_closing /\ Enqueue(c)
    <3>1. [at |-> "start_receive", op |-> c] \in Thread
      BY DEF Thread
    <3>2. m_recvq' \in Seq(Receives) /\ m_recvq' # <<>>
      BY <2>2, AppendProperties DEF Enqueue
    <3>3. UNCHANGED m_closing
      BY <1>1 DEF AsyncReceive, closeVars
    <3> QED BY <2>2, <3>1, <3>2, <3>3 DEF Enqueue
  <2> QED BY <1>1, <2>1, <2>2 DEF AsyncReceive
<1>2. ASSUME NEW t \in threads, StartReceive(t)
      PROVE  ServeInv'
  <2>1. threads \ {t} = {} /\ t \in Thread /\ m_receive_inflight
    OBVIOUS
  <2>2. UNCHANGED m_closing
    BY <1>2 DEF StartReceive, closeVars
  <2>3. CASE m_closing \/ m_recvq = <<>>
    BY <1>2, <2>1, <2>2, <2>3 DEF StartReceive
  <2>4. CASE ~m_closing /\ m_recvq # <<>>
    <3>1. Tail(m_recvq) \in Seq(Receives) /\ Head(m_recvq) \in Receives
      BY <2>4, HeadTailProperties
    <3>2. [at |-> "popped", op |-> Head(m_recvq)] \in Thread
      BY <3>1 DEF Thread
    <3>3. threads' = {[at |-> "popped", op |-> Head(m_recvq)]} /\ m_recvq' = Tail(m_recvq)
            /\ UNCHANGED m_receive_inflight
      BY <1>2, <2>1, <2>4 DEF StartReceive
    <3> QED BY <2>1, <2>2, <2>4, <3>1, <3>2, <3>3
  <2> QED BY <2>3, <2>4
<1>3. ASSUME NEW t \in threads, NEW u \in Thread, threads' = (threads \ {t}) \cup {u},
             UNCHANGED <<m_recvq, m_receive_inflight, m_closing>>
      PROVE  ServeInv'
  <2>1. threads' = {u}
    BY <1>3
  <2> QED BY <1>3, <2>1
<1>4. ASSUME NEW t \in threads,
             ReceiveOnSocket(t) \/ SocketReceives(t) \/ SocketFails(t) \/ Complete(t) \/ Deliver(t)
      PROVE  ServeInv'
  <2>1. t.op \in Receives
    BY DEF Thread
  <2>2. \A k \in {"on_socket", "answered"} : [at |-> k, op |-> t.op] \in Thread
    BY <2>1 DEF Thread
  <2>3. \A x \in Datagrams \cup {Error, Canceled, Closed}, k \in {"completed", "decided"} :
          [at |-> k, op |-> t.op, ec |-> x] \in Thread
    BY <2>1 DEF Thread
  <2>4. UNCHANGED <<m_recvq, m_receive_inflight, m_closing>>
    BY <1>4 DEF ReceiveOnSocket, SocketReceives, SocketFails, Complete, Deliver, queueVars,
       closeVars
  <2>5. CASE SocketReceives(t)
    <3>1. taken + 1 \in Datagrams
      BY <2>5, MaxDatagramsAssumption DEF SocketReceives, Datagrams, ServeInv
    <3> QED BY <1>3, <2>3, <2>4, <2>5, <3>1 DEF SocketReceives
  <2>6. CASE ReceiveOnSocket(t) \/ SocketFails(t) \/ Deliver(t)
    BY <1>3, <2>2, <2>3, <2>4, <2>6 DEF ReceiveOnSocket, SocketFails, Deliver
  <2>7. CASE Complete(t)
    <3>1. t.ec \in Datagrams \cup {Error, Canceled, Closed}
      BY <2>7 DEF Complete, Thread
    <3> QED BY <1>3, <2>3, <2>4, <2>7, <3>1 DEF Complete
  <2> QED BY <1>4, <2>5, <2>6, <2>7
<1>5. ASSUME NEW t \in threads, NextReceive(t)
      PROVE  ServeInv'
  <2>1. threads \ {t} = {} /\ t.op \in Receives
    BY DEF Thread
  <2>2. [at |-> "start_receive", op |-> t.op] \in Thread
    BY <2>1 DEF Thread
  <2>3. UNCHANGED <<m_recvq, m_closing>> /\ m_receive_inflight' = (~m_closing /\ m_recvq # <<>>)
    BY <1>5 DEF NextReceive, closeVars
  <2>4. threads' = IF m_receive_inflight' THEN {[at |-> "start_receive", op |-> t.op]} ELSE {}
    BY <1>5, <2>1 DEF NextReceive
  <2> QED BY <2>2, <2>3, <2>4
<1>6. CASE Close
  BY <1>6 DEF Close
<1>7. CASE CloseSocket
  <2> DEFINE fails(t) == [at |-> "completed", op |-> t.op, ec |-> Canceled]
  <2>1. UNCHANGED <<m_recvq, m_receive_inflight, m_closing>>
    BY <1>7 DEF CloseSocket, queueVars
  <2>2. CASE threads = {}
    <3>1. threads' = {}
      BY <1>7, <2>2 DEF CloseSocket
    <3> QED BY <2>1, <2>2, <3>1
  <2>3. ASSUME NEW t \in threads PROVE ServeInv'
    <3>1. threads = {t} /\ t.op \in Receives
      BY DEF Thread
    <3>2. threads' = {t} \/ threads' = {fails(t)}
      BY <1>7, <3>1 DEF CloseSocket
    <3>3. fails(t) \in Thread
      BY <3>1 DEF Thread
    <3> QED BY <2>1, <3>1, <3>2, <3>3
  <2> QED BY <2>2, <2>3
<1>8. CASE UNCHANGED <<m_recvq, m_receive_inflight, m_closing, threads>>
  BY <1>8
<1>9. Bind \/ OnResolve \/ AsyncConnect \/ ConnectResolved \/ ConnectSocket \/ ConnectDone
        \/ (\E s \in Sends : AsyncSend(s) \/ AsyncSendTo(s) \/ AsyncSendToStr(s)
                              \/ SendToResolved(s) \/ SendDone(s))
        \/ Arrive \/ CloseAnswers \/ UNCHANGED vars
      => UNCHANGED <<m_recvq, m_receive_inflight, m_closing, threads>>
  BY DEF Bind, OnResolve, AsyncConnect, ConnectResolved, ConnectSocket, ConnectDone, AsyncSend,
     AsyncSendTo, AsyncSendToStr, SendToResolved, SendDone, Arrive, CloseAnswers, vars, queueVars,
     closeVars
<1> QED
  BY <1>1, <1>2, <1>4, <1>5, <1>6, <1>7, <1>8, <1>9 DEF Next, ReceiveSteps

\* A thread that holds a receive whose handler was not called yet.
Holds(t) == t.at \in {"popped", "on_socket", "completed", "decided"}

Result(i) == result[accepted[i]]
Num(i) == Len(Result(i)) = 1 /\ Result(i)[1] \in Nat

\* Where the receives are, in the order of the calls: the first p left the
\* queue, of which the last may be held by the thread that serves the queue;
\* the others are in the queue, or in the copy close() took, or were answered
\* by close().
ListInv(p) ==
  /\ accepted \in Seq(Receives) /\ p \in 0..Len(accepted)
  /\ \A i, j \in 1..Len(accepted) : accepted[i] = accepted[j] => i = j

QueueInv(p) ==
  /\ closer \in {"idle", "socket", "answer", "done"}
  /\ m_closing <=> closer # "idle"
  /\ closer = "idle" => m_recvq = SubSeq(accepted, p + 1, Len(accepted))
  /\ closer \in {"socket", "answer"} => swapped = SubSeq(accepted, p + 1, Len(accepted))

AnswerInv(p) ==
  /\ \A i \in p + 1..Len(accepted) : Result(i) = IF closer = "done" THEN <<Closed>> ELSE <<>>
  /\ \A i \in 1..p : Len(Result(i)) <= 1
  /\ \A i \in 1..p : Result(i) = <<>> => i = p /\ \E t \in threads : Holds(t)

ResultInv ==
  /\ result \in [Receives -> Seq(Nat \cup {Error, Canceled, Closed, NotConnected})]
  /\ \A c \in Receives : ~Called(c) => Len(result[c]) <= 1

\* The thread that holds a receive holds the last that left the queue, and a
\* datagram it has for it is newer than those delivered before.
HoldInv(p) ==
  \A t \in threads : Holds(t) =>
    /\ p > 0 /\ t.op = accepted[p] /\ Result(p) = <<>>
    /\ t.at \in {"completed", "decided"} /\ t.ec \in Nat =>
         /\ t.ec \in 1..taken
         /\ \A i \in 1..p : Num(i) => Result(i)[1] < t.ec

\* Datagrams were delivered in the order of the calls.
OrderInv(p) ==
  /\ \A i \in 1..p : Num(i) => Result(i)[1] <= taken
  /\ \A i, j \in 1..p : i < j /\ Num(i) /\ Num(j) => Result(i)[1] < Result(j)[1]

Placed(p) ==
  ListInv(p) /\ QueueInv(p) /\ AnswerInv(p) /\ ResultInv /\ HoldInv(p) /\ OrderInv(p)

UInv == ServeInv /\ \E p \in 0..Len(accepted) : Placed(p)

\* The order of the datagrams looks only at results and at what was taken.
LEMMA OrderUnchanged ==
  ASSUME NEW p \in Nat, OrderInv(p), taken \in Nat, taken' \in Nat, taken <= taken',
         \A i \in 1..p : Result(i)' = Result(i)
  PROVE  OrderInv(p)' /\ \A i \in 1..p : Num(i)' <=> Num(i)
<1>1. \A i \in 1..p : Num(i)' <=> Num(i)
  BY DEF Num
<1>2. \A i \in 1..p : Num(i) => Result(i)[1] \in Nat
  BY DEF Num
<1> QED BY <1>1, <1>2 DEF OrderInv

\* A step that leaves the receives where they are.
LEMMA PlaceUnchanged ==
  ASSUME NEW p \in Nat, Placed(p),
         UNCHANGED <<accepted, result, closer, m_closing, m_recvq, swapped, threads, taken>>
  PROVE  Placed(p)'
BY DEF Placed, ListInv, QueueInv, AnswerInv, ResultInv, HoldInv, OrderInv, Holds, Num, Result, Called

\* A receive that is not in `accepted' is told at once.
LEMMA TellKeeps ==
  ASSUME ServeInv, NEW p \in Nat, Placed(p), NEW c \in Receives, ~Called(c), result[c] = <<>>,
         NEW r \in {Closed, NotConnected}, Answer(c, r),
         UNCHANGED <<accepted, closer, m_closing, m_recvq, swapped, threads, taken>>
  PROVE  Placed(p)'
<1> USE DEF Placed
<1>1. accepted \in Seq(Receives) /\ p \in 0..Len(accepted) /\ DOMAIN accepted = 1..Len(accepted)
        /\ taken \in Nat /\ result \in [Receives -> Seq(Nat \cup {Error, Canceled, Closed, NotConnected})]
  BY DEF ListInv, ResultInv, ServeInv
<1>2. \A i \in 1..Len(accepted) : Result(i)' = Result(i)
  <2>1. \A i \in 1..Len(accepted) : accepted[i] # c
    BY <1>1 DEF Called
  <2>2. \A i \in 1..Len(accepted) : accepted[i] \in Receives
    BY <1>1, ElementOfSeq
  <2> QED BY <1>1, <2>1, <2>2 DEF Answer, Result
<1>3. result' \in [Receives -> Seq(Nat \cup {Error, Canceled, Closed, NotConnected})]
        /\ \A d \in Receives : d # c => result'[d] = result[d]
  <2>1. Append(result[c], r) \in Seq(Nat \cup {Error, Canceled, Closed, NotConnected})
    BY <1>1, AppendProperties
  <2> QED BY <1>1, <2>1 DEF Answer
<1>4. Len(result'[c]) <= 1
  BY <1>1 DEF Answer
<1>5. \A i \in 1..p : i \in 1..Len(accepted)
  BY <1>1
<1>6. \A i \in p + 1..Len(accepted) : i \in 1..Len(accepted)
  BY <1>1
<1>7. ListInv(p)' /\ QueueInv(p)'
  BY DEF ListInv, QueueInv
<1>8. ResultInv'
  BY <1>3, <1>4 DEF ResultInv, Called
<1>9. AnswerInv(p)'
  BY <1>1, <1>2, <1>5, <1>6 DEF AnswerInv
<1>10. OrderInv(p)' /\ \A i \in 1..p : Num(i)' <=> Num(i)
  BY <1>1, <1>2, <1>5, OrderUnchanged
<1>11. HoldInv(p)'
  <2>1. p > 0 => p \in 1..p
    BY <1>1
  <2> QED BY <1>2, <1>5, <1>10, <2>1 DEF HoldInv
<1> QED BY <1>7, <1>8, <1>9, <1>10, <1>11

\* A receive is queued.
LEMMA EnqueueKeeps ==
  ASSUME ServeInv, NEW p \in Nat, Placed(p), NEW c \in Receives, ~Called(c), result[c] = <<>>,
         ~m_closing, Enqueue(c), UNCHANGED <<closer, m_closing, swapped, taken>>
  PROVE  Placed(p)'
<1> USE DEF Placed
<1> DEFINE n == Len(accepted)
<1>1. accepted \in Seq(Receives) /\ p \in 0..n /\ n \in Nat /\ closer = "idle" /\ taken \in Nat
        /\ m_recvq = SubSeq(accepted, p + 1, n) /\ DOMAIN accepted = 1..n
  BY DEF ListInv, QueueInv, ServeInv
<1>2. accepted' \in Seq(Receives) /\ Len(accepted') = n + 1 /\ accepted'[n + 1] = c
        /\ (\A i \in 1..n : accepted'[i] = accepted[i]) /\ DOMAIN accepted' = 1..n + 1
  BY <1>1, AppendProperties DEF Enqueue
<1>3. UNCHANGED result
  BY DEF Enqueue
<1>4. \A i \in 1..n : Result(i)' = Result(i)
  BY <1>2, <1>3 DEF Result
<1>5. \A i \in 1..n + 1 : i \in 1..n \/ i = n + 1
  BY <1>1
<1>6. ListInv(p)'
  <2>1. \A i \in 1..n : accepted[i] # c
    BY <1>1 DEF Called
  <2>2. \A i, j \in 1..n + 1 : accepted'[i] = accepted'[j] => i = j
    BY <1>2, <1>5, <2>1 DEF ListInv
  <2>3. p \in 0..n + 1
    BY <1>1
  <2> QED BY <1>2, <2>2, <2>3 DEF ListInv
<1>7. QueueInv(p)'
  <2>1. m_recvq' = Append(SubSeq(accepted, p + 1, n), c) /\ accepted' = Append(accepted, c)
    BY <1>1 DEF Enqueue
  <2>2. SubSeq(Append(accepted, c), p + 1, n + 1) = Append(SubSeq(accepted, p + 1, n), c)
    <3> DEFINE a == SubSeq(Append(accepted, c), p + 1, n + 1)
               b == Append(SubSeq(accepted, p + 1, n), c)
    <3>1. a \in Seq(Receives) /\ Len(a) = n + 1 - p
      BY <1>1, <1>2, <2>1, SubSeqProperties
    <3>2. b \in Seq(Receives) /\ Len(b) = n + 1 - p
      BY <1>1, SubSeqProperties, AppendProperties
    <3>3. \A i \in 1..n - p : a[i] = b[i]
      BY <1>1
    <3>4. a[n + 1 - p] = c /\ b[n + 1 - p] = c
      BY <1>1
    <3>5. \A i \in 1..n + 1 - p : i \in 1..n - p \/ i = n + 1 - p
      BY <1>1
    <3> QED BY <3>1, <3>2, <3>3, <3>4, <3>5, SeqEqual
  <2> QED BY <1>1, <1>2, <2>1, <2>2 DEF QueueInv
<1>8. ResultInv'
  BY <1>1, <1>2, <1>3 DEF ResultInv, Called
<1>9. \A t \in threads : t \in threads'
  BY DEF Enqueue
<1>10. \A t \in threads' : Holds(t) => t \in threads
  BY DEF Enqueue, Holds
<1>11. \A i \in 1..p : i \in 1..n
  BY <1>1
<1>12. AnswerInv(p)'
  <2>1. \A i \in p + 1..n + 1 : i \in p + 1..n \/ i = n + 1
    BY <1>1
  <2>2. \A i \in p + 1..n : i \in 1..n
    BY <1>1
  <2>3. result'[accepted'[n + 1]] = <<>>
    BY <1>2, <1>3
  <2>4. \A i \in p + 1..n : Result(i)' = <<>>
    BY <1>1, <1>4, <2>2 DEF AnswerInv
  <2>5. \A i \in p + 1..n + 1 : Result(i)' = <<>>
    BY <2>1, <2>3, <2>4 DEF Result
  <2> QED BY <1>1, <1>2, <1>4, <1>9, <1>11, <2>5 DEF AnswerInv
<1>13. OrderInv(p)' /\ \A i \in 1..p : Num(i)' <=> Num(i)
  BY <1>1, <1>4, <1>11, OrderUnchanged
<1>14. HoldInv(p)'
  <2>1. p > 0 => p \in 1..p
    BY <1>1
  <2> QED BY <1>2, <1>4, <1>10, <1>11, <1>13, <2>1 DEF HoldInv
<1> QED BY <1>6, <1>7, <1>8, <1>12, <1>13, <1>14

\* start_receive takes a receive from the queue.
LEMMA PopKeeps ==
  ASSUME ServeInv, NEW p \in Nat, Placed(p), NEW t \in threads, StartReceive(t),
         ~m_closing, m_recvq # <<>>
  PROVE  p + 1 \in 0..Len(accepted)' /\ Placed(p + 1)'
<1> USE DEF Placed
<1> DEFINE n == Len(accepted)
           u == [at |-> "popped", op |-> accepted[p + 1]]
<1>1. accepted \in Seq(Receives) /\ p \in 0..n /\ n \in Nat /\ closer = "idle" /\ taken \in Nat
        /\ m_recvq = SubSeq(accepted, p + 1, n)
  BY DEF ListInv, QueueInv, ServeInv
<1>2. p < n /\ p + 1 \in 1..n
  BY <1>1
<1>3. Head(m_recvq) = accepted[p + 1] /\ Tail(m_recvq) = SubSeq(accepted, p + 2, n)
  BY <1>1, <1>2
<1>4. threads' = {u} /\ UNCHANGED <<accepted, result, closer, m_closing, swapped, taken>>
        /\ m_recvq' = Tail(m_recvq)
  <2>1. threads = {t}
    BY DEF ServeInv
  <2> QED
    BY <1>3, <2>1 DEF StartReceive, closeVars, wireVars
<1>5. Result(p + 1) = <<>> /\ ~Num(p + 1) /\ Len(Result(p + 1)) = 0
  <2>1. Result(p + 1) = <<>>
    BY <1>1, <1>2 DEF AnswerInv
  <2> QED BY <2>1 DEF Num
<1>6. \A i \in 1..p : Result(i) # <<>>
  <2>1. \A v \in threads : ~Holds(v)
    BY DEF ServeInv, StartReceive, Holds
  <2> QED BY <2>1 DEF AnswerInv
<1>7. \A i \in 1..p + 1 : i \in 1..p \/ i = p + 1
  BY <1>1
<1>8. \A i : Result(i)' = Result(i) /\ (Num(i)' <=> Num(i))
  BY <1>4 DEF Result, Num
<1>9. ListInv(p + 1)' /\ ResultInv'
  BY <1>2, <1>4 DEF ListInv, ResultInv, Called
<1>10. QueueInv(p + 1)'
  <2>1. (p + 1) + 1 = p + 2
    BY <1>1
  <2> QED BY <1>1, <1>3, <1>4, <2>1 DEF QueueInv
<1>11. AnswerInv(p + 1)'
  <2>1. Holds(u)
    BY DEF Holds
  <2>2. \A i \in (p + 1) + 1..n : i \in p + 1..n
    BY <1>1
  <2> QED BY <1>1, <1>4, <1>5, <1>6, <1>7, <1>8, <2>1, <2>2 DEF AnswerInv
<1>12. HoldInv(p + 1)'
  BY <1>1, <1>4, <1>5, <1>8 DEF HoldInv
<1>13. OrderInv(p + 1)'
  BY <1>4, <1>5, <1>7, <1>8 DEF OrderInv
<1> QED BY <1>1, <1>2, <1>4, <1>9, <1>10, <1>11, <1>12, <1>13

\* The thread that holds a receive goes on with it.
LEMMA HoldKeeps ==
  ASSUME ServeInv, NEW p \in Nat, Placed(p), NEW t \in threads, Holds(t),
         NEW u, Holds(u), u.op = t.op, threads' = {u},
         taken' \in Nat, taken' >= taken,
         u.at \in {"completed", "decided"} /\ u.ec \in Nat =>
           u.ec \in 1..taken' /\ \A i \in 1..p : Num(i) => Result(i)[1] < u.ec,
         UNCHANGED <<accepted, result, closer, m_closing, m_recvq, swapped>>
  PROVE  Placed(p)'
<1> USE DEF Placed
<1>1. \A i : Result(i)' = Result(i) /\ (Num(i)' <=> Num(i))
  BY DEF Result, Num
<1>2. ListInv(p)' /\ QueueInv(p)' /\ ResultInv'
  BY DEF ListInv, QueueInv, ResultInv, Called
<1>3. AnswerInv(p)'
  BY <1>1 DEF AnswerInv
<1>4. HoldInv(p)'
  BY <1>1 DEF HoldInv
<1>5. OrderInv(p)'
  BY <1>1, OrderUnchanged DEF ServeInv
<1> QED BY <1>2, <1>3, <1>4, <1>5

\* The thread that serves the queue holds no receive before and after the step.
LEMMA FreeKeeps ==
  ASSUME NEW p \in Nat, Placed(p), \A t \in threads : ~Holds(t), \A t \in threads' : ~Holds(t),
         UNCHANGED <<accepted, result, closer, m_closing, m_recvq, swapped, taken>>
  PROVE  Placed(p)'
<1> USE DEF Placed
<1>1. \A i : Result(i)' = Result(i) /\ (Num(i)' <=> Num(i))
  BY DEF Result, Num
<1>2. ListInv(p)' /\ QueueInv(p)' /\ ResultInv'
  BY DEF ListInv, QueueInv, ResultInv, Called
<1>3. AnswerInv(p)' /\ HoldInv(p)' /\ OrderInv(p)'
  BY <1>1 DEF AnswerInv, HoldInv, OrderInv
<1> QED BY <1>2, <1>3

\* The handler of the receive that is held is called.
LEMMA DeliverKeeps ==
  ASSUME ServeInv, NEW p \in Nat, Placed(p), NEW t \in threads, Deliver(t)
  PROVE  Placed(p)'
<1> USE DEF Placed
<1> DEFINE n == Len(accepted)
           T == Nat \cup {Error, Canceled, Closed, NotConnected}
           r == t.ec
<1>1. accepted \in Seq(Receives) /\ p \in 0..n /\ n \in Nat /\ taken \in Nat
        /\ result \in [Receives -> Seq(T)] /\ DOMAIN accepted = 1..n
  BY DEF ListInv, ResultInv, ServeInv
<1>2. t.at = "decided" /\ Answer(t.op, r)
        /\ UNCHANGED <<accepted, closer, m_closing, m_recvq, swapped, taken>>
  BY DEF Deliver, queueVars, closeVars, wireVars
<1>3. p > 0 /\ p \in 1..p /\ p \in 1..n /\ t.op = accepted[p] /\ Result(p) = <<>>
        /\ (t.ec \in Nat => t.ec \in 1..taken /\ \A i \in 1..p : Num(i) => Result(i)[1] < t.ec)
  BY <1>1, <1>2 DEF HoldInv, Holds
<1>4. t.ec \in Datagrams \cup {Error, Canceled, Closed}
  BY <1>2 DEF ServeInv, Thread
<1>5. r \in T
  BY <1>4, MaxDatagramsAssumption DEF Datagrams
<1>6. \A i \in 1..n : accepted[i] \in Receives
  BY <1>1, ElementOfSeq
<1>7. result' = [result EXCEPT ![accepted[p]] = <<r>>]
  <2>1. Append(result[accepted[p]], r) = <<r>>
    BY <1>3 DEF Result
  <2> QED BY <1>2, <1>3, <2>1 DEF Answer
<1>8. Result(p)' = <<r>>
  BY <1>1, <1>2, <1>3, <1>6, <1>7 DEF Result
<1>9. \A i \in 1..n : i # p => Result(i)' = Result(i) /\ (Num(i)' <=> Num(i))
  <2>1. \A i \in 1..n : i # p => accepted[i] # accepted[p]
    BY <1>3 DEF ListInv
  <2> QED BY <1>1, <1>2, <1>3, <1>6, <1>7, <2>1 DEF Result, Num
<1>10. \A i \in 1..p : i \in 1..n
  BY <1>1
<1>11. ListInv(p)' /\ QueueInv(p)'
  BY <1>2 DEF ListInv, QueueInv
<1>12. ResultInv'
  <2>1. <<r>> \in Seq(T)
    BY <1>5
  <2>2. result' \in [Receives -> Seq(T)]
    BY <1>1, <1>7, <2>1
  <2>3. Called(accepted[p])
    BY <1>1, <1>3 DEF Called
  <2>4. \A c \in Receives : ~Called(c)' => ~Called(c) /\ result'[c] = result[c]
    BY <1>1, <1>2, <1>7, <2>3 DEF Called
  <2> QED BY <2>2, <2>4 DEF ResultInv
<1>14. AnswerInv(p)'
  <2>1. \A i \in p + 1..n : i \in 1..n /\ i # p
    BY <1>1
  <2>2. \A i \in p + 1..n : Result(i)' = IF closer' = "done" THEN <<Closed>> ELSE <<>>
    BY <1>2, <1>9, <2>1 DEF AnswerInv
  <2>3. ASSUME NEW i \in 1..p PROVE Len(Result(i)') <= 1 /\ Result(i)' # <<>>
    <3>1. CASE i = p
      <4>1. Result(i)' = <<r>>
        BY <1>8, <3>1 DEF Result
      <4> QED BY <4>1
    <3>2. CASE i # p
      BY <1>9, <1>10, <3>2 DEF AnswerInv
    <3> QED BY <3>1, <3>2
  <2> QED BY <1>2, <2>2, <2>3 DEF AnswerInv
<1>15. \A u \in threads' : ~Holds(u)
  BY DEF ServeInv, Deliver, Holds
<1>16. Num(p)' => Result(p)'[1] = t.ec /\ t.ec \in 1..taken
                   /\ \A i \in 1..p : Num(i) => Result(i)[1] < t.ec
  BY <1>3, <1>5, <1>8 DEF Num
<1>17. OrderInv(p)'
  <2>1. \A i \in 1..p : Num(i)' => Result(i)'[1] <= taken'
    BY <1>1, <1>2, <1>9, <1>10, <1>16 DEF OrderInv
  <2>2. ASSUME NEW i \in 1..p, NEW j \in 1..p, i < j, Num(i)', Num(j)'
        PROVE  Result(i)'[1] < Result(j)'[1]
    <3>1. i # p
      BY <1>1, <2>2
    <3>2. CASE j = p
      BY <1>9, <1>10, <1>16, <2>2, <3>1, <3>2
    <3>3. CASE j # p
      BY <1>9, <1>10, <2>2, <3>1, <3>3 DEF OrderInv
    <3> QED BY <3>2, <3>3
  <2> QED BY <2>1, <2>2 DEF OrderInv
<1>18. HoldInv(p)'
  BY <1>15 DEF HoldInv
<1> QED BY <1>11, <1>12, <1>14, <1>17, <1>18

\* close() answers what it took from the queue.
LEMMA CloseKeeps ==
  ASSUME ServeInv, NEW p \in Nat, Placed(p), CloseAnswers
  PROVE  Placed(p)'
<1> USE DEF Placed
<1> DEFINE n == Len(accepted)
           T == Nat \cup {Error, Canceled, Closed, NotConnected}
           Taken(c) == \E i \in DOMAIN swapped : swapped[i] = c
<1>1. accepted \in Seq(Receives) /\ p \in 0..n /\ n \in Nat /\ taken \in Nat
        /\ result \in [Receives -> Seq(T)] /\ DOMAIN accepted = 1..n
        /\ closer = "answer" /\ swapped = SubSeq(accepted, p + 1, n)
  BY DEF ListInv, ResultInv, ServeInv, QueueInv, CloseAnswers
<1>2. closer' = "done" /\ UNCHANGED <<accepted, m_closing, m_recvq, threads, taken>>
        /\ result' = [c \in Receives |-> IF Taken(c) THEN Append(result[c], Closed) ELSE result[c]]
  BY DEF CloseAnswers, queueVars, wireVars
<1>3. \A i \in 1..n : accepted[i] \in Receives
  BY <1>1, ElementOfSeq
<1>4. DOMAIN swapped = 1..n - p /\ \A i \in 1..n - p : swapped[i] = accepted[p + i]
  BY <1>1
<1>5. \A i \in p + 1..n : Taken(accepted[i])
  <2>1. \A i \in p + 1..n : i - p \in 1..n - p /\ p + (i - p) = i
    BY <1>1
  <2> QED BY <1>4, <2>1
<1>6. \A c : Taken(c) => \E i \in p + 1..n : c = accepted[i]
  <2>1. \A i \in 1..n - p : p + i \in p + 1..n
    BY <1>1
  <2> QED BY <1>4, <2>1
<1>7. \A i \in p + 1..n : i \in 1..n
  BY <1>1
<1>8. \A i \in 1..p : i \in 1..n /\ i \notin p + 1..n
  BY <1>1
<1>9. \A i \in 1..p : Result(i)' = Result(i)
  <2>1. \A i \in 1..p : ~Taken(accepted[i])
    BY <1>6, <1>7, <1>8 DEF ListInv
  <2> QED BY <1>2, <1>3, <1>8, <2>1 DEF Result
<1>10. \A i \in p + 1..n : Result(i)' = <<Closed>>
  <2>1. \A i \in p + 1..n : result[accepted[i]] = <<>>
    BY <1>1 DEF AnswerInv, Result
  <2>2. Append(<<>>, Closed) = <<Closed>>
    OBVIOUS
  <2>3. \A i \in p + 1..n : result'[accepted[i]] = Append(result[accepted[i]], Closed)
    BY <1>2, <1>3, <1>5, <1>7
  <2> QED BY <1>2, <2>1, <2>2, <2>3 DEF Result
<1>11. ListInv(p)' /\ QueueInv(p)'
  BY <1>1, <1>2 DEF ListInv, QueueInv
<1>12. ResultInv'
  <2>1. \A c \in Receives : Append(result[c], Closed) \in Seq(T)
    BY <1>1, AppendProperties
  <2>2. result' \in [Receives -> Seq(T)]
    BY <1>1, <1>2, <2>1
  <2>3. \A c \in Receives : Taken(c) => Called(c)
    BY <1>1, <1>6, <1>7 DEF Called
  <2>4. \A c \in Receives : ~Called(c)' => ~Called(c) /\ result'[c] = result[c]
    BY <1>2, <2>3 DEF Called
  <2> QED BY <2>2, <2>4 DEF ResultInv
<1>13. AnswerInv(p)'
  BY <1>2, <1>9, <1>10 DEF AnswerInv
<1>14. OrderInv(p)' /\ \A i \in 1..p : Num(i)' <=> Num(i)
  BY <1>1, <1>2, <1>9, OrderUnchanged
<1>15. HoldInv(p)'
  <2>1. p > 0 => p \in 1..p
    BY <1>1
  <2> QED BY <1>2, <1>9, <1>14, <2>1 DEF HoldInv
<1> QED BY <1>11, <1>12, <1>13, <1>14, <1>15

LEMMA PlacedStep == UInv /\ [Next]_vars => (\E p \in 0..Len(accepted) : Placed(p))'
<1> SUFFICES ASSUME UInv, [Next]_vars PROVE \E p \in 0..Len(accepted)' : Placed(p)'
  OBVIOUS
<1>1. PICK p \in 0..Len(accepted) : Placed(p)
  BY DEF UInv
<1>2. p \in Nat /\ ServeInv /\ accepted \in Seq(Receives)
  BY <1>1 DEF UInv, Placed, ListInv
<1>3. ASSUME Placed(p)' PROVE \E q \in 0..Len(accepted)' : Placed(q)'
  BY <1>3 DEF Placed, ListInv
<1>4. \A t \in threads : threads = {t}
  BY <1>2 DEF ServeInv
<1>5. ASSUME NEW c \in Receives, NEW k \in BOOLEAN, AsyncReceive(c, k)
      PROVE  Placed(p)'
  <2>1. ~Called(c) /\ result[c] = <<>> /\ UNCHANGED <<closer, m_closing, swapped, taken>>
    BY <1>5 DEF AsyncReceive, closeVars, wireVars
  <2>2. CASE ~m_closing /\ Enqueue(c)
    BY <1>1, <1>2, <2>1, <2>2, EnqueueKeeps
  <2>3. ASSUME NEW r \in {Closed, NotConnected}, Answer(c, r), UNCHANGED <<queueVars, threads>>
        PROVE  Placed(p)'
    BY <1>1, <1>2, <2>1, <2>3, TellKeeps DEF queueVars
  <2> QED BY <1>5, <2>2, <2>3 DEF AsyncReceive
<1>6. ASSUME NEW t \in threads, StartReceive(t)
      PROVE  \E q \in 0..Len(accepted)' : Placed(q)'
  <2>1. CASE ~m_closing /\ m_recvq # <<>>
    BY <1>1, <1>2, <1>6, <2>1, PopKeeps
  <2>2. CASE m_closing \/ m_recvq = <<>>
    <3>1. ~Holds(t) /\ threads' = {}
            /\ UNCHANGED <<accepted, result, closer, m_closing, m_recvq, swapped, taken>>
      BY <1>4, <1>6, <2>2 DEF StartReceive, Holds, closeVars, wireVars
    <3> QED BY <1>1, <1>2, <1>3, <1>4, <3>1, FreeKeeps
  <2> QED BY <2>1, <2>2
<1>7. ASSUME NEW t \in threads, ReceiveOnSocket(t) \/ SocketFails(t)
      PROVE  Placed(p)'
  <2>1. PICK u \in {[at |-> "on_socket", op |-> t.op], [at |-> "completed", op |-> t.op, ec |-> Error]} :
          threads' = {u}
    BY <1>4, <1>7 DEF ReceiveOnSocket, SocketFails
  <2>2. Holds(t) /\ UNCHANGED <<accepted, result, closer, m_closing, m_recvq, swapped, taken>>
    BY <1>7 DEF ReceiveOnSocket, SocketFails, Holds, queueVars, closeVars, wireVars
  <2>3. Holds(u) /\ u.op = t.op /\ ~(u.at \in {"completed", "decided"} /\ u.ec \in Nat)
    BY ErrorsAssumption DEF Holds
  <2>4. taken' \in Nat /\ taken' >= taken
    BY <1>2, <2>2 DEF ServeInv
  <2> QED BY <1>1, <1>2, <2>1, <2>2, <2>3, <2>4, HoldKeeps
<1>8. ASSUME NEW t \in threads, SocketReceives(t)
      PROVE  Placed(p)'
  <2> DEFINE u == [at |-> "completed", op |-> t.op, ec |-> taken + 1]
  <2>1. threads' = {u} /\ taken' = taken + 1
    BY <1>4, <1>8 DEF SocketReceives
  <2>2. Holds(t) /\ UNCHANGED <<accepted, result, closer, m_closing, m_recvq, swapped>>
    BY <1>8 DEF SocketReceives, Holds, queueVars, closeVars
  <2>3. Holds(u) /\ u.op = t.op
    BY DEF Holds
  <2>4. taken \in Nat /\ taken' \in Nat /\ taken' >= taken /\ u.ec \in 1..taken'
    BY <1>2, <2>1 DEF ServeInv
  <2>5. \A i \in 1..p : Num(i) => Result(i)[1] < u.ec
    BY <1>1, <2>4 DEF Placed, OrderInv, Num
  <2> HIDE DEF u
  <2> QED BY <1>1, <1>2, <2>1, <2>2, <2>3, <2>4, <2>5, HoldKeeps
<1>9. ASSUME NEW t \in threads, Deliver(t) PROVE Placed(p)'
  BY <1>1, <1>2, <1>9, DeliverKeeps
<1>16. ASSUME NEW t \in threads, Complete(t) PROVE Placed(p)'
  <2>1. PICK e \in {t.ec, Closed} : threads' = {[at |-> "decided", op |-> t.op, ec |-> e]}
    BY <1>4, <1>16 DEF Complete
  <2> DEFINE u == [at |-> "decided", op |-> t.op, ec |-> e]
  <2>2. /\ Holds(t) /\ t.at = "completed"
        /\ UNCHANGED <<accepted, result, closer, m_closing, m_recvq, swapped, taken>>
    BY <1>16 DEF Complete, Holds, queueVars, closeVars, wireVars
  <2>3. Holds(u) /\ u.op = t.op /\ u.ec = e
    BY DEF Holds
  <2>4. taken' \in Nat /\ taken' >= taken
    BY <1>2, <2>2 DEF ServeInv
  <2>5. e \in Nat => e \in 1..taken' /\ \A i \in 1..p : Num(i) => Result(i)[1] < e
    BY <1>1, <2>2, ErrorsAssumption DEF Placed, HoldInv
  <2>6. threads' = {u}
    BY <2>1
  <2> HIDE DEF u
  <2> QED BY <1>1, <1>2, <2>2, <2>3, <2>4, <2>5, <2>6, HoldKeeps
<1>10. ASSUME NEW t \in threads, NextReceive(t) PROVE Placed(p)'
  <2>1. \A u \in threads : ~Holds(u)
    BY <1>4, <1>10 DEF NextReceive, Holds
  <2>2. \A u \in threads' : ~Holds(u)
    BY <1>4, <1>10 DEF NextReceive, Holds
  <2>3. UNCHANGED <<accepted, result, closer, m_closing, m_recvq, swapped, taken>>
    BY <1>10 DEF NextReceive, closeVars, wireVars
  <2> QED BY <1>1, <1>2, <2>1, <2>2, <2>3, FreeKeeps
<1>11. CASE Close
  <2> USE DEF Placed
  <2>1. closer = "idle" /\ closer' = "socket" /\ m_closing' = TRUE /\ swapped' = m_recvq
          /\ UNCHANGED <<accepted, result, threads, taken>>
    BY <1>1, <1>11 DEF Close, QueueInv, wireVars
  <2>2. \A i : Result(i)' = Result(i) /\ (Num(i)' <=> Num(i))
    BY <2>1 DEF Result, Num
  <2>3. ListInv(p)' /\ QueueInv(p)' /\ ResultInv'
    BY <1>1, <2>1 DEF ListInv, QueueInv, ResultInv, Called
  <2>4. AnswerInv(p)' /\ HoldInv(p)' /\ OrderInv(p)'
    BY <1>1, <2>1, <2>2 DEF AnswerInv, HoldInv, OrderInv
  <2> QED BY <1>3, <2>3, <2>4
<1>12. CASE CloseSocket
  <2> USE DEF Placed
  <2> DEFINE fails(t) == [at |-> "completed", op |-> t.op, ec |-> Canceled]
  <2>1. closer = "socket" /\ closer' = "answer"
          /\ UNCHANGED <<accepted, result, m_closing, m_recvq, swapped, taken>>
    BY <1>12 DEF CloseSocket, queueVars, wireVars
  <2>2. \A i : Result(i)' = Result(i) /\ (Num(i)' <=> Num(i))
    BY <2>1 DEF Result, Num
  <2>3. ListInv(p)' /\ QueueInv(p)' /\ ResultInv'
    BY <1>1, <2>1 DEF ListInv, QueueInv, ResultInv, Called
  <2>4. OrderInv(p)'
    BY <1>1, <2>1, <2>2 DEF OrderInv
  <2>5. \A u \in threads' : u \in threads \/ \E t \in threads : Holds(t) /\ u = fails(t)
    BY <1>12 DEF CloseSocket, Holds
  <2>6. \A t \in threads : Holds(t) => \E u \in threads' : Holds(u)
    <3>1. \A t \in threads : Holds(t) => t \in threads' \/ fails(t) \in threads'
      BY <1>12 DEF CloseSocket
    <3>2. \A t : Holds(fails(t))
      BY DEF Holds
    <3> QED BY <3>1, <3>2
  <2>7. AnswerInv(p)'
    BY <1>1, <2>1, <2>2, <2>6 DEF AnswerInv
  <2>8. HoldInv(p)'
    <3>1. \A t \in threads : fails(t).ec \notin Nat /\ fails(t).op = t.op
      BY ErrorsAssumption
    <3> HIDE DEF fails
    <3> QED BY <1>1, <2>1, <2>2, <2>5, <3>1 DEF HoldInv
  <2> QED BY <1>3, <2>3, <2>4, <2>7, <2>8
<1>13. CASE CloseAnswers
  BY <1>1, <1>2, <1>3, <1>13, CloseKeeps
<1>14. CASE UNCHANGED <<accepted, result, closer, m_closing, m_recvq, swapped, threads, taken>>
  BY <1>1, <1>2, <1>3, <1>14, PlaceUnchanged
<1>15. Bind \/ OnResolve \/ AsyncConnect \/ ConnectResolved \/ ConnectSocket \/ ConnectDone
        \/ (\E s \in Sends : AsyncSend(s) \/ AsyncSendTo(s) \/ AsyncSendToStr(s)
                              \/ SendToResolved(s) \/ SendDone(s))
        \/ Arrive \/ UNCHANGED vars
      => UNCHANGED <<accepted, result, closer, m_closing, m_recvq, swapped, threads, taken>>
  BY DEF Bind, OnResolve, AsyncConnect, ConnectResolved, ConnectSocket, ConnectDone, AsyncSend,
     AsyncSendTo, AsyncSendToStr, SendToResolved, SendDone, Arrive, vars, queueVars, closeVars,
     wireVars
<1> QED
  BY <1>3, <1>5, <1>6, <1>7, <1>8, <1>9, <1>10, <1>11, <1>12, <1>13, <1>14, <1>15, <1>16
  DEF Next, ReceiveSteps

-----------------------------------------------------------------------------

\* The inductive invariant holds at all times, whatever threads do between a
\* block under m_m and the next.
THEOREM SocketInductive == Spec => []UInv
<1>1. Init => UInv
  <2> SUFFICES ASSUME Init PROVE UInv
    OBVIOUS
  <2>1. ServeInv
    <3>1. arrived \in 0..MaxDatagrams /\ taken \in 0..arrived
      BY MaxDatagramsAssumption DEF Init
    <3>2. m_recvq = <<>> /\ <<>> \in Seq(Receives) /\ threads = {} /\ m_receive_inflight = FALSE
            /\ m_closing = FALSE
      BY DEF Init
    <3> QED BY <3>1, <3>2 DEF ServeInv
  <2>2. Len(accepted) = 0 /\ accepted \in Seq(Receives) /\ SubSeq(accepted, 1, 0) = <<>>
    BY DEF Init
  <2>3. ListInv(0) /\ QueueInv(0) /\ AnswerInv(0) /\ HoldInv(0) /\ OrderInv(0)
    BY <2>2 DEF Init, ListInv, QueueInv, AnswerInv, HoldInv, OrderInv
  <2>4. ResultInv
    BY DEF Init, ResultInv
  <2> QED BY <2>1, <2>2, <2>3, <2>4 DEF UInv, Placed
<1>2. UInv /\ [Next]_vars => UInv'
  BY ServeStep, PlacedStep DEF UInv
<1> QED BY <1>1, <1>2, PTL DEF Spec

\* m_receive_inflight says whether the queue is served, never by two threads.
THEOREM OneServer == Spec => []OneServesTheQueue
<1>1. UInv => OneServesTheQueue
  <2> SUFFICES ASSUME ServeInv PROVE OneServesTheQueue
    BY DEF UInv
  <2>1. Cardinality(threads) <= 1
    BY AtMostOne DEF ServeInv
  <2> QED BY <2>1 DEF OneServesTheQueue, ServeInv
<1> QED BY <1>1, SocketInductive, PTL

\* Every receive's handler is called at most once, also by a close() that takes
\* the queue while a receive is handed to the socket, and datagrams reach the
\* receives in the order of the calls.
THEOREM OnceInOrder == Spec => []AnsweredOnceInOrder
<1>1. UInv => AnsweredOnceInOrder
  <2> SUFFICES ASSUME UInv PROVE AnsweredOnceInOrder
    OBVIOUS
  <2>1. PICK p \in 0..Len(accepted) : Placed(p)
    BY DEF UInv
  <2> DEFINE n == Len(accepted)
  <2>2. accepted \in Seq(Receives) /\ p \in 0..n /\ n \in Nat /\ DOMAIN accepted = 1..n
          /\ result \in [Receives -> Seq(Nat \cup {Error, Canceled, Closed, NotConnected})]
    BY <2>1 DEF Placed, ListInv, ResultInv
  <2>3. \A i \in 1..n : i \in 1..p \/ i \in p + 1..n
    BY <2>2
  <2>4. \A i \in 1..n : Len(Result(i)) <= 1
    <3>1. Len(<<Closed>>) = 1 /\ Len(<<>>) = 0
      OBVIOUS
    <3>2. \A i \in p + 1..n : Result(i) = <<Closed>> \/ Result(i) = <<>>
      BY <2>1 DEF Placed, AnswerInv
    <3>3. \A i \in p + 1..n : Len(Result(i)) <= 1
      <4> TAKE i \in p + 1..n
      <4>1. CASE Result(i) = <<Closed>>
        BY <3>1, <4>1
      <4>2. CASE Result(i) = <<>>
        BY <3>1, <4>2
      <4> QED BY <3>2, <4>1, <4>2
    <3>4. \A i \in 1..p : Len(Result(i)) <= 1
      BY <2>1 DEF Placed, AnswerInv
    <3> QED BY <2>3, <3>3, <3>4
  <2>5. \A c \in Receives : Len(result[c]) <= 1
    BY <2>1, <2>2, <2>4 DEF Placed, ResultInv, Called, Result
  <2>6. ASSUME NEW i \in 1..n, NEW j \in 1..n, i < j, Result(j) # <<>>, Result(j)[1] \in Datagrams
        PROVE  Result(i) # <<>> /\ (Result(i)[1] \in Datagrams => Result(i)[1] < Result(j)[1])
    <3>1. \A k \in 1..n : Result(k) \in Seq(Nat \cup {Error, Canceled, Closed, NotConnected})
      BY <2>2, ElementOfSeq DEF Result
    <3>2. \A k \in 1..n : Result(k) # <<>> => Len(Result(k)) = 1
      <4> TAKE k \in 1..n
      <4> DEFINE x == Result(k)
      <4>1. x \in Seq(Nat \cup {Error, Canceled, Closed, NotConnected}) /\ Len(x) <= 1
        BY <2>4, <3>1
      <4> HIDE DEF x
      <4> DEFINE l == Len(x)
      <4>2. l \in Nat /\ l <= 1 /\ (x # <<>> => l # 0)
        BY <4>1, EmptySeq
      <4> HIDE DEF l
      <4>3. x # <<>> => l = 1
        BY <4>2
      <4> QED BY <4>3 DEF x, l
    <3>3. Datagrams \subseteq Nat
      BY MaxDatagramsAssumption DEF Datagrams
    <3>4. j \in 1..p
      <4>1. CASE j \in p + 1..n
        <5>1. Result(j) = <<Closed>>
          BY <2>1, <2>6, <4>1 DEF Placed, AnswerInv
        <5>2. Result(j)[1] = Closed
          BY <5>1
        <5> QED BY <2>6, <3>3, <5>2, ErrorsAssumption
      <4> QED BY <2>3, <4>1
    <3>5. i \in 1..p /\ i # p
      BY <2>2, <2>6, <3>4
    <3>6. Result(i) # <<>>
      BY <2>1, <3>5 DEF Placed, AnswerInv
    <3>7. Num(j) /\ (Result(i)[1] \in Datagrams => Num(i))
      BY <2>6, <3>2, <3>3, <3>6 DEF Num
    <3> QED BY <2>1, <2>6, <3>4, <3>5, <3>6, <3>7 DEF Placed, OrderInv
  <2> QED BY <2>2, <2>5, <2>6 DEF AnsweredOnceInOrder, Result
<1> QED BY <1>1, SocketInductive, PTL

-----------------------------------------------------------------------------
(* No receive is forgotten.                                                *)

\* A receive is on the socket only while it is open, and once close() has
\* closed it nothing opens it again.
OpenInv ==
  /\ \A t \in threads : t.at = "on_socket" => socket = "open"
  /\ closer \in {"answer", "done"} => socket = "closed"
  /\ closer # "idle" => bound = "bound"

LEMMA OpenStep == OpenInv /\ [Next]_vars => OpenInv'
<1> SUFFICES ASSUME OpenInv, [Next]_vars PROVE OpenInv'
  OBVIOUS
<1> USE DEF OpenInv
<1>1. CASE OnResolve
  BY <1>1 DEF OnResolve
<1>2. CASE \E c \in Receives, k \in BOOLEAN : AsyncReceive(c, k)
  BY <1>2 DEF AsyncReceive, Enqueue, closeVars, connVars
<1>3. CASE \E t \in threads : StartReceive(t)
  BY <1>3 DEF StartReceive, closeVars, connVars
<1>4. CASE \E t \in threads : ReceiveOnSocket(t)
  BY <1>4 DEF ReceiveOnSocket, closeVars, connVars
<1>5. CASE \E t \in threads : Complete(t) \/ Deliver(t)
  BY <1>5 DEF Complete, Deliver, closeVars, connVars
<1>6. CASE \E t \in threads : NextReceive(t)
  BY <1>6 DEF NextReceive, closeVars, connVars
<1>7. CASE \E t \in threads : SocketReceives(t)
  BY <1>7 DEF SocketReceives, closeVars, connVars
<1>8. CASE \E t \in threads : SocketFails(t)
  BY <1>8 DEF SocketFails, closeVars, connVars
<1>9. CASE Close
  BY <1>9 DEF Close, connVars
<1>10. CASE CloseSocket
  BY <1>10 DEF CloseSocket, connVars
<1>11. CASE CloseAnswers
  BY <1>11 DEF CloseAnswers, connVars
<1>12. CASE Bind
  BY <1>12 DEF Bind, closeVars
<1>13. CASE UNCHANGED <<bound, socket, closer, threads>>
  BY <1>13
<1> QED
  BY <1>1, <1>2, <1>3, <1>4, <1>5, <1>6, <1>7, <1>8, <1>9, <1>10, <1>11, <1>12, <1>13
  DEF Next, ReceiveSteps, AsyncConnect, ConnectResolved, ConnectSocket, ConnectDone, AsyncSend,
      AsyncSendTo, AsyncSendToStr, SendToResolved, SendDone, Arrive, vars, connVars, closeVars

\* Who answers a receive that waits: the queue, while nobody closes the socket;
\* close(), which took it from the queue; or the thread that has it, which after
\* the socket was closed does not wait for a datagram.
NotForgotten ==
  /\ \A c \in Receives : Waits(c) =>
       \/ closer = "idle" /\ \E i \in DOMAIN m_recvq : m_recvq[i] = c
       \/ closer \in {"socket", "answer"} /\ \E i \in DOMAIN swapped : swapped[i] = c
       \/ \E t \in threads : Holds(t) /\ t.op = c
  /\ closer \in {"answer", "done"} => \A t \in threads : t.at # "on_socket"

\* A receive whose handler was not called has somebody who will call it, on
\* every interleaving with close(): the safety half of CloseAnswersAll.
THEOREM NoReceiveForgotten == Spec => []NotForgotten
<1>1. Init => OpenInv
  BY DEF Init, OpenInv
<1>2. UInv /\ OpenInv => NotForgotten
  <2> SUFFICES ASSUME UInv, OpenInv PROVE NotForgotten
    OBVIOUS
  <2>1. PICK p \in 0..Len(accepted) : Placed(p)
    BY DEF UInv
  <2> DEFINE n == Len(accepted)
  <2>2. accepted \in Seq(Receives) /\ p \in 0..n /\ n \in Nat /\ DOMAIN accepted = 1..n
    BY <2>1 DEF Placed, ListInv
  <2>3. ASSUME NEW c \in Receives, Waits(c)
        PROVE  \/ closer = "idle" /\ \E i \in DOMAIN m_recvq : m_recvq[i] = c
               \/ closer \in {"socket", "answer"} /\ \E i \in DOMAIN swapped : swapped[i] = c
               \/ \E t \in threads : Holds(t) /\ t.op = c
    <3>1. PICK k \in 1..n : accepted[k] = c
      BY <2>2, <2>3 DEF Waits, Called
    <3>2. Result(k) = <<>>
      BY <2>3, <3>1 DEF Waits, Result
    <3>3. CASE k \in 1..p
      <4>1. PICK t \in threads : k = p /\ Holds(t)
        BY <2>1, <3>2, <3>3 DEF Placed, AnswerInv
      <4>2. t.op = c
        BY <2>1, <3>1, <4>1 DEF Placed, HoldInv
      <4> QED BY <4>1, <4>2
    <3>4. CASE k \in p + 1..n
      <4>1. closer # "done"
        <5>1. <<Closed>> # <<>>
          OBVIOUS
        <5> QED BY <2>1, <3>2, <3>4, <5>1 DEF Placed, AnswerInv
      <4> DEFINE rest == SubSeq(accepted, p + 1, n)
                 i == k - p
      <4>2. i \in 1..(n - p) /\ (p + 1) + i - 1 = k /\ p + 1 \in Int /\ n \in Int
            /\ (p + 1 <= n) /\ n - (p + 1) + 1 = n - p
        BY <2>2, <3>4
      <4>3. \A j \in (p + 1)..n : accepted[j] \in Receives
        <5>1. \A j \in (p + 1)..n : j \in 1..n
          BY <2>2
        <5> QED BY <2>2, <5>1, ElementOfSeq
      <4> HIDE DEF i
      <4>4. rest \in Seq(Receives) /\ Len(rest) = n - p /\ \A j \in 1..(n - p) : rest[j] = accepted[(p + 1) + j - 1]
        BY <4>2, <4>3, SubSeqProperties
      <4>5. rest[i] = c /\ i \in DOMAIN rest
        BY <3>1, <4>2, <4>4
      <4> HIDE DEF rest
      <4>6. \E j \in DOMAIN rest : rest[j] = c
        BY <4>5
      <4>7. closer \in {"idle", "socket", "answer"}
        BY <2>1, <4>1 DEF Placed, QueueInv
      <4>8. /\ closer = "idle" => m_recvq = rest
            /\ closer \in {"socket", "answer"} => swapped = rest
        BY <2>1 DEF Placed, QueueInv, rest
      <4> QED BY <4>6, <4>7, <4>8
    <3> QED BY <2>2, <3>3, <3>4
  <2>4. closer \in {"answer", "done"} => \A t \in threads : t.at # "on_socket"
    BY DEF OpenInv
  <2> QED BY <2>3, <2>4 DEF NotForgotten
<1> QED BY <1>1, <1>2, OpenStep, SocketInductive, PTL DEF Spec
=============================================================================
