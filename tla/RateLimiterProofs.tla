------------------------- MODULE RateLimiterProofs -------------------------
(***************************************************************************)
(* Proofs about RateLimiter and HttpClient, for every set of requests and  *)
(* routes, every resolution of the reset header and every bound of the     *)
(* clock.                                                                  *)
(*                                                                         *)
(* The inductive invariant RInv has three parts.  SlotInv: there is one    *)
(* slot, taken by a request in flight, one that waits, or one whose end is *)
(* still to be handled on m_strand; a shutdown empties the queue and drops *)
(* the waiting request.  ClockInv: a waiting request waits for the reset   *)
(* time its route still has.  BookInv: every request is in one place, and  *)
(* only a request in flight or answered has been sent.  RInv gives that    *)
(* the limiter implements SerialService.                                   *)
(*                                                                         *)
(* The last two sections are about the client.  It takes no step of the    *)
(* limiter that the limiter does not allow (ClientKeepsLimiter), so that   *)
(* what is shown of the limiter with any send_fn holds of the limiter with *)
(* this one.  Of the client itself: a request is executed at most twice,   *)
(* and its retry does not use the connection that failed.                  *)
(***************************************************************************)
EXTENDS HttpClient, FiniteSetTheorems, TLAPS

-----------------------------------------------------------------------------
(* Facts about the reset header and about sequences without repetition.    *)

\* Dropping the fraction of a second keeps a time within the clock.
LEMMA TruncationInRange ==
  ASSUME NEW t \in 0..MaxTime
  PROVE  parse_reset(t) \in 0..MaxTime
  <1> DEFINE q == t \div TicksPerSecond
  <1>1. q \in Nat /\ t = TicksPerSecond * q + (t % TicksPerSecond)
    BY TimeAssumption
  <1>2. t % TicksPerSecond >= 0
    BY TimeAssumption
  <1> QED
    BY <1>1, <1>2, TimeAssumption DEF parse_reset

\* Appending adds one element.
LEMMA ElemsAppend ==
  ASSUME NEW S, NEW q \in Seq(S), NEW r \in S
  PROVE  Elems(Append(q, r)) = Elems(q) \cup {r}
  <1>1. /\ DOMAIN Append(q, r) = DOMAIN q \cup {Len(q) + 1}
        /\ Append(q, r)[Len(q) + 1] = r
        /\ \A i \in DOMAIN q : Append(q, r)[i] = q[i]
    OBVIOUS
  <1> QED
    BY <1>1, Zenon DEF Elems

\* A non-empty queue holds its head and what is behind it.
LEMMA ElemsHeadTail ==
  ASSUME NEW S, NEW q \in Seq(S), q # <<>>
  PROVE  Elems(q) = {Head(q)} \cup Elems(Tail(q))
  <1>1. ASSUME NEW x \in Elems(q) PROVE x \in {Head(q)} \cup Elems(Tail(q))
    <2>1. PICK i \in DOMAIN q : x = q[i]
      BY <1>1 DEF Elems
    <2>2. CASE i = 1
      BY <2>1, <2>2
    <2>3. CASE i # 1
      <3>1. i - 1 \in DOMAIN Tail(q) /\ Tail(q)[i - 1] = q[i]
        BY <2>3
      <3> QED BY <3>1, <2>1 DEF Elems
    <2> QED BY <2>2, <2>3
  <1>2. ASSUME NEW x \in {Head(q)} \cup Elems(Tail(q)) PROVE x \in Elems(q)
    <2>1. CASE x = Head(q)
      <3>1. 1 \in DOMAIN q /\ Head(q) = q[1]
        OBVIOUS
      <3> QED BY <3>1, <2>1 DEF Elems
    <2>2. CASE x \in Elems(Tail(q))
      <3>1. PICK i \in DOMAIN Tail(q) : x = Tail(q)[i]
        BY <2>2 DEF Elems
      <3>2. i + 1 \in DOMAIN q /\ Tail(q)[i] = q[i + 1]
        OBVIOUS
      <3> QED BY <3>1, <3>2 DEF Elems
    <2> QED BY <1>2, <2>1, <2>2
  <1> QED BY <1>1, <1>2

NoDup(q) == \A i, j \in DOMAIN q : q[i] = q[j] => i = j

\* The head of a queue without repetition is nowhere behind it.
LEMMA NoDupTail ==
  ASSUME NEW S, NEW q \in Seq(S), q # <<>>, NoDup(q)
  PROVE  NoDup(Tail(q)) /\ Head(q) \notin Elems(Tail(q))
  <1>1. \A i \in DOMAIN Tail(q) : i + 1 \in DOMAIN q /\ Tail(q)[i] = q[i + 1]
    OBVIOUS
  <1>2. 1 \in DOMAIN q /\ Head(q) = q[1] /\ DOMAIN Tail(q) \subseteq Nat \ {0}
    OBVIOUS
  <1>3. NoDup(Tail(q))
    BY <1>1, <1>2 DEF NoDup
  <1>4. Head(q) \notin Elems(Tail(q))
    BY <1>1, <1>2 DEF NoDup, Elems
  <1> QED BY <1>3, <1>4

\* Queueing a request that is not queued repeats nothing.
LEMMA NoDupAppend ==
  ASSUME NEW S, NEW q \in Seq(S), NEW r \in S, NoDup(q), r \notin Elems(q)
  PROVE  NoDup(Append(q, r))
  BY DEF NoDup, Elems

-----------------------------------------------------------------------------
(* One request in service: in flight, or waiting, or its end being handled. *)

SlotType ==
  /\ m_queue \in Seq(Requests)
  /\ m_busy \in BOOLEAN
  /\ m_waiting \in Requests \cup {None}
  /\ wait_timer \in {"off", "armed", "fired", "aborted"}
  /\ m_stopping \in BOOLEAN
  /\ in_flight \in SUBSET Requests
  /\ finishing \in BOOLEAN

Slot ==
  /\ \A r, s \in in_flight : r = s
  /\ in_flight # {} => m_waiting = None /\ ~finishing /\ (m_stopping \/ m_busy)
  /\ finishing => m_waiting = None /\ (m_stopping \/ m_busy)
  /\ m_waiting # None => m_busy /\ ~m_stopping /\ wait_timer \in {"armed", "fired"}
  /\ m_stopping => m_queue = <<>> /\ ~m_busy
  /\ ~m_stopping /\ m_waiting = None => wait_timer = "off"

SlotInv == SlotType /\ Slot

\* What start_next relies on: nothing is in service any more.
Vacant == in_flight = {} /\ m_waiting = None

\* start_next puts at most one request into the vacant slot.
LEMMA StartKeepsSlot ==
  ASSUME SlotInv, Vacant, NEW q \in Seq(Requests), m_stopping => q = <<>>,
         start_next(q), m_stopping' = m_stopping, finishing' = FALSE
  PROVE  SlotInv'
  <1>1. CASE m_stopping \/ q = <<>>
    BY <1>1 DEF SlotInv, SlotType, Slot, Vacant, start_next
  <1>2. CASE ~m_stopping /\ q # <<>>
    <2> DEFINE r == Head(q)
    <2>1. r \in Requests /\ Tail(q) \in Seq(Requests) /\ r # None
      BY <1>2, NoneAssumption
    <2>2. m_queue' = Tail(q) /\ m_busy' = TRUE /\ maybe_wait_then_send(r)
      BY <1>2 DEF start_next
    <2>3. CASE should_wait(r)
      BY <1>2, <2>1, <2>2, <2>3
      DEF SlotInv, SlotType, Slot, Vacant, maybe_wait_then_send
    <2>4. CASE ~should_wait(r)
      BY <1>2, <2>1, <2>2, <2>4
      DEF SlotInv, SlotType, Slot, Vacant, maybe_wait_then_send, do_send
    <2> QED BY <2>3, <2>4
  <1> QED BY <1>1, <1>2

\* Every step keeps the slot exclusive.
LEMMA SlotStep ==
  ASSUME SlotInv, [Next]_vars
  PROVE  SlotInv'
  <1> USE NoneAssumption
  <1>1. ASSUME NEW r \in Requests, Send(r) PROVE SlotInv'
    <2>1. CASE m_busy
      BY <1>1, <2>1 DEF Send, SlotInv, SlotType, Slot
    <2>2. CASE ~m_busy
      <3>1. Vacant /\ finishing = FALSE /\ ~m_stopping
        BY <1>1, <2>2 DEF Send, SlotInv, SlotType, Slot, Vacant
      <3>2. Append(m_queue, r) \in Seq(Requests)
        BY DEF SlotInv, SlotType
      <3> QED
        BY <1>1, <2>2, <3>1, <3>2, StartKeepsSlot DEF Send
    <2> QED BY <2>1, <2>2 DEF SlotInv, SlotType
  <1>2. ASSUME NEW r \in Requests, SendRejected(r) PROVE SlotInv'
    BY <1>2 DEF SendRejected, SlotInv, SlotType, Slot
  <1>3. CASE Shutdown
    <2>1. SlotType'
      <3>1. m_queue' \in Seq(Requests)
        BY <1>3 DEF Shutdown
      <3> QED
        BY <1>3, <3>1, Zenon DEF Shutdown, SlotInv, SlotType
    <2>2. Slot'
      BY <1>3 DEF Shutdown, SlotInv, Slot
    <2> QED BY <2>1, <2>2 DEF SlotInv
  <1>4. CASE TimerExpires
    BY <1>4 DEF TimerExpires, SlotInv, SlotType, Slot
  <1>5. CASE WaitOver
    BY <1>5 DEF WaitOver, do_send, SlotInv, SlotType, Slot
  <1>6. CASE WaitSpurious
    BY <1>6 DEF WaitSpurious, SlotInv, SlotType, Slot
  <1>7. ASSUME NEW r \in in_flight, NEW res, NEW limit, Answered(r, res, limit)
        PROVE  SlotInv'
    BY <1>7 DEF Answered, SlotInv, SlotType, Slot
  <1>8. CASE Finished
    BY <1>8, StartKeepsSlot DEF Finished, SlotInv, SlotType, Slot, Vacant
  <1>9. CASE Tick \/ UNCHANGED vars
    BY <1>9 DEF Tick, vars, SlotInv, SlotType, Slot
  <1> QED
    BY <1>1, <1>2, <1>3, <1>4, <1>5, <1>6, <1>7, <1>8, <1>9
    DEF Next, SendFnAnswers, TransportError, PlainResponse, Response

-----------------------------------------------------------------------------
(* The clock, the limits and the wait.                                     *)

ClockType ==
  /\ wait_until \in 0..MaxTime
  /\ m_rate_limits \in [Routes -> Limit \cup {None}]
  /\ now \in 0..MaxTime

\* The wait is for the reset time the route still has, and it is not over
\* before that time.
WaitInv ==
  m_waiting # None =>
    /\ m_rate_limits[RouteOf[m_waiting]] # None
    /\ wait_until = m_rate_limits[RouteOf[m_waiting]].reset_time
    /\ wait_timer = "fired" => now >= wait_until

ClockInv == ClockType /\ WaitInv

\* start_next arms the timer for the reset time of the head of the queue.
LEMMA StartKeepsClock ==
  ASSUME SlotInv, ClockInv, Vacant, NEW q \in Seq(Requests),
         start_next(q), UNCHANGED <<m_rate_limits, now>>
  PROVE  ClockInv'
  <1> USE RouteAssumption, NoneAssumption
  <1>1. CASE m_stopping \/ q = <<>>
    BY <1>1 DEF ClockInv, ClockType, WaitInv, Vacant, start_next
  <1>2. CASE ~m_stopping /\ q # <<>>
    <2> DEFINE r == Head(q)
    <2>1. r \in Requests /\ RouteOf[r] \in Routes
      BY <1>2
    <2>2. maybe_wait_then_send(r)
      BY <1>2 DEF start_next
    <2>3. CASE should_wait(r)
      <3>1. m_rate_limits[RouteOf[r]] \in Limit
        BY <2>1, <2>3 DEF ClockInv, ClockType, should_wait
      <3>2. m_rate_limits[RouteOf[r]].reset_time \in 0..MaxTime
        BY <3>1 DEF Limit
      <3>3. /\ m_waiting' = r /\ wait_timer' = "armed"
            /\ wait_until' = m_rate_limits[RouteOf[r]].reset_time
        BY <2>2, <2>3 DEF maybe_wait_then_send
      <3> QED
        BY <2>3, <3>2, <3>3 DEF ClockInv, ClockType, WaitInv, should_wait
    <2>4. CASE ~should_wait(r)
      BY <2>2, <2>4
      DEF ClockInv, ClockType, WaitInv, Vacant, maybe_wait_then_send
    <2> QED BY <2>3, <2>4
  <1> QED BY <1>1, <1>2

\* Recording the headers of an answer touches the route of its request only.
LEMMA LimitStaysTyped ==
  ASSUME ClockType, NEW r \in in_flight, SlotType, NEW res,
         NEW limit \in Limit \cup {None}, Answered(r, res, limit)
  PROVE  m_rate_limits' \in [Routes -> Limit \cup {None}]
  <1>1. RouteOf[r] \in Routes
    BY RouteAssumption DEF SlotType
  <1> QED
    BY <1>1 DEF Answered, ClockType

\* Every step keeps the wait tied to the limit it was armed for.
LEMMA ClockStep ==
  ASSUME SlotInv, ClockInv, [Next]_vars
  PROVE  ClockInv'
  <1> USE NoneAssumption, TimeAssumption
  <1>same. ASSUME UNCHANGED <<m_waiting, wait_timer, wait_until, m_rate_limits, now>>
           PROVE  ClockInv'
    BY <1>same DEF ClockInv, ClockType, WaitInv
  <1>1. ASSUME NEW r \in Requests, Send(r) PROVE ClockInv'
    <2>1. CASE m_busy /\ UNCHANGED <<m_waiting, wait_timer, wait_until>>
      BY <1>1, <2>1, <1>same DEF Send
    <2>2. CASE ~m_busy /\ start_next(Append(m_queue, r))
      <3>1. Vacant
        BY <1>1, <2>2 DEF Send, SlotInv, SlotType, Slot, Vacant
      <3>2. Append(m_queue, r) \in Seq(Requests)
        BY DEF SlotInv, SlotType
      <3> QED
        BY <1>1, <2>2, <3>1, <3>2, StartKeepsClock DEF Send
    <2> QED BY <1>1, <2>1, <2>2 DEF Send
  <1>2. ASSUME NEW r \in Requests, SendRejected(r) PROVE ClockInv'
    BY <1>2, <1>same DEF SendRejected
  <1>3. CASE Shutdown
    BY <1>3 DEF Shutdown, ClockInv, ClockType, WaitInv
  <1>4. CASE TimerExpires
    BY <1>4 DEF TimerExpires, ClockInv, ClockType, WaitInv
  <1>5. CASE WaitOver
    BY <1>5 DEF WaitOver, ClockInv, ClockType, WaitInv
  <1>6. CASE WaitSpurious
    BY <1>6 DEF WaitSpurious, ClockInv, ClockType, WaitInv
  <1>7. ASSUME NEW r \in in_flight, NEW res, NEW limit \in Limit \cup {None},
               Answered(r, res, limit)
        PROVE  ClockInv'
    <2>1. m_rate_limits' \in [Routes -> Limit \cup {None}]
      BY <1>7, LimitStaysTyped DEF ClockInv, SlotInv
    <2>2. m_waiting' = None
      BY <1>7 DEF Answered, SlotInv, Slot
    <2> QED
      BY <1>7, <2>1, <2>2 DEF Answered, ClockInv, ClockType, WaitInv
  <1>8. CASE Finished
    <2>1. Vacant /\ m_queue \in Seq(Requests)
      BY <1>8 DEF Finished, SlotInv, SlotType, Slot, Vacant
    <2> QED
      BY <1>8, <2>1, StartKeepsClock DEF Finished
  <1>9. CASE Tick
    BY <1>9 DEF Tick, ClockInv, ClockType, WaitInv
  <1>10. CASE UNCHANGED vars
    BY <1>10, <1>same DEF vars
  <1>11. CASE SendFnAnswers
    <2>1. ASSUME NEW left \in 0..1, NEW reset \in now..MaxTime
          PROVE  [remaining |-> left, reset_time |-> parse_reset(reset)] \in Limit
      <3>1. reset \in 0..MaxTime
        BY DEF ClockInv, ClockType
      <3> QED
        BY <3>1, TruncationInRange DEF Limit
    <2> QED
      BY <1>7, <1>11, <2>1 DEF SendFnAnswers, TransportError, PlainResponse, Response
  <1> QED
    BY <1>1, <1>2, <1>3, <1>4, <1>5, <1>6, <1>8, <1>9, <1>10, <1>11 DEF Next

-----------------------------------------------------------------------------
(* The books: where every request is, what was sent, what was answered.    *)

HistType ==
  /\ accepted \in Seq(Requests)
  /\ sent \in Seq(Requests)
  /\ completions \in [Requests -> Nat]
  /\ outcome \in [Requests -> Outcome \cup {None}]

\* A request that was sent is in flight or answered; one that was told
\* "stopped" is answered.
SentInv ==
  \A r \in Requests :
    /\ r \in Elems(sent) => r \in in_flight \/ completions[r] > 0
    /\ outcome[r] = "stopped" => completions[r] > 0

BookInv == NoDup(m_queue) /\ ExactlyOnce /\ SentInv /\ StoppedWasNotSent

\* start_next moves the head of its queue into service and nothing else.
LEMMA StartMovesHead ==
  ASSUME SlotInv, HistType, Vacant, NEW q \in Seq(Requests), NoDup(q), start_next(q),
         UNCHANGED completions
  PROVE  /\ NoDup(m_queue')
         /\ sent' \in Seq(Requests)
         /\ \A r \in Requests :
              /\ Places(r)' = (IF r \in Elems(q) THEN 1 ELSE 0) + completions[r]
              /\ r \in Elems(sent') => r \in Elems(sent) \/ r \in in_flight'
              /\ r \in in_flight' => r \in Elems(q)
  <1> USE NoneAssumption
  <1>1. CASE m_stopping \/ q = <<>>
    <2>1. /\ m_queue' = q /\ m_waiting' = None /\ in_flight' = {} /\ sent' = sent
      BY <1>1 DEF start_next, Vacant
    <2>2. \A r \in Requests : r # None /\ completions[r] \in Nat
      BY DEF HistType
    <2> QED
      BY <2>1, <2>2 DEF HistType, Places
  <1>2. CASE ~m_stopping /\ q # <<>>
    <2> DEFINE h == Head(q)
    <2>1. h \in Requests /\ h # None
      BY <1>2
    <2>2. NoDup(Tail(q)) /\ h \notin Elems(Tail(q))
      BY <1>2, NoDupTail
    <2>3. Elems(q) = {h} \cup Elems(Tail(q))
      BY <1>2, ElemsHeadTail
    <2>4. m_queue' = Tail(q) /\ maybe_wait_then_send(h)
      BY <1>2 DEF start_next
    <2>5. CASE should_wait(h)
      <3>1. m_waiting' = h /\ in_flight' = {} /\ sent' = sent
        BY <2>4, <2>5 DEF maybe_wait_then_send, Vacant
      <3>2. \A r \in Requests :
              Places(r)' = (IF r \in Elems(q) THEN 1 ELSE 0) + completions[r]
        BY <2>1, <2>2, <2>3, <2>4, <3>1 DEF Places, HistType
      <3> QED
        BY <2>2, <2>4, <3>1, <3>2 DEF HistType
    <2>6. CASE ~should_wait(h)
      <3>1. m_waiting' = None /\ in_flight' = {h} /\ sent' = Append(sent, h)
        BY <2>4, <2>6 DEF maybe_wait_then_send, do_send, Vacant
      <3>2. \A r \in Requests :
              Places(r)' = (IF r \in Elems(q) THEN 1 ELSE 0) + completions[r]
        BY <2>1, <2>2, <2>3, <2>4, <3>1 DEF Places, HistType
      <3>3. sent' \in Seq(Requests) /\ Elems(sent') = Elems(sent) \cup {h}
        BY <2>1, <3>1, ElemsAppend DEF HistType
      <3> QED
        BY <2>2, <2>3, <2>4, <3>1, <3>2, <3>3
    <2> QED BY <2>5, <2>6
  <1> QED BY <1>1, <1>2


\* start_next keeps the books when they balance with the queue it is given.
LEMMA StartKeepsBook ==
  ASSUME SlotInv, HistType, Vacant, BookInv, NEW q \in Seq(Requests), NoDup(q),
         start_next(q), UNCHANGED <<completions, outcome>>,
         \A r \in Requests :
           (IF r \in Elems(q) THEN 1 ELSE 0) + completions[r] = IF IsNew(r)' THEN 0 ELSE 1
  PROVE  BookInv'
  <1> DEFINE Queued(r) == IF r \in Elems(q) THEN 1 ELSE 0
  <1>1. /\ NoDup(m_queue')
        /\ \A r \in Requests :
             /\ Places(r)' = Queued(r) + completions[r]
             /\ r \in Elems(sent') => r \in Elems(sent) \/ r \in in_flight'
             /\ r \in in_flight' => r \in Elems(q)
    BY StartMovesHead
  <1>2. ExactlyOnce'
    BY <1>1 DEF ExactlyOnce
  <1>3. \A r \in Requests : r \in Elems(q) => ~(completions[r] > 0)
    <2> SUFFICES ASSUME NEW r \in Requests, r \in Elems(q) PROVE ~(completions[r] > 0)
      OBVIOUS
    <2>1. 1 + completions[r] \in {0, 1} /\ completions[r] \in Nat
      BY DEF HistType
    <2> QED BY <2>1
  <1>4. in_flight = {}
    BY DEF Vacant
  <1>5. SentInv'
    BY <1>1, <1>4, Zenon DEF BookInv, SentInv, StoppedWasNotSent
  <1>6. StoppedWasNotSent'
    BY <1>1, <1>3, Zenon DEF BookInv, SentInv, StoppedWasNotSent
  <1> QED BY <1>1, <1>2, <1>5, <1>6 DEF BookInv

\* start_next sends requests only.
LEMMA StartKeepsSent ==
  ASSUME HistType, NEW q \in Seq(Requests), start_next(q)
  PROVE  sent' \in Seq(Requests)
  <1>1. CASE sent' = sent
    BY <1>1 DEF HistType
  <1>2. CASE q # <<>> /\ sent' = Append(sent, Head(q))
    <2>1. Head(q) \in Requests
      BY <1>2
    <2> QED BY <1>2, <2>1 DEF HistType
  <1> QED
    BY <1>1, <1>2, Zenon DEF start_next, maybe_wait_then_send, do_send

\* Posting handlers counts them and records a result.
LEMMA PostKeepsType ==
  ASSUME HistType, NEW R, NEW res \in Outcome, Post(R, res)
  PROVE  /\ completions' \in [Requests -> Nat]
         /\ outcome' \in [Requests -> Outcome \cup {None}]
  <1>1. \A r \in Requests : completions[r] + (IF r \in R THEN 1 ELSE 0) \in Nat
    BY DEF HistType
  <1>2. completions' \in [Requests -> Nat]
    BY <1>1, Zenon DEF Post
  <1>3. outcome' \in [Requests -> Outcome \cup {None}]
    BY Zenon DEF Post, HistType
  <1> QED BY <1>2, <1>3

\* Every step keeps the types of the history variables.
LEMMA HistStep ==
  ASSUME SlotInv, HistType, [Next]_vars
  PROVE  HistType'
  <1>same. ASSUME UNCHANGED <<accepted, sent, completions, outcome>> PROVE HistType'
    BY <1>same DEF HistType
  <1>post. ASSUME NEW R, NEW res \in Outcome, Post(R, res), UNCHANGED <<accepted, sent>>
           PROVE  HistType'
    BY <1>post, PostKeepsType DEF HistType
  <1>1. ASSUME NEW r \in Requests, Send(r) PROVE HistType'
    <2>1. Append(m_queue, r) \in Seq(Requests) /\ accepted' \in Seq(Requests)
      BY <1>1 DEF Send, SlotInv, SlotType, HistType
    <2>2. sent' \in Seq(Requests)
      BY <1>1, <2>1, StartKeepsSent DEF Send, HistType
    <2> QED
      BY <1>1, <2>1, <2>2 DEF Send, HistType
  <1>2. ASSUME NEW r \in Requests, SendRejected(r) PROVE HistType'
    BY <1>2, <1>post DEF SendRejected, Outcome, Failure
  <1>3. CASE Shutdown
    BY <1>3, <1>post DEF Shutdown, Outcome, Failure
  <1>4. CASE TimerExpires \/ WaitSpurious \/ Tick \/ UNCHANGED vars
    BY <1>4, <1>same DEF TimerExpires, WaitSpurious, Tick, vars
  <1>5. CASE WaitOver
    <2>1. m_waiting \in Requests
      BY <1>5 DEF WaitOver, SlotInv, SlotType
    <2> QED
      BY <1>5, <2>1 DEF WaitOver, do_send, HistType
  <1>6. ASSUME NEW r, NEW res \in Outcome, NEW limit, Answered(r, res, limit)
        PROVE  HistType'
    BY <1>6, <1>post DEF Answered
  <1>7. CASE Finished
    <2>1. sent' \in Seq(Requests)
      BY <1>7, StartKeepsSent DEF Finished, SlotInv, SlotType
    <2> QED
      BY <1>7, <2>1 DEF Finished, HistType
  <1>8. CASE SendFnAnswers
    <2>1. "transport" \in Outcome /\ Status \subseteq Outcome
      BY DEF Outcome, Failure, Status
    <2> QED
      BY <1>6, <1>8, <2>1 DEF SendFnAnswers, TransportError, PlainResponse, Response
  <1> QED
    BY <1>1, <1>2, <1>3, <1>4, <1>5, <1>7, <1>8 DEF Next

\* Where a request can be, without arithmetic.
LEMMA OnePlace ==
  ASSUME HistType, ExactlyOnce, NEW r \in Requests
  PROVE  /\ r \in Elems(m_queue) => m_waiting # r /\ r \notin in_flight /\ completions[r] = 0
         /\ m_waiting = r => r \notin in_flight /\ completions[r] = 0
         /\ r \in in_flight => completions[r] = 0
         /\ IsNew(r) => r \notin Elems(m_queue) /\ m_waiting # r /\ r \notin in_flight
         /\ completions[r] \in {0, 1}
  <1>1. Places(r) \in {0, 1} /\ (IsNew(r) => Places(r) = 0) /\ completions[r] \in Nat
    BY DEF ExactlyOnce, HistType
  <1> QED
    BY <1>1 DEF Places

\* Every step keeps the books: one place per request, answered at most once.
LEMMA BookStep ==
  ASSUME SlotInv, HistType, BookInv, [Next]_vars
  PROVE  BookInv'
  <1> USE NoneAssumption
  <1>count. \A r \in Requests : completions[r] \in Nat
    BY DEF HistType
  <1>place. \A r \in Requests :
              /\ r \in Elems(m_queue) =>
                   m_waiting # r /\ r \notin in_flight /\ completions[r] = 0
              /\ m_waiting = r => r \notin in_flight /\ completions[r] = 0
              /\ r \in in_flight => completions[r] = 0
              /\ IsNew(r) => r \notin Elems(m_queue) /\ m_waiting # r /\ r \notin in_flight
              /\ completions[r] \in {0, 1}
    BY OnePlace DEF BookInv
  <1>same. ASSUME UNCHANGED <<m_queue, m_waiting, in_flight, accepted, sent,
                              completions, outcome>>
           PROVE  BookInv'
    BY <1>same DEF BookInv, NoDup, ExactlyOnce, Places, IsNew, Elems, SentInv,
                   StoppedWasNotSent
  <1>1. ASSUME NEW r \in Requests, Send(r) PROVE BookInv'
    <2> DEFINE q == Append(m_queue, r)
    <2>1. /\ IsNew(r) /\ ~m_stopping /\ accepted' = Append(accepted, r)
          /\ UNCHANGED <<completions, outcome>>
      BY <1>1 DEF Send
    <2>2. Elems(accepted') = Elems(accepted) \cup {r}
      BY <2>1, ElemsAppend DEF HistType
    <2>3. q \in Seq(Requests) /\ Elems(q) = Elems(m_queue) \cup {r} /\ NoDup(q)
      BY <1>place, <2>1, ElemsAppend, NoDupAppend DEF SlotInv, SlotType, BookInv
    <2>4. \A s \in Requests : IsNew(s)' <=> IsNew(s) /\ s # r
      BY <2>1, <2>2 DEF IsNew
    <2>5. CASE m_busy /\ m_queue' = q /\ UNCHANGED <<m_waiting, in_flight, sent>>
      <3>1. \A s \in Requests : Places(s)' = Places(s) + (IF s = r THEN 1 ELSE 0)
        BY <1>place, <1>count, <2>1, <2>3, <2>5 DEF Places
      <3>2. Places(r) = 0
        BY <2>1 DEF BookInv, ExactlyOnce
      <3>3. ExactlyOnce'
        BY <2>1, <2>4, <3>1, <3>2 DEF BookInv, ExactlyOnce
      <3>4. SentInv' /\ StoppedWasNotSent'
        BY <2>1, <2>5 DEF BookInv, SentInv, StoppedWasNotSent
      <3> QED BY <2>3, <2>5, <3>3, <3>4 DEF BookInv
    <2>6. CASE ~m_busy /\ start_next(q)
      <3>1. Vacant
        BY <2>1, <2>6 DEF SlotInv, Slot, Vacant
      <3>2. ASSUME NEW s \in Requests
            PROVE  (IF s \in Elems(q) THEN 1 ELSE 0) + completions[s]
                     = IF IsNew(s)' THEN 0 ELSE 1
        <4>1. /\ Places(s) = (IF s \in Elems(m_queue) THEN 1 ELSE 0) + completions[s]
              /\ Places(s) = IF IsNew(s) THEN 0 ELSE 1
          BY <1>count, <3>1 DEF Vacant, Places, BookInv, ExactlyOnce
        <4> QED
          BY <1>place, <1>count, <2>1, <2>3, <2>4, <4>1
      <3> QED
        BY <2>1, <2>3, <2>6, <3>1, <3>2, StartKeepsBook
    <2> QED BY <1>1, <2>5, <2>6 DEF Send
  <1>2. ASSUME NEW r \in Requests, SendRejected(r) PROVE BookInv'
    <2>1. /\ IsNew(r) /\ completions[r] = 0
          /\ UNCHANGED <<m_queue, m_waiting, in_flight, accepted, sent>>
      BY <1>2 DEF SendRejected, IsNew
    <2>2. \A s \in Requests :
            /\ completions'[s] = completions[s] + (IF s = r THEN 1 ELSE 0)
            /\ outcome'[s] = IF s = r THEN "stopped" ELSE outcome[s]
      BY <1>2 DEF SendRejected, Post
    <2>3. ExactlyOnce'
      <3> SUFFICES ASSUME NEW s \in Requests
                   PROVE  Places(s)' = IF IsNew(s)' THEN 0 ELSE 1
        BY DEF ExactlyOnce
      <3>1. Places(s)' = Places(s) + (IF s = r THEN 1 ELSE 0)
        BY <1>count, <2>1, <2>2 DEF Places
      <3>2. IsNew(s)' <=> IsNew(s) /\ s # r
        BY <1>count, <2>1, <2>2 DEF IsNew
      <3>3. Places(s) = IF IsNew(s) THEN 0 ELSE 1
        BY DEF BookInv, ExactlyOnce
      <3> QED BY <2>1, <3>1, <3>2, <3>3
    <2>4. r \notin Elems(sent)
      BY <1>place, <2>1 DEF BookInv, SentInv
    <2>5. SentInv' /\ StoppedWasNotSent'
      BY <1>count, <2>1, <2>2, <2>4 DEF BookInv, SentInv, StoppedWasNotSent
    <2> QED BY <2>1, <2>3, <2>5 DEF BookInv
  <1>3. CASE Shutdown
    <2> DEFINE R == Elems(m_queue) \cup ({m_waiting} \ {None})
    <2>1. /\ m_queue' = <<>> /\ m_waiting' = None
          /\ UNCHANGED <<in_flight, accepted, sent>>
      BY <1>3 DEF Shutdown
    <2>2. \A s \in Requests :
            /\ completions'[s] = completions[s] + (IF s \in R THEN 1 ELSE 0)
            /\ outcome'[s] = IF s \in R THEN "stopped" ELSE outcome[s]
      BY <1>3 DEF Shutdown, Post
    <2>3. NoDup(m_queue') /\ Elems(m_queue') = {}
      BY <2>1 DEF NoDup, Elems
    <2>4. ExactlyOnce'
      <3> SUFFICES ASSUME NEW s \in Requests
                   PROVE  Places(s)' = IF IsNew(s)' THEN 0 ELSE 1
        BY DEF ExactlyOnce
      <3>1. Places(s)' = Places(s)
        BY <1>count, <1>place, <2>1, <2>2, <2>3 DEF Places
      <3>2. s \in R => ~IsNew(s)
        BY <1>place
      <3>3. IsNew(s)' <=> IsNew(s)
        <4>1. CASE s \in R
          <5>1. completions'[s] # 0
            BY <1>count, <2>2, <4>1
          <5> QED BY <3>2, <4>1, <5>1, Zenon DEF IsNew
        <4>2. CASE s \notin R
          <5>1. completions'[s] = completions[s]
            BY <1>count, <2>2, <4>2
          <5> QED BY <2>1, <5>1, Zenon DEF IsNew
        <4> QED BY <4>1, <4>2
      <3>4. Places(s) = IF IsNew(s) THEN 0 ELSE 1
        BY DEF BookInv, ExactlyOnce
      <3> QED BY <3>1, <3>3, <3>4
    <2>5. \A s \in Requests : s \in R => s \notin Elems(sent)
      BY <1>place DEF BookInv, SentInv
    <2>6. SentInv' /\ StoppedWasNotSent'
      BY <1>count, <2>1, <2>2, <2>5 DEF BookInv, SentInv, StoppedWasNotSent
    <2> QED BY <2>3, <2>4, <2>6 DEF BookInv
  <1>4. CASE TimerExpires \/ WaitSpurious \/ Tick \/ UNCHANGED vars
    BY <1>4, <1>same DEF TimerExpires, WaitSpurious, Tick, vars
  <1>5. CASE WaitOver
    <2> DEFINE w == m_waiting
    <2>1. w \in Requests
      BY <1>5 DEF WaitOver, SlotInv, SlotType
    <2>2. /\ m_waiting' = None /\ in_flight' = in_flight \cup {w}
          /\ UNCHANGED <<m_queue, accepted, completions, outcome>>
      BY <1>5 DEF WaitOver, do_send
    <2>3. Elems(sent') = Elems(sent) \cup {w}
      BY <1>5, <2>1, ElemsAppend DEF WaitOver, do_send, HistType
    <2>4. \A s \in Requests : Places(s)' = Places(s) /\ (IsNew(s)' <=> IsNew(s))
      BY <1>count, <1>place, <2>1, <2>2 DEF Places, IsNew
    <2>5. ExactlyOnce'
      BY <2>4 DEF BookInv, ExactlyOnce
    <2>6. SentInv' /\ StoppedWasNotSent'
      BY <1>place, <2>1, <2>2, <2>3 DEF BookInv, SentInv, StoppedWasNotSent
    <2> QED BY <2>2, <2>5, <2>6 DEF BookInv
  <1>6. ASSUME NEW r \in in_flight, NEW res, NEW limit, res # "stopped",
               Answered(r, res, limit)
        PROVE  BookInv'
    <2>1. /\ r \in Requests /\ in_flight' = in_flight \ {r}
          /\ UNCHANGED <<m_queue, m_waiting, accepted, sent>>
      BY <1>6 DEF Answered, SlotInv, SlotType
    <2>2. \A s \in Requests :
            /\ completions'[s] = completions[s] + (IF s = r THEN 1 ELSE 0)
            /\ outcome'[s] = IF s = r THEN res ELSE outcome[s]
      BY <1>6 DEF Answered, Post
    <2>3. ExactlyOnce'
      BY <1>6, <1>count, <1>place, <2>1, <2>2 DEF BookInv, ExactlyOnce, Places, IsNew
    <2>4. SentInv' /\ StoppedWasNotSent'
      BY <1>6, <1>count, <2>1, <2>2 DEF BookInv, SentInv, StoppedWasNotSent
    <2> QED BY <2>1, <2>3, <2>4 DEF BookInv
  <1>7. CASE Finished
    <2>1. Vacant /\ m_queue \in Seq(Requests)
      BY <1>7 DEF Finished, SlotInv, SlotType, Slot, Vacant
    <2>2. /\ start_next(m_queue) /\ UNCHANGED <<accepted, completions, outcome>>
      BY <1>7 DEF Finished
    <2>3. \A s \in Requests :
            (IF s \in Elems(m_queue) THEN 1 ELSE 0) + completions[s]
              = IF IsNew(s)' THEN 0 ELSE 1
      BY <1>count, <2>1, <2>2 DEF Vacant, BookInv, ExactlyOnce, Places, IsNew
    <2>4. NoDup(m_queue)
      BY DEF BookInv
    <2> QED
      BY <2>1, <2>2, <2>3, <2>4, StartKeepsBook
  <1>8. CASE SendFnAnswers
    <2>1. "transport" # "stopped" /\ "stopped" \notin Status
      BY DEF Status
    <2> QED
      BY <1>6, <1>8, <2>1 DEF SendFnAnswers, TransportError, PlainResponse, Response
  <1> QED
    BY <1>1, <1>2, <1>3, <1>4, <1>5, <1>7, <1>8 DEF Next

-----------------------------------------------------------------------------
(* The theorems.                                                           *)

RInv == SlotInv /\ ClockInv /\ HistType /\ BookInv

\* The constructed limiter satisfies the invariant.
LEMMA InitInv ==
  ASSUME Init
  PROVE  RInv
  <1> USE NoneAssumption, RouteAssumption, TimeAssumption
  <1>1. SlotInv
    <2>1. m_queue \in Seq(Requests)
      BY DEF Init
    <2>2. SlotType
      BY <2>1, Zenon DEF Init, SlotType
    <2>3. Slot
      BY Zenon DEF Init, Slot
    <2> QED BY <2>2, <2>3 DEF SlotInv
  <1>2. ClockInv
    BY DEF Init, ClockInv, ClockType, WaitInv
  <1>3. HistType
    BY DEF Init, HistType
  <1>4. Elems(m_queue) = {} /\ Elems(accepted) = {} /\ Elems(sent) = {} /\ NoDup(m_queue)
    BY DEF Init, Elems, NoDup
  <1>5. \A r \in Requests : completions[r] = 0 /\ outcome[r] # "stopped"
    BY DEF Init
  <1>6. ExactlyOnce
    BY <1>4, <1>5 DEF Init, ExactlyOnce, Places, IsNew
  <1>7. SentInv /\ StoppedWasNotSent
    BY <1>4, <1>5 DEF SentInv, StoppedWasNotSent
  <1> QED
    BY <1>1, <1>2, <1>3, <1>4, <1>6, <1>7 DEF RInv, BookInv

\* The inductive invariant: every step of the limiter -- an accepted or
\* refused send, shutdown, the wait timer, send_fn's answer and the strand
\* handler after it -- preserves it.
THEOREM LimiterInductive == Spec => []RInv
  <1>1. RInv /\ [Next]_vars => RInv'
    BY SlotStep, ClockStep, HistStep, BookStep DEF RInv
  <1> QED
    BY <1>1, InitInv, PTL DEF Spec

\* The members of the rate limiter keep their types.
THEOREM LimiterType == Spec => []TypeOK
  <1>1. RInv => TypeOK
    BY Zenon DEF RInv, SlotInv, SlotType, ClockInv, ClockType, HistType, TypeOK
  <1> QED
    BY <1>1, LimiterInductive, PTL

\* Around every order of responses, timers and shutdown at most one request
\* is with send_fn, and none while another one waits for its route.
THEOREM Serialised == Spec => []OneAtATime
  <1>1. ASSUME RInv PROVE OneAtATime
    <2>1. Cardinality(in_flight) <= 1
      <3>1. CASE in_flight = {}
        BY <3>1, FS_EmptySet
      <3>2. CASE in_flight # {}
        <4>1. PICK r : r \in in_flight
          BY <3>2
        <4>2. in_flight = {r}
          BY <1>1, <4>1 DEF RInv, SlotInv, Slot
        <4>3. Cardinality(in_flight) = 1
          BY <4>2, FS_Singleton, Zenon
        <4> QED BY <4>3
      <3> QED BY <3>1, <3>2
    <2> QED BY <1>1, <2>1 DEF OneAtATime, RInv, SlotInv, Slot
  <1> QED
    BY <1>1, LimiterInductive, PTL

\* Once shutdown ran no handler that was already queued hands a request to
\* send_fn.
THEOREM QuietAfterShutdown == Spec => NoSendAfterShutdown
  <1>1. ASSUME RInv, [Next]_vars PROVE [m_stopping => sent' = sent]_vars
    <2> SUFFICES ASSUME m_stopping, Next PROVE sent' = sent
      BY <1>1
    <2>1. CASE WaitOver
      BY <1>1, <2>1 DEF WaitOver, RInv, SlotInv, Slot
    <2>2. CASE Finished
      BY <2>2 DEF Finished, start_next
    <2> QED
      BY <2>1, <2>2, Zenon
      DEF Next, Send, SendRejected, Shutdown, TimerExpires, WaitSpurious, Tick,
          SendFnAnswers, TransportError, PlainResponse, Response, Answered
  <1> QED
    BY <1>1, LimiterInductive, PTL DEF Spec, NoSendAfterShutdown

\* start_next sends only what need not wait.
LEMMA StartWithinLimit ==
  ASSUME NEW q, start_next(q), NEW r, r \in in_flight' \ in_flight
  PROVE  ~should_wait(r)
  BY DEF start_next, maybe_wait_then_send, do_send

\* A request goes to send_fn only when its route's last headers allow it:
\* the limits it was held back for cannot change while it waits, because
\* nothing else is in flight that could record new ones.
THEOREM Limited == Spec => WithinLimit
  <1> DEFINE Allowed == \A r \in Requests : r \in in_flight' \ in_flight => ~should_wait(r)
  <1>1. ASSUME RInv, [Next]_vars PROVE [Allowed]_vars
    <2> SUFFICES ASSUME Next, NEW r \in Requests, r \in in_flight' \ in_flight
                 PROVE  ~should_wait(r)
      BY <1>1
    <2>1. CASE WaitOver
      <3>1. r = m_waiting /\ m_waiting # None /\ wait_timer = "fired"
        BY <2>1 DEF WaitOver, do_send
      <3>2. /\ now >= m_rate_limits[RouteOf[r]].reset_time
            /\ now \in Nat /\ RouteOf[r] \in Routes
            /\ m_rate_limits[RouteOf[r]] # None
        BY <1>1, <3>1, RouteAssumption DEF RInv, ClockInv, ClockType, WaitInv
      <3>3. m_rate_limits[RouteOf[r]].reset_time \in Nat
        BY <1>1, <3>2 DEF RInv, ClockInv, ClockType, Limit
      <3> QED BY <3>2, <3>3 DEF should_wait
    <2>2. CASE Finished
      BY <2>2, StartWithinLimit DEF Finished
    <2>3. ASSUME NEW s \in Requests, Send(s) PROVE ~should_wait(r)
      BY <2>3, StartWithinLimit DEF Send
    <2> QED
      BY <2>1, <2>2, <2>3, Zenon
      DEF Next, SendRejected, Shutdown, TimerExpires, WaitSpurious, Tick,
          SendFnAnswers, TransportError, PlainResponse, Response, Answered
  <1> QED
    BY <1>1, LimiterInductive, PTL DEF Spec, WithinLimit

\* No request is lost, answered twice or in two places at once.
THEOREM Accounted == Spec => []ExactlyOnce
  <1>1. RInv => ExactlyOnce
    BY DEF RInv, BookInv
  <1> QED
    BY <1>1, LimiterInductive, PTL

\* A request that shutdown failed never reached send_fn.
THEOREM StoppedUnsent == Spec => []StoppedWasNotSent
  <1>1. RInv => StoppedWasNotSent
    BY DEF RInv, BookInv
  <1> QED
    BY <1>1, LimiterInductive, PTL

-----------------------------------------------------------------------------
(* The rate limiter is a serial service.                                   *)

\* The request in service, as the service's queue begins with it.
Served == IF m_waiting # None THEN <<m_waiting>>
          ELSE IF in_flight # {} THEN <<CHOOSE r \in in_flight : TRUE>> ELSE <<>>
Pending == Served \o m_queue
Completed == {r \in Requests : completions[r] > 0}

\* A request in front of a queue.
LEMMA Front ==
  ASSUME NEW S, NEW q \in Seq(S), NEW x \in S
  PROVE  /\ <<x>> \o q \in Seq(S) /\ <<x>> \o q # <<>>
         /\ Head(<<x>> \o q) = x /\ Tail(<<x>> \o q) = q
         /\ Elems(<<x>> \o q) = {x} \cup Elems(q)
         /\ \A y \in S : Append(<<x>> \o q, y) = <<x>> \o Append(q, y)
  <1> DEFINE c == <<x>> \o q
  <1>1. /\ c \in Seq(S) /\ c # <<>> /\ Head(c) = x /\ Tail(c) = q
        /\ \A y \in S : Append(c, y) = <<x>> \o Append(q, y)
    OBVIOUS
  <1> HIDE DEF c
  <1>2. Elems(c) = {x} \cup Elems(q)
    BY <1>1, ElemsHeadTail
  <1> QED BY <1>1, <1>2 DEF c

\* Who is served.
LEMMA ServedIs ==
  ASSUME SlotInv
  PROVE  /\ Vacant => Served = <<>>
         /\ m_waiting # None => Served = <<m_waiting>> /\ in_flight = {} /\ m_waiting \in Requests
         /\ \A r \in in_flight : Served = <<r>> /\ m_waiting = None /\ r \in Requests
                                   /\ in_flight = {r}
  <1>1. Vacant => Served = <<>>
    BY DEF Vacant, Served
  <1>2. m_waiting # None => Served = <<m_waiting>> /\ in_flight = {} /\ m_waiting \in Requests
    BY DEF Served, SlotInv, SlotType, Slot
  <1>3. ASSUME NEW r \in in_flight
        PROVE  Served = <<r>> /\ m_waiting = None /\ r \in Requests /\ in_flight = {r}
    <2>1. m_waiting = None /\ r \in Requests /\ \A s \in in_flight : s = r
      BY <1>3 DEF SlotInv, SlotType, Slot
    <2>2. (CHOOSE s \in in_flight : TRUE) \in in_flight
      BY <1>3
    <2> QED BY <2>1, <2>2 DEF Served
  <1> QED BY <1>1, <1>2, <1>3

\* The service's queue, by who is served.
LEMMA PendingIs ==
  ASSUME SlotInv
  PROVE  /\ Vacant => Pending = m_queue
         /\ \A r \in Requests : r = m_waiting \/ r \in in_flight =>
              /\ Pending = <<r>> \o m_queue /\ Pending # <<>>
              /\ Head(Pending) = r /\ Tail(Pending) = m_queue
              /\ Elems(Pending) = {r} \cup Elems(m_queue)
         /\ \A r \in Requests : Append(Pending, r) = Served \o Append(m_queue, r)
  <1>a. m_queue \in Seq(Requests)
    BY DEF SlotInv, SlotType
  <1>1. Vacant => Pending = m_queue
    BY <1>a, ServedIs DEF Pending
  <1>2. ASSUME NEW r \in Requests, r = m_waiting \/ r \in in_flight
        PROVE  /\ Pending = <<r>> \o m_queue /\ Pending # <<>>
               /\ Head(Pending) = r /\ Tail(Pending) = m_queue
               /\ Elems(Pending) = {r} \cup Elems(m_queue)
               /\ \A s \in Requests : Append(Pending, s) = Served \o Append(m_queue, s)
    <2>1. Served = <<r>>
      BY <1>2, ServedIs, NoneAssumption
    <2>2. Pending = <<r>> \o m_queue
      BY <2>1 DEF Pending
    <2>3. Pending # <<>> /\ Head(Pending) = r /\ Tail(Pending) = m_queue
      BY <1>a, <2>2
    <2>4. Elems(Pending) = {r} \cup Elems(m_queue)
      BY <1>a, <2>2, Front
    <2>5. \A s \in Requests : Append(Pending, s) = Served \o Append(m_queue, s)
      BY <1>a, <2>1, <2>2, Front
    <2> QED BY <2>2, <2>3, <2>4, <2>5
  <1>3. CASE Vacant
    <2>1. \A s \in Requests : Append(m_queue, s) \in Seq(Requests)
      BY <1>a
    <2>2. \A s \in Requests : <<>> \o Append(m_queue, s) = Append(m_queue, s)
      BY <2>1
    <2>3. \A s \in Requests : Append(Pending, s) = Served \o Append(m_queue, s)
      BY <1>1, <1>3, <2>2, ServedIs
    <2> QED BY <1>1, <1>2, <2>3
  <1>4. CASE ~Vacant
    <2>1. PICK r \in Requests : r = m_waiting \/ r \in in_flight
      BY <1>4, ServedIs DEF Vacant
    <2> QED BY <1>1, <1>2, <2>1
  <1> QED BY <1>3, <1>4

\* start_next only moves the head of the service's queue into service.
LEMMA StartKeepsPending ==
  ASSUME SlotInv, SlotInv', Vacant, NEW q \in Seq(Requests), start_next(q)
  PROVE  Pending' = q
  <1>1. CASE m_stopping \/ q = <<>>
    <2>1. m_queue' = q /\ Vacant'
      BY <1>1 DEF start_next, Vacant
    <2>2. Served' = <<>>
      BY <2>1 DEF Served, Vacant
    <2> QED BY <2>1, <2>2 DEF Pending
  <1>2. CASE ~m_stopping /\ q # <<>>
    <2>1. m_queue' = Tail(q) /\ Head(q) \in Requests /\ maybe_wait_then_send(Head(q))
      BY <1>2 DEF start_next
    <2>2. Served' = <<Head(q)>>
      <3>1. CASE m_waiting' = Head(q)
        BY <2>1, <3>1, NoneAssumption DEF Served
      <3>2. CASE m_waiting' = None /\ in_flight' = {Head(q)}
        BY <3>2 DEF Served
      <3> QED BY <2>1, <3>1, <3>2 DEF maybe_wait_then_send, do_send, Vacant
    <2>3. <<Head(q)>> \o Tail(q) = q
      BY <1>2
    <2> QED BY <2>1, <2>2, <2>3 DEF Pending
  <1> QED BY <1>1, <1>2

\* The service's actions, said of the limiter's state.
LEMMA ServiceActions ==
  /\ Service!SInit <=> Pending = <<>> /\ Completed = {} /\ m_stopping = FALSE
  /\ \A r \in Requests :
       /\ ~m_stopping /\ r \notin Completed \cup Elems(Pending)
       /\ Pending' = Append(Pending, r) /\ Completed' = Completed /\ UNCHANGED m_stopping
       => Service!Accept(r)
  /\ \A r \in Requests :
       /\ m_stopping /\ r \notin Completed \cup Elems(Pending)
       /\ Completed' = Completed \cup {r} /\ Pending' = Pending /\ UNCHANGED m_stopping
       => Service!Reject(r)
  /\ /\ Pending # <<>> /\ Pending' = Tail(Pending)
     /\ Completed' = Completed \cup {Head(Pending)} /\ UNCHANGED m_stopping
     => Service!Answer
  /\ /\ ~m_stopping /\ m_stopping' = TRUE
     /\ Pending' \in {<<>>, IF Pending = <<>> THEN <<>> ELSE <<Head(Pending)>>}
     /\ Completed' = (Completed \cup Elems(Pending)) \ Elems(Pending')
     => Service!Stop
  /\ Pending' = Pending /\ Completed' = Completed /\ UNCHANGED m_stopping
     => UNCHANGED Service!svars
  BY DEF Pending, Served, Completed, Elems, Service!SInit, Service!Known, Service!Accept,
     Service!Reject, Service!Answer, Service!Stop, Service!svars

\* Every step is one of the service or changes nothing there.
LEMMA ServiceStep == RInv /\ RInv' /\ [Next]_vars => [Service!SNext]_(Service!svars)
  <1> SUFFICES ASSUME RInv, RInv', [Next]_vars
               PROVE  Service!SNext \/ UNCHANGED Service!svars
    OBVIOUS
  <1>a. SlotInv /\ SlotInv' /\ HistType /\ ExactlyOnce /\ m_queue \in Seq(Requests)
    BY DEF RInv, BookInv, SlotInv, SlotType
  <1>place. \A r \in Requests :
              /\ r \in Elems(m_queue) =>
                   m_waiting # r /\ r \notin in_flight /\ completions[r] = 0
              /\ m_waiting = r => r \notin in_flight /\ completions[r] = 0
              /\ r \in in_flight => completions[r] = 0
              /\ IsNew(r) => r \notin Elems(m_queue) /\ m_waiting # r /\ r \notin in_flight
              /\ completions[r] \in {0, 1}
    BY <1>a, OnePlace
  <1>new. ASSUME NEW r \in Requests, IsNew(r) PROVE r \notin Completed \cup Elems(Pending)
    <2>1. r \notin Completed /\ r \notin Elems(m_queue) /\ m_waiting # r /\ r \notin in_flight
      BY <1>new, <1>place DEF IsNew, Completed
    <2>2. CASE Vacant
      BY <1>a, <2>1, <2>2, PendingIs
    <2>3. CASE ~Vacant
      <3>1. PICK s \in Requests : s = m_waiting \/ s \in in_flight
        BY <1>a, <2>3, ServedIs DEF Vacant
      <3>2. Elems(Pending) = {s} \cup Elems(m_queue)
        BY <1>a, <3>1, PendingIs
      <3>3. r # s
        BY <2>1, <3>1
      <3> QED BY <2>1, <3>2, <3>3
    <2> QED BY <2>2, <2>3
  <1>post. ASSUME NEW R, R \subseteq Requests, NEW res, Post(R, res)
           PROVE  Completed' = Completed \cup R
    <2>1. \A r \in Requests : completions'[r] = completions[r] + (IF r \in R THEN 1 ELSE 0)
      BY <1>post DEF Post
    <2>2. \A r \in Requests : completions'[r] > 0 <=> completions[r] > 0 \/ r \in R
      BY <1>place, <2>1
    <2> QED BY <1>post, <2>2 DEF Completed
  <1>same. ASSUME UNCHANGED <<m_queue, m_waiting, in_flight, completions, m_stopping>>
           PROVE  UNCHANGED Service!svars
    <2>1. Pending' = Pending /\ Completed' = Completed
      BY <1>same DEF Pending, Served, Completed
    <2> QED BY <1>same, <2>1, ServiceActions
  <1>1. ASSUME NEW r \in Requests, Send(r) PROVE Service!SNext
    <2>1. IsNew(r) /\ ~m_stopping /\ UNCHANGED <<m_stopping, completions>>
      BY <1>1 DEF Send
    <2>2. Completed' = Completed
      BY <2>1 DEF Completed
    <2>3. Pending' = Append(Pending, r)
      <3>1. CASE m_busy /\ m_queue' = Append(m_queue, r) /\ UNCHANGED <<m_waiting, in_flight>>
        BY <1>a, <3>1, PendingIs DEF Pending, Served
      <3>2. CASE ~m_busy /\ start_next(Append(m_queue, r))
        <4>1. Vacant
          BY <1>a, <2>1, <3>2 DEF SlotInv, Slot, Vacant
        <4>2. Append(m_queue, r) \in Seq(Requests)
          BY <1>a
        <4> QED BY <1>a, <3>2, <4>1, <4>2, StartKeepsPending, PendingIs
      <3> QED BY <1>1, <3>1, <3>2 DEF Send
    <2> QED BY <1>new, <2>1, <2>2, <2>3, ServiceActions DEF Service!SNext
  <1>2. ASSUME NEW r \in Requests, SendRejected(r) PROVE Service!SNext
    <2>1. /\ IsNew(r) /\ m_stopping /\ Post({r}, "stopped")
          /\ UNCHANGED <<m_queue, m_waiting, in_flight, m_stopping>>
      BY <1>2 DEF SendRejected
    <2>2. Completed' = Completed \cup {r}
      BY <1>post, <2>1
    <2>3. Pending' = Pending
      BY <2>1 DEF Pending, Served
    <2> QED BY <1>new, <2>1, <2>2, <2>3, ServiceActions DEF Service!SNext
  <1>3. CASE Shutdown
    <2>1. /\ ~m_stopping /\ m_stopping' = TRUE /\ m_queue' = <<>> /\ m_waiting' = None
          /\ UNCHANGED in_flight /\ Post(Elems(m_queue) \cup ({m_waiting} \ {None}), "stopped")
      BY <1>3 DEF Shutdown
    <2>2. Elems(m_queue) \cup ({m_waiting} \ {None}) \subseteq Requests
      BY <1>a DEF SlotInv, SlotType, Elems
    <2>3. Completed' = Completed \cup Elems(m_queue) \cup ({m_waiting} \ {None})
      BY <1>post, <2>1, <2>2
    <2>4. CASE in_flight = {}
      <3>1. Pending' = <<>>
        BY <2>1, <2>4 DEF Pending, Served
      <3>2. Elems(Pending) = Elems(m_queue) \cup ({m_waiting} \ {None})
        <4>1. CASE m_waiting = None
          BY <1>a, <2>4, <4>1, PendingIs DEF Vacant
        <4>2. CASE m_waiting # None
          <5>1. m_waiting \in Requests
            BY <1>a, <4>2 DEF SlotInv, SlotType
          <5> QED BY <1>a, <4>2, <5>1, PendingIs
        <4> QED BY <4>1, <4>2
      <3>3. Elems(Pending') = {}
        BY <3>1 DEF Elems
      <3>4. Completed' = (Completed \cup Elems(Pending)) \ Elems(Pending')
        BY <2>3, <3>2, <3>3
      <3> QED BY <2>1, <3>1, <3>4, ServiceActions DEF Service!SNext
    <2>5. ASSUME NEW r \in in_flight PROVE Service!SNext
      <3>1. Served = <<r>> /\ m_waiting = None /\ r \in Requests /\ in_flight = {r}
        BY <1>a, ServedIs
      <3>2. Pending' = <<r>>
        BY <2>1, <3>1 DEF Pending, Served
      <3>3. Pending # <<>> /\ Head(Pending) = r /\ Elems(Pending) = {r} \cup Elems(m_queue)
        BY <1>a, <3>1, PendingIs
      <3>4. Elems(Pending') = {r}
        BY <3>2 DEF Elems
      <3>5. r \notin Completed /\ r \notin Elems(m_queue)
        BY <1>place, <3>1 DEF Completed
      <3>6. Completed' = (Completed \cup Elems(Pending)) \ Elems(Pending')
        BY <2>3, <3>1, <3>3, <3>4, <3>5
      <3> QED BY <2>1, <3>2, <3>3, <3>6, ServiceActions DEF Service!SNext
    <2> QED BY <2>4, <2>5
  <1>4. CASE TimerExpires \/ WaitSpurious \/ Tick \/ UNCHANGED vars
    BY <1>4, <1>same DEF TimerExpires, WaitSpurious, Tick, vars
  <1>5. CASE WaitOver
    <2>1. /\ m_waiting # None /\ m_waiting' = None /\ in_flight' = in_flight \cup {m_waiting}
          /\ UNCHANGED <<m_queue, completions, m_stopping>>
      BY <1>5 DEF WaitOver, do_send
    <2>2. Served = <<m_waiting>> /\ in_flight = {}
      BY <1>a, <2>1, ServedIs
    <2>3. Served' = Served
      BY <2>1, <2>2 DEF Served
    <2>4. Pending' = Pending /\ Completed' = Completed
      BY <2>1, <2>3 DEF Pending, Completed
    <2> QED BY <2>1, <2>4, ServiceActions
  <1>6. ASSUME NEW r \in in_flight, NEW res, NEW limit, Answered(r, res, limit)
        PROVE  Service!SNext
    <2>1. r \in Requests /\ in_flight = {r} /\ m_waiting = None
      BY <1>a, ServedIs
    <2>2. /\ in_flight' = {} /\ Post({r}, res) /\ UNCHANGED <<m_queue, m_waiting, m_stopping>>
      BY <1>6, <2>1 DEF Answered
    <2>3. Completed' = Completed \cup {r}
      BY <1>post, <2>1, <2>2
    <2>4. Pending # <<>> /\ Head(Pending) = r /\ Tail(Pending) = m_queue
      BY <1>a, <2>1, PendingIs
    <2>5. Pending' = m_queue
      BY <1>a, <2>1, <2>2 DEF Pending, Served
    <2> QED BY <2>2, <2>3, <2>4, <2>5, ServiceActions DEF Service!SNext
  <1>7. CASE Finished
    <2>1. Vacant /\ start_next(m_queue) /\ UNCHANGED <<m_stopping, completions>>
      BY <1>7, <1>a DEF Finished, SlotInv, Slot, Vacant
    <2>2. Pending' = Pending
      BY <1>a, <2>1, StartKeepsPending, PendingIs
    <2> QED BY <2>1, <2>2, ServiceActions DEF Completed
  <1>8. CASE SendFnAnswers
    BY <1>6, <1>8 DEF SendFnAnswers, TransportError, PlainResponse, Response
  <1> QED
    BY <1>1, <1>2, <1>3, <1>4, <1>5, <1>7, <1>8 DEF Next

\* The limiter implements SerialService, its fairness aside: requests are
\* answered one at a time and in order, each exactly once, also by a shutdown.
THEOREM LimiterIsSerial == Spec => Service!SInit /\ [][Service!SNext]_(Service!svars)
  <1>1. Init => Service!SInit
    <2> SUFFICES ASSUME Init PROVE Service!SInit
      OBVIOUS
    <2>1. Pending = <<>> /\ Completed = {}
      BY DEF Init, Pending, Served, Completed
    <2> QED BY <2>1, ServiceActions DEF Init
  <1> QED BY <1>1, ServiceStep, LimiterInductive, PTL DEF Spec

-----------------------------------------------------------------------------
(* HttpClient as the send_fn of the limiter.                               *)

\* An answer of the client is an answer of the limiter's send_fn.
LEMMA GiveUpAnswers ==
  ASSUME NEW r, GiveUp(r)
  PROVE  Next
  <1>1. r \in in_flight /\ TransportError(r)
    BY DEF GiveUp, TransportError, Answered
  <1> QED
    BY <1>1 DEF Next, SendFnAnswers

\* A step of the client is a step of the limiter or leaves it alone.
LEMMA StepKeepsLimiter == ClientNext => [Next]_vars
  <1> SUFFICES ASSUME ClientNext PROVE [Next]_vars
    OBVIOUS
  <1>1. CASE Limiter
    BY <1>1 DEF Limiter, Next
  <1>2. CASE SendHttp
    BY <1>2, GiveUpAnswers DEF SendHttp, send_http_attempt
  <1>3. CASE ConnectFailed
    BY <1>3, GiveUpAnswers DEF ConnectFailed
  <1>4. CASE OnError
    BY <1>4, GiveUpAnswers DEF OnError, send_http_attempt
  <1>5. CASE OnResponse
    <2>1. PICK res \in Status :
            \/ PlainResponse(call.req, res)
            \/ \E left \in 0..1, reset \in now..MaxTime : Response(call.req, res, left, reset)
      BY <1>5 DEF OnResponse
    <2>2. call.req \in in_flight
      BY <2>1 DEF PlainResponse, Response, Answered
    <2> QED
      BY <2>1, <2>2, Zenon DEF Next, SendFnAnswers
  <1>6. CASE Connected \/ ServerExecutes \/ ResponseArrives \/ RequestFails \/ ClientShutdown
    BY <1>6 DEF Connected, ServerExecutes, ResponseArrives, RequestFails, ClientShutdown
  <1> QED
    BY <1>1, <1>2, <1>3, <1>4, <1>5, <1>6 DEF ClientNext, ClientRuns

\* The limiter, served by the client, behaves as the limiter does with any
\* send_fn: retries, connects and shutdown stay behind its interface.
THEOREM ClientKeepsLimiter == ClientSpec => Spec
  <1>1. ClientInit => Init
    BY DEF ClientInit
  <1>2. [ClientNext]_allVars => [Next]_vars
    <2>1. UNCHANGED allVars => UNCHANGED vars
      BY DEF allVars
    <2> QED
      BY <2>1, StepKeepsLimiter
  <1> QED
    BY <1>1, <1>2, PTL DEF ClientSpec, Spec

\* Retries and failing connections included, every accepted request is in one
\* place and is completed at most once.
THEOREM ClientAccounted == ClientSpec => []ExactlyOnce
  BY ClientKeepsLimiter, Accounted, PTL

\* One request at a time reaches send_http, also around a shutdown.
THEOREM ClientSerialised == ClientSpec => []OneAtATime
  BY ClientKeepsLimiter, Serialised, PTL

\* A request failed by shutdown never reached send_http.
THEOREM ClientStoppedUnsent == ClientSpec => []StoppedWasNotSent
  BY ClientKeepsLimiter, StoppedUnsent, PTL

\* After the limiter's shutdown nothing is handed to send_http.
THEOREM ClientQuiet == ClientSpec => NoSendAfterShutdown
  BY ClientKeepsLimiter, QuietAfterShutdown, PTL

\* A request is handed to send_http only within the limit of its route.
THEOREM ClientLimited == ClientSpec => WithinLimit
  BY ClientKeepsLimiter, Limited, PTL

\* The client behind its limiter implements SerialService, its fairness aside.
THEOREM ClientIsSerial == ClientSpec => Service!SInit /\ [][Service!SNext]_(Service!svars)
  BY ClientKeepsLimiter, LimiterIsSerial, PTL

-----------------------------------------------------------------------------
(* The call of send_http.                                                  *)

\* A first attempt follows no other, and an attempt is executed once.
CallInv ==
  /\ call \in Call \cup {None}
  /\ call # None =>
       /\ call.runs <= call.attempt + (IF call.ran THEN 1 ELSE 0)
       /\ call.attempt = 1 /\ call.pc = "requested" => m_http = "fresh" \/ call.dropped

\* An attempt that starts adds nothing to the executions of the first one.
LEMMA AttemptStarts ==
  ASSUME CallInv, NEW r \in Requests, NEW attempt \in 0..1, NEW http,
         attempt = 0 => call = None,
         attempt = 1 => call # None /\ call.attempt = 0 /\ http = None,
         http = m_http', send_http_attempt(r, attempt, http)
  PROVE  CallInv'
  <1>1. CASE ~m_token
    BY <1>1 DEF send_http_attempt, GiveUp, CallInv
  <1>2. CASE m_token
    <2> DEFINE k == IF call = None THEN 0 ELSE call.runs
    <2>1. /\ call' = [req |-> r, attempt |-> attempt, ran |-> FALSE, dropped |-> FALSE,
                      runs |-> k, pc |-> IF http = None THEN "connecting" ELSE "requested"]
      BY <1>2 DEF send_http_attempt
    <2>2. k \in Nat /\ k <= attempt
      BY DEF CallInv, Call
    <2>3. call' \in Call
      BY <2>1, <2>2 DEF Call
    <2> QED
      BY <2>1, <2>2, <2>3 DEF CallInv
  <1> QED BY <1>1, <1>2

\* Every step of the client keeps CallInv.
LEMMA CallStep ==
  ASSUME CallInv, in_flight \subseteq Requests, ClientNext
  PROVE  CallInv'
  <1>1. CASE Limiter
    BY <1>1, Zenon DEF Limiter, clientVars, CallInv
  <1>2. CASE SendHttp
    <2>1. PICK r \in in_flight : send_http_attempt(r, 0, m_http)
      BY <1>2 DEF SendHttp
    <2>2. r \in Requests /\ call = None /\ m_http = m_http'
      BY <1>2, <2>1 DEF SendHttp
    <2> QED
      BY <2>1, <2>2, AttemptStarts
  <1>3. CASE Connected
    BY <1>3 DEF Connected, Calls, CallInv, Call
  <1>4. CASE ConnectFailed
    BY <1>4 DEF ConnectFailed, GiveUp, CallInv
  <1>5. CASE ServerExecutes
    <2>1. call \in Call /\ ~call.ran /\ call.runs <= call.attempt + 0
      BY <1>5 DEF ServerExecutes, Calls, CallInv
    <2>2. /\ call' = [call EXCEPT !.ran = TRUE, !.runs = @ + 1]
          /\ call.attempt \in 0..1 /\ call.runs \in Nat /\ m_http' = m_http
      BY <1>5, <2>1 DEF ServerExecutes, Call
    <2>3. /\ call'.runs = call.runs + 1 /\ call'.ran = TRUE
          /\ call'.attempt = call.attempt /\ call'.pc = call.pc
          /\ call'.dropped = call.dropped /\ call' \in Call
      <3>1. call.runs + 1 \in Nat
        BY <2>2
      <3> DEFINE k == call.runs + 1
      <3> HIDE DEF k
      <3>2. k \in Nat /\ call' = [call EXCEPT !.ran = TRUE, !.runs = k]
        BY <2>2, <3>1 DEF k
      <3>3. /\ call'.runs = k /\ call'.ran = TRUE
            /\ call'.attempt = call.attempt /\ call'.pc = call.pc
            /\ call'.dropped = call.dropped /\ call' \in Call
        BY <2>1, <3>2, Zenon DEF Call
      <3> QED
        BY <3>3, Zenon DEF k
    <2>4. call'.runs <= call'.attempt + 1
      BY <2>1, <2>2, <2>3
    <2> QED
      BY <1>5, <2>2, <2>3, <2>4 DEF ServerExecutes, Calls, CallInv
  <1>6. CASE ResponseArrives
    BY <1>6 DEF ResponseArrives, Calls, CallInv, Call
  <1>7. CASE RequestFails
    BY <1>7 DEF RequestFails, Calls, CallInv, Call
  <1>8. CASE OnResponse
    BY <1>8 DEF OnResponse, CallInv
  <1>9. CASE OnError
    <2>1. CASE call.attempt = 1 /\ GiveUp(call.req)
      BY <2>1 DEF GiveUp, CallInv
    <2>2. CASE call.attempt = 0 /\ m_http' = None /\ send_http_attempt(call.req, 1, None)
      <3>1. call # None /\ call.req \in Requests
        BY <1>9 DEF OnError, Calls, CallInv, Call
      <3> QED
        BY <2>2, <3>1, AttemptStarts
    <2> QED
      BY <1>9, <2>1, <2>2 DEF OnError
  <1>10. CASE ClientShutdown
    <2>1. CASE Calls("requested")
      BY <1>10, <2>1 DEF ClientShutdown, Calls, CallInv, Call
    <2>2. CASE ~Calls("requested")
      BY <1>10, <2>2 DEF ClientShutdown, Calls, CallInv
    <2> QED BY <2>1, <2>2
  <1> QED
    BY <1>1, <1>2, <1>3, <1>4, <1>5, <1>6, <1>7, <1>8, <1>9, <1>10
    DEF ClientNext, ClientRuns

\* CallInv is an invariant, given that the limiter only sends requests.
THEOREM CallInductive == ClientSpec => []CallInv
  <1>1. ClientInit => CallInv
    BY DEF ClientInit, CallInv
  <1>2. CallInv /\ TypeOK /\ [ClientNext]_allVars => CallInv'
    <2>1. ASSUME CallInv, UNCHANGED allVars PROVE CallInv'
      BY <2>1, Zenon DEF allVars, clientVars, CallInv
    <2>2. TypeOK => in_flight \subseteq Requests
      BY DEF TypeOK
    <2> QED
      BY <2>1, <2>2, CallStep
  <1>3. ClientSpec => []TypeOK
    BY ClientKeepsLimiter, LimiterType, PTL
  <1> QED
    BY <1>1, <1>2, <1>3, PTL DEF ClientSpec

\* The server executes a request at most twice, whatever fails and whenever
\* the client is shut down.
THEOREM TwiceAtMost == ClientSpec => []AtMostTwice
  <1>1. CallInv => AtMostTwice
    BY DEF CallInv, Call, AtMostTwice
  <1> QED
    BY <1>1, CallInductive, PTL

\* The retry of send_http goes over a connection made for it.
THEOREM FreshRetry == ClientSpec => []RetryIsOnFreshConnection
  <1>1. CallInv => RetryIsOnFreshConnection
    BY DEF CallInv, Calls, RetryIsOnFreshConnection
  <1> QED
    BY <1>1, CallInductive, PTL
=============================================================================
