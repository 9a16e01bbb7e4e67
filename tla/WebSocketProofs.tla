--------------------------- MODULE WebSocketProofs ---------------------------
(***************************************************************************)
(* Proofs about WebSocket, for any sets of reads, sends and closes: one    *)
(* operation of each kind on the stream, every read completed once and in  *)
(* the order of the calls, messages written in the order of the sends, a   *)
(* queue that nobody drains only after a write failed, and every caller    *)
(* answered once or with its operation under way.                          *)
(***************************************************************************)
EXTENDS WebSocket, SequenceTheorems, FiniteSetTheorems, TLAPS

NoDup(q) == \A i, j \in DOMAIN q : q[i] = q[j] => i = j

\* A set without two different elements.
Lone(S) == \A a, b \in S : a = b

LEMMA LoneCardinality ==
  ASSUME NEW S, Lone(S)
  PROVE  Cardinality(S) <= 1
<1>1. CASE S = {}
  BY <1>1, FS_EmptySet
<1>2. ASSUME NEW a \in S PROVE Cardinality(S) <= 1
  <2>1. S = {a}
    BY <1>2 DEF Lone
  <2>2. Cardinality(S) = 1
    BY <2>1, FS_Singleton
  <2> QED BY <2>2
<1> QED BY <1>1, <1>2

\* Appending adds one element.
LEMMA AppendElems ==
  ASSUME NEW S, NEW q \in Seq(S), NEW x \in S
  PROVE  /\ Elems(Append(q, x)) = Elems(q) \cup {x}
         /\ NoDup(q) /\ x \notin Elems(q) => NoDup(Append(q, x))
<1>1. /\ DOMAIN Append(q, x) = DOMAIN q \cup {Len(q) + 1}
      /\ Append(q, x)[Len(q) + 1] = x
      /\ \A i \in DOMAIN q : Append(q, x)[i] = q[i]
  OBVIOUS
<1>2. Elems(Append(q, x)) = Elems(q) \cup {x}
  BY <1>1, Zenon DEF Elems
<1>3. NoDup(q) /\ x \notin Elems(q) => NoDup(Append(q, x))
  BY DEF NoDup, Elems
<1> QED BY <1>2, <1>3

\* The first element and the others.
LEMMA TailElems ==
  ASSUME NEW S, NEW q \in Seq(S), q # <<>>
  PROVE  /\ Head(q) \in S /\ Tail(q) \in Seq(S) /\ Len(Tail(q)) = Len(q) - 1
         /\ \A i \in 1..Len(Tail(q)) : i + 1 \in DOMAIN q /\ Tail(q)[i] = q[i + 1]
         /\ Elems(q) = {Head(q)} \cup Elems(Tail(q))
         /\ NoDup(q) => NoDup(Tail(q)) /\ Head(q) \notin Elems(Tail(q))
<1>1. /\ DOMAIN q = 1..Len(q) /\ DOMAIN Tail(q) = 1..(Len(q) - 1)
      /\ \A i \in DOMAIN Tail(q) : i + 1 \in DOMAIN q /\ Tail(q)[i] = q[i + 1]
      /\ 1 \in DOMAIN q /\ Head(q) = q[1] /\ Len(q) \in Nat
      /\ Head(q) \in S /\ Tail(q) \in Seq(S) /\ Len(Tail(q)) = Len(q) - 1
  OBVIOUS
<1>2. ASSUME NEW x \in Elems(q) PROVE x \in {Head(q)} \cup Elems(Tail(q))
  <2>1. PICK i \in DOMAIN q : x = q[i]
    BY <1>2 DEF Elems
  <2>2. CASE i = 1
    BY <1>1, <2>1, <2>2
  <2>3. CASE i # 1
    <3>1. i - 1 \in DOMAIN Tail(q) /\ (i - 1) + 1 = i
      BY <1>1, <2>1, <2>3
    <3>2. Tail(q)[i - 1] = x
      BY <1>1, <2>1, <3>1
    <3> QED BY <3>1, <3>2 DEF Elems
  <2> QED BY <2>2, <2>3
<1>3. Elems(Tail(q)) \subseteq Elems(q) /\ Head(q) \in Elems(q)
  BY <1>1 DEF Elems
<1>4. NoDup(q) => NoDup(Tail(q))
  BY <1>1 DEF NoDup
<1>5. NoDup(q) => Head(q) \notin Elems(Tail(q))
  BY <1>1 DEF NoDup, Elems
<1> QED BY <1>1, <1>2, <1>3, <1>4, <1>5

-----------------------------------------------------------------------------
(* Reads.                                                                  *)

ReadType ==
  /\ m_read_queue \in Seq(Reads) /\ read_calls \in Seq(Reads) /\ issued \in Seq(Reads)
  /\ m_reading \in BOOLEAN /\ m_cancelled \in BOOLEAN
  /\ reading \subseteq Reads
  /\ read_done \in [Reads -> Nat]

\* m_reading announces the read on the stream; without one nothing is queued.
ReadFlag ==
  /\ Lone(reading)
  /\ m_reading <=> reading # {}
  /\ m_read_queue # <<>> => m_reading
  /\ m_cancelled => m_read_queue = <<>>

\* Every read is in one place.
ReadPlace ==
  /\ NoDup(m_read_queue)
  /\ \A r \in Reads :
       /\ r \in Elems(m_read_queue) => r \notin reading /\ read_done[r] = 0 /\ r \in Elems(read_calls)
       /\ r \in reading => read_done[r] = 0 /\ r \in Elems(read_calls)
       /\ read_done[r] <= 1
       /\ r \in Elems(read_calls) => r \in Elems(m_read_queue) \/ r \in reading \/ read_done[r] = 1

\* The reads handed to the stream are the first of the calls, and until a
\* cancel the queue holds the others.
ReadOrder ==
  /\ Len(issued) <= Len(read_calls)
  /\ \A i \in 1..Len(issued) : issued[i] = read_calls[i]
  /\ ~m_cancelled =>
       /\ Len(m_read_queue) = Len(read_calls) - Len(issued)
       /\ \A i \in 1..Len(m_read_queue) : m_read_queue[i] = read_calls[Len(issued) + i]

RInv == ReadType /\ ReadFlag /\ ReadPlace /\ ReadOrder

LEMMA ReadInit == Init => RInv
<1> SUFFICES ASSUME Init PROVE RInv
  OBVIOUS
<1>1. ReadType
  <2>1. <<>> \in Seq(Reads)
    OBVIOUS
  <2> QED BY <2>1 DEF Init, ReadType
<1>2. ReadFlag /\ ReadPlace /\ ReadOrder
  BY DEF Init, ReadFlag, ReadPlace, ReadOrder, Lone, NoDup, Elems
<1> QED BY <1>1, <1>2 DEF RInv

\* One read of the queue q goes to the stream, or none is left.
LEMMA StartNextRead ==
  ASSUME RInv, NEW q \in Seq(Reads), NoDup(q), NEW fl, fl = {}, start_next_read(q, fl)
  PROVE  /\ m_read_queue' \in Seq(Reads) /\ NoDup(m_read_queue') /\ issued' \in Seq(Reads)
         /\ m_reading' \in BOOLEAN /\ Lone(reading') /\ reading' \subseteq Reads
         /\ m_reading' <=> reading' # {}
         /\ m_read_queue' # <<>> => m_reading'
         /\ Elems(q) = Elems(m_read_queue') \cup reading'
         /\ Elems(m_read_queue') \cap reading' = {}
         /\ \/ q = <<>> /\ m_read_queue' = <<>> /\ issued' = issued
            \/ q # <<>> /\ m_read_queue' = Tail(q) /\ issued' = Append(issued, Head(q))
<1>1. CASE q = <<>>
  BY <1>1 DEF start_next_read, RInv, ReadType, Lone, Elems
<1>2. CASE q # <<>>
  <2>1. /\ Head(q) \in Reads /\ Tail(q) \in Seq(Reads)
        /\ Elems(q) = {Head(q)} \cup Elems(Tail(q)) /\ NoDup(Tail(q)) /\ Head(q) \notin Elems(Tail(q))
    BY <1>2, TailElems
  <2>2. /\ m_read_queue' = Tail(q) /\ m_reading' = TRUE /\ reading' = {Head(q)}
        /\ issued' = Append(issued, Head(q))
    BY <1>2 DEF start_next_read
  <2>3. issued' \in Seq(Reads)
    BY <2>1, <2>2 DEF RInv, ReadType
  <2> QED BY <1>2, <2>1, <2>2, <2>3 DEF Lone
<1> QED BY <1>1, <1>2

\* One completion more for the elements of a set.
LEMMA PostRead ==
  ASSUME ReadType, NEW T \in SUBSET Reads
  PROVE  /\ Post(read_done, T) \in [Reads -> Nat]
         /\ \A r \in Reads : Post(read_done, T)[r] = read_done[r] + (IF r \in T THEN 1 ELSE 0)
BY DEF ReadType, Post

\* The step case of the reads, one handler at a time.
LEMMA ReadStepInv == RInv /\ [Next]_vars => RInv'
<1> SUFFICES ASSUME RInv, [Next]_vars PROVE RInv'
  OBVIOUS
<1>a. ReadType /\ ReadFlag /\ ReadPlace /\ ReadOrder
  BY DEF RInv
<1>1. ASSUME UNCHANGED <<rVars, m_cancelled>> PROVE RInv'
  BY <1>1 DEF rVars, RInv, ReadType, ReadFlag, ReadPlace, ReadOrder
<1>2. ASSUME NEW r \in Reads, ReadCancelled(r) PROVE RInv'
  <2>1. /\ read_done' \in [Reads -> Nat]
        /\ \A s \in Reads : read_done'[s] = read_done[s] + (IF s \in {r} THEN 1 ELSE 0)
    BY <1>2, <1>a, PostRead DEF ReadCancelled
  <2>2. UNCHANGED <<m_read_queue, m_reading, reading, read_calls, issued, m_cancelled>>
          /\ read_done[r] = 0 /\ r \notin Elems(read_calls)
    BY <1>2 DEF ReadCancelled, NewRead
  <2>3. ReadType' /\ ReadFlag' /\ ReadOrder'
    BY <1>a, <2>1, <2>2 DEF ReadType, ReadFlag, ReadOrder
  <2>4. ReadPlace'
    <3>1. r \notin Elems(m_read_queue) /\ r \notin reading /\ read_done'[r] = 1
      BY <1>a, <2>1, <2>2 DEF ReadPlace
    <3>2. \A s \in Reads \ {r} : read_done'[s] = read_done[s]
      BY <1>a, <2>1 DEF ReadType
    <3>3. NoDup(m_read_queue')
      BY <1>a, <2>2 DEF ReadPlace
    <3> QED BY <1>a, <2>2, <3>1, <3>2, <3>3 DEF ReadPlace
  <2> QED BY <2>3, <2>4 DEF RInv
<1>3. ASSUME NEW r \in Reads, async_read(r) PROVE RInv'
  <2>1. /\ read_done[r] = 0 /\ r \notin Elems(read_calls) /\ ~m_cancelled
        /\ read_calls' = Append(read_calls, r) /\ UNCHANGED <<read_done, m_cancelled>>
    BY <1>3 DEF async_read, NewRead
  <2>2. Elems(read_calls') = Elems(read_calls) \cup {r} /\ read_calls' \in Seq(Reads)
    BY <1>a, <2>1, AppendElems DEF ReadType
  <2>3. /\ Len(read_calls') = Len(read_calls) + 1 /\ read_calls'[Len(read_calls) + 1] = r
        /\ \A i \in 1..Len(read_calls) : read_calls'[i] = read_calls[i]
    BY <1>a, <2>1 DEF ReadType
  <2> DEFINE q == Append(m_read_queue, r)
  <2>4. r \notin Elems(m_read_queue) /\ r \notin reading
    BY <1>a, <2>1 DEF ReadPlace
  <2>5. /\ q \in Seq(Reads) /\ NoDup(q) /\ Elems(q) = Elems(m_read_queue) \cup {r}
    BY <1>a, <2>4, AppendElems DEF ReadType, ReadPlace
  <2>6. /\ Len(q) = Len(m_read_queue) + 1 /\ q[Len(m_read_queue) + 1] = r
        /\ \A i \in 1..Len(m_read_queue) : q[i] = m_read_queue[i]
        /\ q # <<>> /\ Len(m_read_queue) \in Nat /\ Len(read_calls) \in Nat /\ Len(issued) \in Nat
    <3>1. m_read_queue \in Seq(Reads) /\ read_calls \in Seq(Reads) /\ issued \in Seq(Reads)
      BY <1>a DEF ReadType
    <3> QED BY <3>1
  <2>7. CASE m_reading
    <3>1. m_read_queue' = q /\ UNCHANGED <<m_reading, reading, issued>>
      BY <1>3, <2>7 DEF async_read
    <3> HIDE DEF q
    <3>2. ReadType' /\ ReadFlag'
      BY <1>a, <2>1, <2>2, <2>5, <2>7, <3>1 DEF ReadType, ReadFlag
    <3>3. ReadPlace'
      BY <1>a, <2>1, <2>2, <2>4, <2>5, <3>1 DEF ReadPlace, ReadType
    <3>4. ReadOrder'
      <4>1. /\ Len(issued) <= Len(read_calls)
            /\ Len(m_read_queue) = Len(read_calls) - Len(issued)
            /\ \A i \in 1..Len(m_read_queue) : m_read_queue[i] = read_calls[Len(issued) + i]
            /\ \A i \in 1..Len(issued) : issued[i] = read_calls[i]
        BY <1>a, <2>1 DEF ReadOrder
      <4>2. \A i \in 1..Len(issued) : i \in 1..Len(read_calls)
        BY <2>6, <4>1
      <4>3. ASSUME NEW i \in 1..Len(q) PROVE q[i] = read_calls'[Len(issued) + i]
        <5>1. CASE i = Len(m_read_queue) + 1
          <6>1. Len(issued) + i = Len(read_calls) + 1
            BY <2>6, <4>1, <5>1
          <6> QED BY <2>3, <2>6, <5>1, <6>1
        <5>2. CASE i \in 1..Len(m_read_queue)
          <6>1. Len(issued) + i \in 1..Len(read_calls)
            BY <2>6, <4>1, <5>2
          <6> QED BY <2>3, <2>6, <4>1, <5>2, <6>1
        <5> QED BY <2>6, <4>3, <5>1, <5>2
      <4> QED BY <2>3, <2>6, <3>1, <4>1, <4>2, <4>3 DEF ReadOrder
    <3> QED BY <3>2, <3>3, <3>4 DEF RInv
  <2>8. CASE ~m_reading
    <3>1. start_next_read(q, reading) /\ reading = {} /\ m_read_queue = <<>>
      BY <1>3, <1>a, <2>8 DEF async_read, ReadFlag
    <3> HIDE DEF q
    <3>2. /\ m_read_queue' \in Seq(Reads) /\ NoDup(m_read_queue') /\ issued' \in Seq(Reads)
          /\ m_reading' \in BOOLEAN /\ Lone(reading') /\ reading' \subseteq Reads
          /\ m_reading' <=> reading' # {}
          /\ m_read_queue' # <<>> => m_reading'
          /\ Elems(q) = Elems(m_read_queue') \cup reading'
          /\ Elems(m_read_queue') \cap reading' = {}
          /\ m_read_queue' = Tail(q) /\ issued' = Append(issued, Head(q))
      BY <2>5, <2>6, <3>1, StartNextRead
    <3>3. ReadType' /\ ReadFlag'
      BY <1>a, <2>1, <2>2, <3>2 DEF ReadType, ReadFlag
    <3>4. ReadPlace'
      BY <1>a, <2>1, <2>2, <2>4, <2>5, <3>1, <3>2 DEF ReadPlace, ReadType
    <3>5. Len(q) = 1 /\ q[1] = r
      BY <2>6, <3>1
    <3>6. Head(q) = r /\ m_read_queue' = <<>>
      BY <2>5, <2>6, <3>2, <3>5
    <3>7. Len(issued) = Len(read_calls)
      BY <1>a, <2>1, <3>1 DEF ReadOrder, ReadType
    <3>8. ReadOrder'
      <4>1. /\ Len(issued') = Len(issued) + 1 /\ issued'[Len(issued) + 1] = r
            /\ \A i \in 1..Len(issued) : issued'[i] = issued[i]
        BY <1>a, <3>2, <3>6 DEF ReadType
      <4>2. \A i \in 1..Len(issued) : issued[i] = read_calls[i]
        BY <1>a DEF ReadOrder
      <4>3. \A i \in 1..Len(issued') : issued'[i] = read_calls'[i]
        BY <2>3, <2>6, <3>7, <4>1, <4>2
      <4>4. Len(m_read_queue') = 0
        BY <3>6
      <4> QED BY <2>3, <2>6, <3>7, <4>1, <4>3, <4>4 DEF ReadOrder
    <3> QED BY <3>3, <3>4, <3>8 DEF RInv
  <2> QED BY <2>7, <2>8
<1>4. ASSUME NEW r \in Reads, ReadCompletes(r) PROVE RInv'
  <2>1. /\ r \in reading /\ reading \ {r} = {} /\ reading = {r}
        /\ UNCHANGED <<read_calls, m_cancelled>>
    BY <1>4, <1>a DEF ReadCompletes, ReadFlag, Lone
  <2>2. /\ read_done' \in [Reads -> Nat]
        /\ \A s \in Reads : read_done'[s] = read_done[s] + (IF s \in {r} THEN 1 ELSE 0)
    BY <1>4, <1>a, PostRead DEF ReadCompletes
  <2>3. /\ m_read_queue' \in Seq(Reads) /\ NoDup(m_read_queue') /\ issued' \in Seq(Reads)
        /\ m_reading' \in BOOLEAN /\ Lone(reading') /\ reading' \subseteq Reads
        /\ m_reading' <=> reading' # {}
        /\ m_read_queue' # <<>> => m_reading'
        /\ Elems(m_read_queue) = Elems(m_read_queue') \cup reading'
        /\ Elems(m_read_queue') \cap reading' = {}
        /\ \/ m_read_queue = <<>> /\ m_read_queue' = <<>> /\ issued' = issued
           \/ /\ m_read_queue # <<>> /\ m_read_queue' = Tail(m_read_queue)
              /\ issued' = Append(issued, Head(m_read_queue))
    BY <1>4, <1>a, <2>1, StartNextRead DEF ReadCompletes, ReadType, ReadPlace
  <2>4. ReadType' /\ ReadFlag'
    BY <1>a, <2>1, <2>2, <2>3 DEF ReadType, ReadFlag
  <2>5. ReadPlace'
    BY <1>a, <2>1, <2>2, <2>3 DEF ReadPlace, ReadType
  <2>6. ReadOrder'
    <3>1. CASE m_read_queue = <<>> /\ m_read_queue' = <<>> /\ issued' = issued
      BY <1>a, <2>1, <3>1 DEF ReadOrder, ReadType
    <3>2. CASE /\ m_read_queue # <<>> /\ m_read_queue' = Tail(m_read_queue)
               /\ issued' = Append(issued, Head(m_read_queue))
      <4>1. ~m_cancelled /\ ~m_cancelled'
        BY <1>a, <2>1, <3>2 DEF ReadFlag
      <4>2. /\ Len(m_read_queue') = Len(m_read_queue) - 1 /\ Len(m_read_queue) \in Nat \ {0}
            /\ Head(m_read_queue) = m_read_queue[1]
            /\ \A i \in 1..Len(m_read_queue') : m_read_queue'[i] = m_read_queue[i + 1]
        BY <1>a, <3>2, TailElems DEF ReadType
      <4>3. /\ Len(issued') = Len(issued) + 1 /\ Len(issued) \in Nat
            /\ issued'[Len(issued) + 1] = Head(m_read_queue)
            /\ \A i \in 1..Len(issued) : issued'[i] = issued[i]
        BY <1>a, <3>2 DEF ReadType
      <4>4. Len(read_calls) \in Nat
        BY <1>a DEF ReadType
      <4>5. /\ Len(m_read_queue) = Len(read_calls) - Len(issued)
            /\ \A i \in 1..Len(m_read_queue) : m_read_queue[i] = read_calls[Len(issued) + i]
            /\ \A i \in 1..Len(issued) : issued[i] = read_calls[i]
        BY <1>a, <4>1 DEF ReadOrder
      <4>6. \A i \in 1..Len(issued') : issued'[i] = read_calls[i]
        BY <4>2, <4>3, <4>4, <4>5
      <4>7. \A i \in 1..Len(m_read_queue') : m_read_queue'[i] = read_calls[Len(issued') + i]
        BY <4>2, <4>3, <4>4, <4>5
      <4>8. Len(m_read_queue') = Len(read_calls) - Len(issued') /\ Len(issued') <= Len(read_calls)
        BY <4>2, <4>3, <4>4, <4>5
      <4> QED BY <2>1, <4>6, <4>7, <4>8 DEF ReadOrder
    <3> QED BY <2>3, <3>1, <3>2
  <2> QED BY <2>4, <2>5, <2>6 DEF RInv
<1>5. CASE cancel
  <2>1. /\ m_cancelled' = TRUE /\ m_read_queue' = <<>>
        /\ UNCHANGED <<m_reading, reading, read_calls, issued>>
    BY <1>5 DEF cancel
  <2>2. Elems(m_read_queue) \subseteq Reads
    BY <1>a DEF ReadType, Elems
  <2>3. /\ read_done' \in [Reads -> Nat]
        /\ \A s \in Reads : read_done'[s] = read_done[s] + (IF s \in Elems(m_read_queue) THEN 1 ELSE 0)
    BY <1>5, <1>a, <2>2, PostRead DEF cancel
  <2>4. Elems(m_read_queue') = {} /\ NoDup(m_read_queue') /\ m_read_queue' \in Seq(Reads)
    BY <2>1 DEF Elems, NoDup
  <2>5. ReadType' /\ ReadFlag' /\ ReadOrder'
    BY <1>a, <2>1, <2>3, <2>4 DEF ReadType, ReadFlag, ReadOrder
  <2>6. ReadPlace'
    <3> SUFFICES ASSUME NEW r \in Reads
                 PROVE  /\ r \in reading => read_done'[r] = 0 /\ r \in Elems(read_calls)
                        /\ read_done'[r] <= 1
                        /\ r \in Elems(read_calls) => r \in reading \/ read_done'[r] = 1
      BY <2>1, <2>4 DEF ReadPlace
    <3>1. CASE r \in Elems(m_read_queue)
      <4>1. r \notin reading /\ read_done[r] = 0
        BY <1>a, <3>1 DEF ReadPlace
      <4> QED BY <2>3, <3>1, <4>1
    <3>2. CASE r \notin Elems(m_read_queue)
      <4>1. read_done'[r] = read_done[r]
        BY <1>a, <2>3, <3>2 DEF ReadType
      <4> QED BY <1>a, <3>2, <4>1 DEF ReadPlace
    <3> QED BY <3>1, <3>2
  <2> QED BY <2>5, <2>6 DEF RInv
<1>6. \/ UNCHANGED vars \/ WriteStep
      \/ (\E s \in Sends : async_send(s))
      \/ (\E c \in Closes : async_close(c) \/ CloseInProgress(c) \/ CloseCompletes(c))
      => UNCHANGED <<rVars, m_cancelled>>
  BY DEF vars, WriteStep, WriteDone, WriteError, async_send, async_close, CloseInProgress,
     CloseCompletes
<1> QED
  BY <1>1, <1>2, <1>3, <1>4, <1>5, <1>6 DEF Next, ReadStep, ReadMessage, ReadError

-----------------------------------------------------------------------------
(* Sends.                                                                  *)

\* x comes before y in c.
Before(c, x, y) == \E k, l \in DOMAIN c : k < l /\ c[k] = x /\ c[l] = y

Writing == {w[1] : w \in writing}

SendType ==
  /\ m_send_queue \in Seq(Sends) /\ send_calls \in Seq(Sends) /\ wire \in Seq(Sends)
  /\ m_sending \in BOOLEAN /\ write_failed \in BOOLEAN
  /\ writing \subseteq Sends \X Sends
  /\ Lone(writing)
  /\ m_sending <=> writing # {}

\* What is written, being written and queued was sent, and in that order.
SendOrder ==
  /\ Elems(m_send_queue) \cup Elems(wire) \cup Writing \subseteq Elems(send_calls)
  /\ \A i, j \in DOMAIN wire : i < j => Before(send_calls, wire[i], wire[j])
  /\ \A x \in Elems(wire), y \in Writing \cup Elems(m_send_queue) : Before(send_calls, x, y)
  /\ \A x \in Writing, y \in Elems(m_send_queue) : Before(send_calls, x, y)
  /\ \A i, j \in DOMAIN m_send_queue : i < j => Before(send_calls, m_send_queue[i], m_send_queue[j])

SInv == SendType /\ SendOrder /\ StrandedOnlyAfterError

LEMMA SendInit == Init => SInv
<1> SUFFICES ASSUME Init PROVE SInv
  OBVIOUS
<1>1. <<>> \in Seq(Sends)
  OBVIOUS
<1>2. SendType
  BY <1>1 DEF Init, SendType, Lone
<1>3. SendOrder /\ StrandedOnlyAfterError
  BY DEF Init, SendOrder, StrandedOnlyAfterError, Elems, Writing
<1> QED BY <1>2, <1>3 DEF SInv

\* A send comes after everything that was sent before, and the order of what
\* was sent before stays.
LEMMA SendIsLast ==
  ASSUME SendType, NEW s \in Sends, send_calls' = Append(send_calls, s)
  PROVE  /\ Elems(send_calls') = Elems(send_calls) \cup {s} /\ send_calls' \in Seq(Sends)
         /\ \A x \in Elems(send_calls) : Before(send_calls', x, s)
         /\ \A x, y : Before(send_calls, x, y) => Before(send_calls', x, y)
<1>1. Elems(send_calls') = Elems(send_calls) \cup {s} /\ send_calls' \in Seq(Sends)
  BY AppendElems DEF SendType
<1>2. /\ DOMAIN send_calls' = 1..(Len(send_calls) + 1) /\ DOMAIN send_calls = 1..Len(send_calls)
      /\ send_calls'[Len(send_calls) + 1] = s /\ Len(send_calls) \in Nat
      /\ \A i \in 1..Len(send_calls) : send_calls'[i] = send_calls[i]
  BY DEF SendType
<1>3. ASSUME NEW x \in Elems(send_calls) PROVE Before(send_calls', x, s)
  <2>1. PICK k \in DOMAIN send_calls : send_calls[k] = x
    BY <1>3 DEF Elems
  <2>2. k \in DOMAIN send_calls' /\ Len(send_calls) + 1 \in DOMAIN send_calls'
          /\ k < Len(send_calls) + 1 /\ send_calls'[k] = x
    BY <1>2, <2>1
  <2> QED BY <1>2, <2>2 DEF Before
<1>4. ASSUME NEW x, NEW y, Before(send_calls, x, y) PROVE Before(send_calls', x, y)
  <2>1. PICK k \in DOMAIN send_calls, l \in DOMAIN send_calls :
          k < l /\ send_calls[k] = x /\ send_calls[l] = y
    BY <1>4 DEF Before
  <2>2. k \in DOMAIN send_calls' /\ l \in DOMAIN send_calls' /\ send_calls'[k] = x /\ send_calls'[l] = y
    BY <1>2, <2>1
  <2> QED BY <2>1, <2>2 DEF Before
<1> QED BY <1>1, <1>3, <1>4

\* DrainOp::step on a queue q that is in order and comes after what is on the
\* wire: it writes the first message or ends, and nothing stays stranded.
LEMMA DrainKeeps ==
  ASSUME NEW q \in Seq(Sends), NEW f \in Sends, step(q, f, {}),
         SendType, send_calls' \in Seq(Sends), wire' \in Seq(Sends), UNCHANGED write_failed,
         Elems(q) \cup Elems(wire') \subseteq Elems(send_calls'),
         \A i, j \in DOMAIN wire' : i < j => Before(send_calls', wire'[i], wire'[j]),
         \A x \in Elems(wire'), y \in Elems(q) : Before(send_calls', x, y),
         \A i, j \in DOMAIN q : i < j => Before(send_calls', q[i], q[j])
  PROVE  SInv'
<1>1. CASE q = <<>>
  <2>1. m_sending' = FALSE /\ m_send_queue' = <<>> /\ writing' = {}
    BY <1>1 DEF step
  <2>2. Elems(m_send_queue') = {} /\ Writing' = {} /\ DOMAIN m_send_queue' = {}
    BY <2>1 DEF Elems, Writing
  <2>3. SendType'
    BY <1>1, <2>1 DEF SendType, Lone
  <2>4. SendOrder'
    BY <1>1, <2>1, <2>2 DEF SendOrder
  <2>5. StrandedOnlyAfterError'
    BY <2>1 DEF StrandedOnlyAfterError
  <2> QED BY <2>3, <2>4, <2>5 DEF SInv
<1>2. CASE q # <<>>
  <2>1. m_sending' = TRUE /\ m_send_queue' = Tail(q) /\ writing' = {<<Head(q), f>>}
    BY <1>2 DEF step
  <2>2. /\ Head(q) \in Sends /\ Tail(q) \in Seq(Sends)
        /\ Elems(q) = {Head(q)} \cup Elems(Tail(q))
        /\ \A i \in 1..Len(Tail(q)) : i + 1 \in DOMAIN q /\ Tail(q)[i] = q[i + 1]
    BY <1>2, TailElems
  <2>3. Writing' = {Head(q)}
    BY <2>1 DEF Writing
  <2>4. DOMAIN Tail(q) = 1..Len(Tail(q)) /\ Len(Tail(q)) \in Nat /\ 1 \in DOMAIN q /\ Head(q) = q[1]
    BY <1>2, <2>2
  <2>5. SendType'
    BY <2>1, <2>2 DEF SendType, Lone
  <2>6. \A i, j \in DOMAIN m_send_queue' : i < j => Before(send_calls', m_send_queue'[i], m_send_queue'[j])
    <3> SUFFICES ASSUME NEW i \in DOMAIN Tail(q), NEW j \in DOMAIN Tail(q), i < j
                 PROVE  Before(send_calls', Tail(q)[i], Tail(q)[j])
      BY <2>1
    <3>1. i + 1 \in DOMAIN q /\ j + 1 \in DOMAIN q /\ i + 1 < j + 1
      BY <2>2, <2>4
    <3>2. Tail(q)[i] = q[i + 1] /\ Tail(q)[j] = q[j + 1]
      BY <2>2, <2>4
    <3> QED BY <3>1, <3>2
  <2>7. \A y \in Elems(Tail(q)) : Before(send_calls', Head(q), y)
    <3> SUFFICES ASSUME NEW j \in DOMAIN Tail(q) PROVE Before(send_calls', Head(q), Tail(q)[j])
      BY DEF Elems
    <3>1. j + 1 \in DOMAIN q /\ 1 < j + 1 /\ Tail(q)[j] = q[j + 1]
      BY <2>2, <2>4
    <3> QED BY <2>4, <3>1
  <2>8. SendOrder'
    <3>1. (Elems(m_send_queue) \cup Elems(wire) \cup Writing)' \subseteq Elems(send_calls')
      BY <2>1, <2>2, <2>3
    <3>2. \A x \in Elems(wire'), y \in Writing' \cup Elems(m_send_queue') : Before(send_calls', x, y)
      BY <2>1, <2>2, <2>3
    <3>3. \A x \in Writing', y \in Elems(m_send_queue') : Before(send_calls', x, y)
      BY <2>1, <2>3, <2>7
    <3> QED BY <2>6, <3>1, <3>2, <3>3 DEF SendOrder
  <2>9. StrandedOnlyAfterError'
    BY <2>1 DEF StrandedOnlyAfterError
  <2> QED BY <2>5, <2>8, <2>9 DEF SInv
<1> QED BY <1>1, <1>2

\* A sequence in order stays so with a new last element.
LEMMA AppendOrdered ==
  ASSUME NEW S, NEW q \in Seq(S), NEW x \in S, NEW c,
         \A i, j \in DOMAIN q : i < j => Before(c, q[i], q[j]),
         \A y \in Elems(q) : Before(c, y, x)
  PROVE  \A i, j \in DOMAIN Append(q, x) : i < j => Before(c, Append(q, x)[i], Append(q, x)[j])
<1> SUFFICES ASSUME NEW i \in DOMAIN Append(q, x), NEW j \in DOMAIN Append(q, x), i < j
             PROVE  Before(c, Append(q, x)[i], Append(q, x)[j])
  OBVIOUS
<1>1. i \in DOMAIN q /\ Append(q, x)[i] = q[i] /\ q[i] \in Elems(q)
  BY DEF Elems
<1>2. CASE j \in DOMAIN q
  <2>1. Append(q, x)[j] = q[j]
    BY <1>2
  <2> QED BY <1>1, <1>2, <2>1
<1>3. CASE j \notin DOMAIN q
  <2>1. Append(q, x)[j] = x
    BY <1>3
  <2> QED BY <1>1, <2>1
<1> QED BY <1>2, <1>3

\* The step case of the sends, one handler at a time.
LEMMA SendStepInv == SInv /\ [Next]_vars => SInv'
<1> SUFFICES ASSUME SInv, [Next]_vars PROVE SInv'
  OBVIOUS
<1>a. SendType /\ SendOrder /\ StrandedOnlyAfterError
  BY DEF SInv
<1>1. ASSUME UNCHANGED wVars PROVE SInv'
  BY <1>1 DEF wVars, SInv, SendType, SendOrder, StrandedOnlyAfterError, Writing
<1>2. ASSUME NEW s \in Sends, async_send(s) PROVE SInv'
  <2>1. send_calls' = Append(send_calls, s) /\ UNCHANGED <<wire, write_failed>>
    BY <1>2 DEF async_send
  <2>2. /\ Elems(send_calls') = Elems(send_calls) \cup {s} /\ send_calls' \in Seq(Sends)
        /\ \A x \in Elems(send_calls) : Before(send_calls', x, s)
        /\ \A x, y : Before(send_calls, x, y) => Before(send_calls', x, y)
    BY <1>a, <2>1, SendIsLast
  <2> DEFINE q == Append(m_send_queue, s)
  <2>3. q \in Seq(Sends) /\ Elems(q) = Elems(m_send_queue) \cup {s} /\ q # <<>>
    <3>1. m_send_queue \in Seq(Sends)
      BY <1>a DEF SendType
    <3> QED BY <3>1, AppendElems
  <2>4. \A i, j \in DOMAIN q : i < j => Before(send_calls', q[i], q[j])
    <3>1. \A i, j \in DOMAIN m_send_queue :
            i < j => Before(send_calls', m_send_queue[i], m_send_queue[j])
      BY <1>a, <2>2 DEF SendOrder
    <3>2. \A y \in Elems(m_send_queue) : Before(send_calls', y, s)
      BY <1>a, <2>2 DEF SendOrder
    <3>3. m_send_queue \in Seq(Sends)
      BY <1>a DEF SendType
    <3> QED BY <3>1, <3>2, <3>3, AppendOrdered
  <2> HIDE DEF q
  <2>5. \A i, j \in DOMAIN wire : i < j => Before(send_calls', wire[i], wire[j])
    BY <1>a, <2>2 DEF SendOrder
  <2>6. \A x \in Elems(wire), y \in Elems(q) : Before(send_calls', x, y)
    BY <1>a, <2>2, <2>3 DEF SendOrder
  <2>7. Elems(q) \cup Elems(wire) \subseteq Elems(send_calls')
    BY <1>a, <2>2, <2>3 DEF SendOrder
  <2>8. CASE m_sending
    <3>1. m_send_queue' = q /\ UNCHANGED <<m_sending, writing>>
      BY <1>2, <2>8 DEF async_send, q
    <3>2. SendType' /\ StrandedOnlyAfterError'
      BY <1>a, <2>1, <2>2, <2>3, <2>8, <3>1 DEF SendType, StrandedOnlyAfterError
    <3>3. Writing' = Writing /\ Writing \subseteq Elems(send_calls)
      BY <1>a, <3>1 DEF Writing, SendOrder
    <3>4. \A x \in Elems(wire), y \in Writing : Before(send_calls', x, y)
      BY <1>a, <2>2 DEF SendOrder
    <3>5. \A x \in Writing, y \in Elems(q) : Before(send_calls', x, y)
      BY <1>a, <2>2, <2>3, <3>3 DEF SendOrder
    <3>6. SendOrder'
      BY <2>1, <2>2, <2>4, <2>5, <2>6, <2>7, <3>1, <3>3, <3>4, <3>5 DEF SendOrder
    <3> QED BY <3>2, <3>6 DEF SInv
  <2>9. CASE ~m_sending
    <3>1. step(q, s, {})
      BY <1>2, <1>a, <2>9 DEF async_send, SendType, q
    <3> QED BY <1>a, <2>1, <2>2, <2>3, <2>4, <2>5, <2>6, <2>7, <3>1, DrainKeeps DEF SendType
  <2> QED BY <2>8, <2>9
<1>3. ASSUME NEW w \in writing, WriteDone(w) PROVE SInv'
  <2>1. writing \ {w} = {} /\ Writing = {w[1]} /\ w[1] \in Sends /\ w[2] \in Sends
    BY <1>a DEF SendType, Lone, Writing
  <2>2. /\ wire' = Append(wire, w[1]) /\ step(m_send_queue, w[2], {})
        /\ UNCHANGED <<send_calls, write_failed>>
    BY <1>3, <2>1 DEF WriteDone
  <2>3. wire' \in Seq(Sends) /\ Elems(wire') = Elems(wire) \cup {w[1]}
    <3>1. wire \in Seq(Sends)
      BY <1>a DEF SendType
    <3> QED BY <2>1, <2>2, <3>1, AppendElems
  <2>4. \A i, j \in DOMAIN wire' : i < j => Before(send_calls, wire'[i], wire'[j])
    <3>1. wire \in Seq(Sends)
      BY <1>a DEF SendType
    <3>2. \A y \in Elems(wire) : Before(send_calls, y, w[1])
      BY <1>a, <2>1 DEF SendOrder
    <3>3. \A i, j \in DOMAIN wire : i < j => Before(send_calls, wire[i], wire[j])
      BY <1>a DEF SendOrder
    <3> QED BY <2>1, <2>2, <3>1, <3>2, <3>3, AppendOrdered
  <2>5. \A x \in Elems(wire'), y \in Elems(m_send_queue) : Before(send_calls, x, y)
    BY <1>a, <2>1, <2>3 DEF SendOrder
  <2>6. Elems(m_send_queue) \cup Elems(wire') \subseteq Elems(send_calls)
    BY <1>a, <2>1, <2>3 DEF SendOrder
  <2>7. \A i, j \in DOMAIN m_send_queue : i < j => Before(send_calls, m_send_queue[i], m_send_queue[j])
    BY <1>a DEF SendOrder
  <2> QED BY <1>a, <2>1, <2>2, <2>3, <2>4, <2>5, <2>6, <2>7, DrainKeeps DEF SendType
<1>4. ASSUME NEW w \in writing, WriteError(w) PROVE SInv'
  <2>1. /\ writing' = {} /\ m_sending' = FALSE /\ write_failed' = TRUE
        /\ UNCHANGED <<m_send_queue, send_calls, wire>>
    BY <1>4, <1>a DEF WriteError, SendType, Lone
  <2>2. Writing' = {}
    BY <2>1 DEF Writing
  <2>3. SendType' /\ StrandedOnlyAfterError'
    BY <1>a, <2>1 DEF SendType, StrandedOnlyAfterError, Lone
  <2>4. SendOrder'
    BY <1>a, <2>1, <2>2 DEF SendOrder
  <2> QED BY <2>3, <2>4 DEF SInv
<1>5. CASE cancel
  <2>1. m_send_queue' = <<>> /\ UNCHANGED <<m_sending, writing, send_calls, wire, write_failed>>
    BY <1>5 DEF cancel
  <2>2. m_send_queue' \in Seq(Sends) /\ Elems(m_send_queue') = {} /\ DOMAIN m_send_queue' = {}
    BY <2>1 DEF Elems
  <2>3. SendType' /\ StrandedOnlyAfterError'
    BY <1>a, <2>1, <2>2 DEF SendType, StrandedOnlyAfterError
  <2>4. SendOrder'
    BY <1>a, <2>1, <2>2 DEF SendOrder, Writing
  <2> QED BY <2>3, <2>4 DEF SInv
<1>6. \/ UNCHANGED vars
      \/ (\E r \in Reads : async_read(r) \/ ReadCancelled(r) \/ ReadStep(r))
      \/ (\E c \in Closes : async_close(c) \/ CloseInProgress(c) \/ CloseCompletes(c))
      => UNCHANGED wVars
  BY DEF vars, async_read, ReadCancelled, ReadStep, ReadMessage, ReadError, ReadCompletes,
     async_close, CloseInProgress, CloseCompletes
<1> QED
  BY <1>1, <1>2, <1>3, <1>4, <1>5, <1>6 DEF Next, WriteStep

-----------------------------------------------------------------------------
(* Closes, and the theorems.                                               *)

\* m_closing announces the close on the stream.
CInv == Lone(closing) /\ (m_closing <=> closing # {}) /\ m_closing \in BOOLEAN

LEMMA CloseStepInv == CInv /\ [Next]_vars => CInv'
<1> SUFFICES ASSUME CInv, [Next]_vars PROVE CInv'
  OBVIOUS
<1>1. ASSUME UNCHANGED <<m_closing, closing>> PROVE CInv'
  BY <1>1 DEF CInv, Lone
<1>2. ASSUME NEW c \in Closes, async_close(c) PROVE CInv'
  BY <1>2 DEF async_close, CInv, Lone
<1>3. ASSUME NEW c \in Closes, CloseCompletes(c) PROVE CInv'
  BY <1>3 DEF CloseCompletes, CInv, Lone
<1> QED
  BY <1>1, <1>2, <1>3 DEF Next, vars, cVars, async_read, ReadCancelled, ReadStep, ReadMessage,
     ReadError, ReadCompletes, WriteStep, WriteDone, WriteError, async_send, CloseInProgress, cancel

\* The flags announce what is on the stream, every read is in one place, and
\* messages keep their order.
THEOREM SocketInvariant == Spec => [](RInv /\ SInv /\ CInv)
<1>1. Init => RInv /\ SInv /\ CInv
  BY ReadInit, SendInit DEF Init, CInv, Lone
<1>2. RInv /\ SInv /\ CInv /\ [Next]_vars => (RInv /\ SInv /\ CInv)'
  BY ReadStepInv, SendStepInv, CloseStepInv
<1> QED BY <1>1, <1>2, PTL DEF Spec

\* Beast's contract is kept however calls of async_read, async_send and
\* async_close overlap.
THEOREM OneOperationEach == Spec => []StreamContract
<1>1. RInv /\ SInv /\ CInv => StreamContract
  <2> SUFFICES ASSUME RInv, SInv, CInv PROVE StreamContract
    OBVIOUS
  <2>1. Lone(reading) /\ Lone(writing) /\ Lone(closing)
    BY DEF RInv, ReadFlag, SInv, SendType, CInv
  <2> QED BY <2>1, LoneCardinality DEF StreamContract
<1> QED BY <1>1, SocketInvariant, PTL

\* Every read completes at most once, and reads reach the stream in the order
\* of the calls.
THEOREM ReadsInOrder == Spec => []ReadsOnceInOrder
<1>1. RInv => ReadsOnceInOrder
  <2> SUFFICES ASSUME RInv PROVE ReadsOnceInOrder
    OBVIOUS
  <2>1. ReadType /\ ReadPlace /\ ReadOrder
    BY DEF RInv
  <2>2. ASSUME NEW r \in Reads
        PROVE  (IF r \in Elems(m_read_queue) THEN 1 ELSE 0) + (IF r \in reading THEN 1 ELSE 0)
                 + read_done[r] = IF NewRead(r) THEN 0 ELSE 1
    <3>1. read_done[r] \in 0..1
      BY <2>1 DEF ReadType, ReadPlace
    <3>2. CASE r \in Elems(m_read_queue)
      BY <2>1, <3>1, <3>2 DEF ReadPlace, NewRead
    <3>3. CASE r \notin Elems(m_read_queue) /\ r \in reading
      BY <2>1, <3>1, <3>3 DEF ReadPlace, NewRead
    <3>4. CASE r \notin Elems(m_read_queue) /\ r \notin reading
      BY <2>1, <3>1, <3>4 DEF ReadPlace, NewRead
    <3> QED BY <3>2, <3>3, <3>4
  <2>3. Len(issued) \in 0..Len(read_calls)
    BY <2>1 DEF ReadType, ReadOrder
  <2>4. issued = SubSeq(read_calls, 1, Len(issued))
    BY <2>1, <2>3 DEF ReadType, ReadOrder
  <2> QED BY <2>2, <2>3, <2>4 DEF ReadsOnceInOrder
<1> QED BY <1>1, SocketInvariant, PTL

\* Messages are written in the order of async_send, whatever fails between.
THEOREM WrittenInOrder == Spec => []WireInOrder
<1>1. SInv => WireInOrder
  BY DEF SInv, SendOrder, WireInOrder, Before
<1> QED BY <1>1, SocketInvariant, PTL

\* A queue that nobody drains is what a failed write left.
THEOREM NoneStranded == Spec => []StrandedOnlyAfterError
<1>1. SInv => StrandedOnlyAfterError
  BY DEF SInv
<1> QED BY <1>1, SocketInvariant, PTL

-----------------------------------------------------------------------------
(* No caller is forgotten.                                                 *)

\* s is the first sender of the drain under way.
Drains(s) == \E w \in writing : w[2] = s

\* Every sender is answered once, or drains the queue and will be.
DoneInv ==
  /\ send_done \in [Sends -> Nat]
  /\ \A s \in Sends :
       IF NewSend(s) THEN ~Drains(s) /\ send_done[s] = 0
       ELSE IF Drains(s) THEN send_done[s] = 0 ELSE send_done[s] = 1

LEMMA PostSend ==
  ASSUME DoneInv, NEW s \in Sends
  PROVE  /\ Post(send_done, {s}) \in [Sends -> Nat]
         /\ Post(send_done, {s})[s] = send_done[s] + 1
         /\ \A x \in Sends : x # s => Post(send_done, {s})[x] = send_done[x]
  BY DEF DoneInv, Post

LEMMA DoneStep == SInv /\ DoneInv /\ [Next]_vars => DoneInv'
<1> SUFFICES ASSUME SInv, DoneInv, [Next]_vars PROVE DoneInv'
  OBVIOUS
<1>a. /\ m_send_queue \in Seq(Sends) /\ send_calls \in Seq(Sends) /\ Lone(writing)
      /\ writing \subseteq Sends \X Sends /\ m_sending <=> writing # {}
  BY DEF SInv, SendType
<1>1. ASSUME UNCHANGED <<send_calls, writing, send_done>> PROVE DoneInv'
  BY <1>1 DEF DoneInv, NewSend, Drains
<1>2. ASSUME NEW s \in Sends, async_send(s) PROVE DoneInv'
  <2>1. \A x \in Sends : NewSend(x)' <=> NewSend(x) /\ x # s
    <3>1. Elems(send_calls') = Elems(send_calls) \cup {s}
      BY <1>2, <1>a, AppendElems DEF async_send
    <3> QED BY <3>1 DEF NewSend
  <2>2. NewSend(s) /\ ~Drains(s) /\ send_done[s] = 0
    BY <1>2 DEF async_send, DoneInv
  <2>3. CASE m_sending
    <3>1. send_done' = Post(send_done, {s}) /\ writing' = writing
      BY <1>2, <2>3 DEF async_send
    <3>2. \A x \in Sends : Drains(x)' <=> Drains(x)
      BY <3>1 DEF Drains
    <3>3. /\ send_done' \in [Sends -> Nat] /\ send_done'[s] = 1
          /\ \A x \in Sends : x # s => send_done'[x] = send_done[x]
      <4>1. /\ send_done' \in [Sends -> Nat] /\ send_done'[s] = send_done[s] + 1
            /\ \A x \in Sends : x # s => send_done'[x] = send_done[x]
        BY <3>1, PostSend
      <4> QED BY <2>2, <4>1
    <3> QED BY <2>1, <2>2, <3>2, <3>3 DEF DoneInv
  <2>4. CASE ~m_sending
    <3>1. Append(m_send_queue, s) # <<>>
      BY <1>a
    <3>2. writing' = {<<Head(Append(m_send_queue, s)), s>>} /\ send_done' = send_done
      BY <1>2, <1>a, <2>4, <3>1 DEF async_send, step
    <3>3. \A x \in Sends : (Drains(x)' <=> x = s) /\ ~Drains(x)
      BY <1>a, <2>4, <3>2 DEF Drains
    <3> QED BY <2>1, <2>2, <3>2, <3>3 DEF DoneInv
  <2> QED BY <2>3, <2>4
<1>3. ASSUME NEW w \in writing, UNCHANGED send_calls, writing' = {}, send_done' = Post(send_done, {w[2]})
      PROVE  DoneInv'
  <2> DEFINE f == w[2]
  <2>1. writing = {w} /\ f \in Sends
    BY <1>a DEF Lone
  <2>2. \A x \in Sends : (Drains(x) <=> x = f) /\ ~Drains(x)' /\ (NewSend(x)' <=> NewSend(x))
    BY <1>3, <2>1 DEF Drains, NewSend
  <2> HIDE DEF f
  <2>3. /\ send_done' \in [Sends -> Nat] /\ send_done'[f] = send_done[f] + 1
        /\ \A x \in Sends : x # f => send_done'[x] = send_done[x]
    BY <1>3, <2>1, PostSend DEF f
  <2>4. ~NewSend(f) /\ send_done[f] = 0
    BY <2>1, <2>2 DEF DoneInv
  <2> QED BY <2>2, <2>3, <2>4 DEF DoneInv
<1>4. ASSUME NEW w \in writing, WriteDone(w) PROVE DoneInv'
  <2>1. writing \ {w} = {} /\ UNCHANGED send_calls
    BY <1>4, <1>a DEF Lone, WriteDone
  <2>2. CASE m_send_queue = <<>>
    <3>1. writing' = {} /\ send_done' = Post(send_done, {w[2]})
      BY <1>4, <2>1, <2>2 DEF WriteDone, step
    <3> QED BY <1>3, <2>1, <3>1
  <2>3. CASE m_send_queue # <<>>
    <3>1. writing' = {<<Head(m_send_queue), w[2]>>} /\ send_done' = send_done
      BY <1>4, <2>1, <2>3 DEF WriteDone, step
    <3>2. writing = {w}
      BY <2>1
    <3>3. \A x \in Sends : (Drains(x)' <=> Drains(x)) /\ (NewSend(x)' <=> NewSend(x))
      BY <2>1, <3>1, <3>2 DEF Drains, NewSend
    <3> QED BY <3>1, <3>3 DEF DoneInv
  <2> QED BY <2>2, <2>3
<1>5. ASSUME NEW w \in writing, WriteError(w) PROVE DoneInv'
  BY <1>3, <1>5, <1>a DEF WriteError, Lone
<1> QED
  BY <1>1, <1>2, <1>4, <1>5 DEF Next, vars, wVars, WriteStep, async_read, ReadCancelled, ReadStep,
     ReadMessage, ReadError, ReadCompletes, async_close, CloseInProgress, CloseCompletes, cancel

\* Who answers a caller that waits: a sender that was not answered drains the
\* queue, and its message is on the stream; a read that is queued is behind one
\* on the stream; a close that returned because another was in progress had one.
NobodyForgotten ==
  /\ \A s \in Sends : send_done[s] + (IF Drains(s) THEN 1 ELSE 0) = IF NewSend(s) THEN 0 ELSE 1
  /\ \A r \in Reads : ~NewRead(r) /\ read_done[r] = 0 => reading # {}
  /\ m_closing => closing # {}

\* Whatever fails, is cancelled or closed, a caller of async_send is answered
\* exactly once or its write is still on the stream, and so for async_read: the
\* safety half of SendCompletes and CloseEndsReads.
THEOREM NoCallerForgotten == Spec => []NobodyForgotten
<1>1. Init => DoneInv
  BY DEF Init, DoneInv, Drains, NewSend, Elems
<1>2. RInv /\ SInv /\ CInv /\ DoneInv => NobodyForgotten
  <2> SUFFICES ASSUME RInv, SInv, CInv, DoneInv PROVE NobodyForgotten
    OBVIOUS
  <2>1. \A s \in Sends : send_done[s] + (IF Drains(s) THEN 1 ELSE 0) = IF NewSend(s) THEN 0 ELSE 1
    <3> TAKE s \in Sends
    <3>1. CASE NewSend(s)
      BY <3>1 DEF DoneInv
    <3>2. CASE ~NewSend(s)
      BY <3>2 DEF DoneInv
    <3> QED BY <3>1, <3>2
  <2>2. ASSUME NEW r \in Reads, ~NewRead(r), read_done[r] = 0 PROVE reading # {}
    <3>1. r \in Elems(m_read_queue) \/ r \in reading
      BY <2>2 DEF RInv, ReadPlace, NewRead
    <3>2. r \in Elems(m_read_queue) => m_read_queue # <<>>
      BY DEF Elems
    <3> QED BY <3>1, <3>2 DEF RInv, ReadFlag
  <2>3. m_closing => closing # {}
    BY DEF CInv
  <2> QED BY <2>1, <2>2, <2>3 DEF NobodyForgotten
<1> QED BY <1>1, <1>2, DoneStep, SocketInvariant, PTL DEF Spec
=============================================================================
