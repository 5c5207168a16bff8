-------------------------- MODULE RingBufferProofs --------------------------
(***************************************************************************)
(* Proofs about RingBuffer for every ring size and every set of updates.   *)
(* TypeOK holds for any set of producers; the absence of slot races and of *)
(* overwritten updates, and the refinement of BoundedFifo, hold for one    *)
(* producer, the SPSC discipline the code's comment names.                 *)
(***************************************************************************)
EXTENDS RingBuffer, SequenceTheorems, TLAPS

\* The single-producer half of SPSC; the single consumer is built into RingBuffer.
SingleProducer == \E p : Producers = {p}

\* What one producer and one consumer know of the ring at each step: their
\* loaded index is still the current one, a slot being written is free, a slot
\* being read is occupied, and every occupied slot holds a whole update.
ProducerInv ==
    \A p \in Producers :
        /\ prod[p].pc # "idle" => prod[p].at = tail /\ prod[p].update \in Updates
        /\ prod[p].pc \in {"writing", "storing"} => Succ(tail) # head
        /\ prod[p].pc = "storing" => buffer[tail] = prod[p].update

ConsumerInv ==
    /\ cons.pc # "idle" => cons.at = head
    /\ cons.pc \in {"reading", "storing"} => head # tail
    /\ cons.pc = "storing" => cons.update = buffer[head]

ContentInv ==
    /\ \A i \in Occupied : buffer[i] \in Updates
    /\ popped \in Updates \cup {None}

IInv == TypeOK /\ ProducerInv /\ ConsumerInv /\ ContentInv

-----------------------------------------------------------------------------
(* Arithmetic of indices.                                                  *)

\* The modulus in push and pop only ever wraps the last index to 0.
LEMMA SuccCases ==
    ASSUME NEW i \in Slots
    PROVE  /\ Succ(i) = IF i + 1 = Size THEN 0 ELSE i + 1
           /\ Succ(i) \in Slots
<1>1. Size \in Nat /\ Size > 0 /\ i \in Nat /\ i < Size
  BY SizeAssumption DEF Slots
<1>2. CASE i + 1 = Size
  <2>1. Size % Size = 0
    BY <1>1
  <2> QED
    BY <1>1, <1>2, <2>1 DEF Succ, Slots
<1>3. CASE i + 1 # Size
  <2>1. i + 1 < Size
    BY <1>1, <1>3
  <2>2. (i + 1) % Size = i + 1
    BY <1>1, <2>1
  <2> QED
    BY <1>1, <1>3, <2>1, <2>2 DEF Succ, Slots
<1> QED
  BY <1>2, <1>3

-----------------------------------------------------------------------------
(* Type correctness, for any set of producers.                             *)

\* Types at the start,
LEMMA TypeInit == Init => TypeOK
<1> SUFFICES ASSUME Init PROVE TypeOK
  OBVIOUS
<1>1. 0 \in Slots
  BY SizeAssumption DEF Slots
<1> QED
  BY <1>1 DEF Init, TypeOK, Idle, ProducerState, ConsumerState, Values

\* and after every step.
LEMMA TypeStep == TypeOK /\ [Next]_vars => TypeOK'
<1> SUFFICES ASSUME TypeOK, [Next]_vars PROVE TypeOK'
  OBVIOUS
<1> USE DEF TypeOK, ProducerState, ConsumerState, Values
<1>0. 0 \in Slots /\ Idle \in ProducerState /\ Idle \in ConsumerState
  BY SizeAssumption DEF Slots, Idle
<1>1. ASSUME NEW p \in Producers, NEW u \in Updates, PushLoadTail(p, u) PROVE TypeOK'
  BY <1>1 DEF PushLoadTail
<1>2. ASSUME NEW p \in Producers, PushCheck(p) PROVE TypeOK'
  BY <1>0, <1>2 DEF PushCheck
<1>3. ASSUME NEW p \in Producers, PushWrite(p) PROVE TypeOK'
  <2>1. PICK v \in Updates \cup {None, Torn} : buffer' = [buffer EXCEPT ![prod[p].at] = v]
    BY <1>3 DEF PushWrite
  <2> QED
    BY <1>3, <2>1 DEF PushWrite
<1>4. ASSUME NEW p \in Producers, PushStore(p) PROVE TypeOK'
  <2>1. Succ(prod[p].at) \in Slots
    BY SuccCases
  <2> QED
    BY <1>0, <1>4, <2>1 DEF PushStore
<1>5. CASE PopLoadHead
  BY <1>5 DEF PopLoadHead
<1>6. CASE PopCheck
  BY <1>0, <1>6 DEF PopCheck
<1>7. CASE PopRead
  <2>1. PICK v \in Updates \cup {None, Torn} :
          cons' = [cons EXCEPT !.pc = "storing", !.update = v]
    BY <1>7 DEF PopRead
  <2> QED
    BY <1>7, <2>1 DEF PopRead
<1>8. CASE PopStore
  <2>1. Succ(cons.at) \in Slots
    BY SuccCases
  <2> QED
    BY <1>0, <1>8, <2>1 DEF PopStore
<1>9. CASE UNCHANGED vars
  BY <1>9 DEF vars
<1> QED
  BY <1>1, <1>2, <1>3, <1>4, <1>5, <1>6, <1>7, <1>8, <1>9 DEF Next, Push, Pop

\* Indices stay inside the array and slots hold updates, whoever pushes.
THEOREM TypeCorrect == Spec => []TypeOK
<1>1. Init => TypeOK
  BY TypeInit
<1>2. TypeOK /\ [Next]_vars => TypeOK'
  BY TypeStep
<1> QED
  BY <1>1, <1>2, PTL DEF Spec

-----------------------------------------------------------------------------
(* The window of occupied slots.                                           *)

\* The distance of two slots is less than the size.
LEMMA DistanceBound ==
    ASSUME NEW h \in Slots, NEW t \in Slots
    PROVE  Distance(h, t) \in 0 .. Size - 1
BY SizeAssumption DEF Distance, Slots

\* The window is an interval of indices, or wraps around index 0.
LEMMA WindowCases ==
    ASSUME NEW h \in Slots, NEW t \in Slots, NEW i
    PROVE  i \in Window(h, t) <=>
             /\ i \in Slots
             /\ IF t >= h THEN h <= i /\ i < t ELSE h <= i \/ i < t
<1> USE SizeAssumption DEF Slots
<1>1. ASSUME i \in Window(h, t)
      PROVE  i \in Slots /\ IF t >= h THEN h <= i /\ i < t ELSE h <= i \/ i < t
  <2>1. PICK k \in 0 .. Distance(h, t) - 1 : i = Offset(h, k)
    BY <1>1 DEF Window
  <2> QED
    BY <2>1 DEF Offset, Distance
<1>2. ASSUME i \in Slots, IF t >= h THEN h <= i /\ i < t ELSE h <= i \/ i < t
      PROVE  i \in Window(h, t)
  <2> DEFINE k == IF i >= h THEN i - h ELSE (i + Size) - h
  <2>1. k \in 0 .. Distance(h, t) - 1
    BY <1>2 DEF Distance
  <2>2. i = Offset(h, k)
    BY <1>2 DEF Offset
  <2> QED
    BY <2>1, <2>2 DEF Window
<1> QED
  BY <1>1, <1>2

\* Publishing slot t adds exactly t to the window, when there is room.
LEMMA WindowPush ==
    ASSUME NEW h \in Slots, NEW t \in Slots, Succ(t) # h
    PROVE  Window(h, Succ(t)) = Window(h, t) \cup {t}
<1>1. \A i : i \in Window(h, t) <=>
             /\ i \in Slots
             /\ IF t >= h THEN h <= i /\ i < t ELSE h <= i \/ i < t
  BY WindowCases
<1>2. \A i : i \in Window(h, Succ(t)) <=>
             /\ i \in Slots
             /\ IF Succ(t) >= h THEN h <= i /\ i < Succ(t) ELSE h <= i \/ i < Succ(t)
  BY WindowCases, SuccCases
<1>3. \A i : i \in Window(h, Succ(t)) <=> i \in Window(h, t) \/ i = t
  BY <1>1, <1>2, SuccCases, SizeAssumption DEF Slots
<1> QED
  BY <1>3

\* Freeing slot h takes exactly h out of a non-empty window.
LEMMA WindowPop ==
    ASSUME NEW h \in Slots, NEW t \in Slots, h # t
    PROVE  /\ Window(Succ(h), t) = Window(h, t) \ {h}
           /\ h \in Window(h, t)
<1>1. \A i : i \in Window(h, t) <=>
             /\ i \in Slots
             /\ IF t >= h THEN h <= i /\ i < t ELSE h <= i \/ i < t
  BY WindowCases
<1>2. \A i : i \in Window(Succ(h), t) <=>
             /\ i \in Slots
             /\ IF t >= Succ(h) THEN Succ(h) <= i /\ i < t ELSE Succ(h) <= i \/ i < t
  BY WindowCases, SuccCases
<1>3. \A i : i \in Window(Succ(h), t) <=> i \in Window(h, t) /\ i # h
  BY <1>1, <1>2, SuccCases, SizeAssumption DEF Slots
<1>4. h \in Window(h, t)
  BY <1>1, SizeAssumption DEF Slots
<1> QED
  BY <1>3, <1>4

\* The free slot that push fills is not in the window.
LEMMA TailIsFree ==
    ASSUME NEW h \in Slots, NEW t \in Slots
    PROVE  t \notin Window(h, t)
BY WindowCases, SizeAssumption DEF Slots

-----------------------------------------------------------------------------
(* The inductive invariant, for a single producer.                         *)

\* The ring is empty at the start.
LEMMA InvInit == Init => IInv
<1> SUFFICES ASSUME Init PROVE IInv
  OBVIOUS
<1>1. TypeOK
  BY TypeInit
<1>2. Occupied = {}
  BY DEF Init, Occupied, Window, Distance
<1> QED
  BY <1>1, <1>2 DEF Init, IInv, ProducerInv, ConsumerInv, ContentInv, Idle

\* With one producer every step keeps the invariant.
LEMMA InvStep ==
    ASSUME NEW p, Producers = {p}, IInv, [Next]_vars
    PROVE  IInv'
<1> USE DEF IInv, ProducerInv, ConsumerInv, ContentInv
<1>1. TypeOK'
  BY TypeStep
<1>2. TypeOK /\ head \in Slots /\ tail \in Slots /\ p \in Producers
  BY DEF TypeOK
<1>3. prod[p] \in ProducerState /\ cons \in ConsumerState
  BY <1>2 DEF TypeOK
<1>4. tail \notin Occupied
  BY <1>2, TailIsFree DEF Occupied
<1>5. head # tail => head \in Occupied
  BY <1>2, WindowPop DEF Occupied
<1>a. ASSUME NEW u \in Updates, PushLoadTail(p, u) PROVE IInv'
  BY <1>a, <1>1, <1>2, <1>3 DEF PushLoadTail, TypeOK, ProducerState, Occupied
<1>b. CASE PushCheck(p)
  BY <1>b, <1>1, <1>2, <1>3 DEF PushCheck, TypeOK, ProducerState, Occupied, Idle
<1>c. CASE PushWrite(p)
  <2>1. ~ \E q \in Producers \ {p} : WritingSlot(q, prod[p].at)
    OBVIOUS
  <2>2. buffer' = [buffer EXCEPT ![tail] = prod[p].update]
    BY <1>c, <1>2, <2>1 DEF PushWrite
  <2>3. \A i \in Slots : i # tail => buffer'[i] = buffer[i]
    BY <2>2, <1>2 DEF TypeOK
  <2>4. buffer'[tail] = prod[p].update
    BY <2>2, <1>2 DEF TypeOK
  <2>5. Occupied' = Occupied /\ Occupied \subseteq Slots
    BY <1>c, <1>2, WindowCases DEF PushWrite, Occupied
  <2>6. /\ prod'[p].pc = "storing"
        /\ prod'[p].at = prod[p].at
        /\ prod'[p].update = prod[p].update
    BY <1>c, <1>2, <1>3 DEF PushWrite, TypeOK, ProducerState
  <2>7. ProducerInv'
    BY <1>c, <1>2, <2>4, <2>6 DEF PushWrite
  <2>8. ConsumerInv'
    BY <1>c, <1>2, <2>3 DEF PushWrite
  <2>9. ContentInv'
    BY <1>c, <1>2, <1>4, <2>3, <2>5 DEF PushWrite
  <2> QED
    BY <1>1, <2>7, <2>8, <2>9
<1>d. CASE PushStore(p)
  <2>1. tail' = Succ(tail) /\ Succ(tail) # head
    BY <1>d, <1>2 DEF PushStore
  <2>2. Occupied' = Occupied \cup {tail}
    BY <1>d, <1>2, <2>1, WindowPush DEF PushStore, Occupied
  <2>3. buffer[tail] \in Updates
    BY <1>d, <1>2 DEF PushStore
  <2>4. prod'[p] = Idle
    BY <1>d, <1>2 DEF PushStore, TypeOK
  <2>5. ProducerInv'
    BY <2>4 DEF Idle
  <2>6. ConsumerInv'
    BY <1>d, <2>1 DEF PushStore
  <2>7. ContentInv'
    BY <1>d, <2>2, <2>3 DEF PushStore
  <2> QED
    BY <1>1, <2>5, <2>6, <2>7
<1>e. CASE PopLoadHead
  BY <1>e, <1>1, <1>2, <1>3 DEF PopLoadHead, ConsumerState, Occupied
<1>f. CASE PopCheck
  BY <1>f, <1>1, <1>2, <1>3 DEF PopCheck, ConsumerState, Occupied, Idle
<1>g. CASE PopRead
  <2>1. ~ WritingSlot(p, cons.at)
    BY <1>g, <1>2 DEF PopRead, WritingSlot
  <2>2. cons' = [cons EXCEPT !.pc = "storing", !.update = buffer[cons.at]]
    BY <1>g, <2>1 DEF PopRead
  <2>3. cons'.pc = "storing" /\ cons'.at = cons.at /\ cons'.update = buffer[head]
    BY <1>g, <1>3, <2>2 DEF PopRead, ConsumerState
  <2> QED
    BY <1>g, <1>1, <2>3 DEF PopRead, Occupied
<1>h. CASE PopStore
  <2>1. head' = Succ(head) /\ head # tail
    BY <1>h DEF PopStore
  <2>2. Occupied' = Occupied \ {head}
    BY <1>h, <1>2, <2>1, WindowPop DEF PopStore, Occupied
  <2>3. popped' \in Updates
    BY <1>h, <1>5, <2>1 DEF PopStore
  <2>4. Succ(tail) # head => Succ(tail) # Succ(head)
    BY <1>2, <2>1, SuccCases, SizeAssumption DEF Slots
  <2>5. ProducerInv'
    BY <1>h, <2>1, <2>4 DEF PopStore
  <2>6. ConsumerInv'
    BY <1>h DEF PopStore, Idle
  <2>7. ContentInv'
    BY <1>h, <2>2, <2>3 DEF PopStore
  <2> QED
    BY <1>1, <2>5, <2>6, <2>7
<1>i. CASE UNCHANGED vars
  BY <1>i, <1>1 DEF vars, Occupied
<1> QED
  BY <1>a, <1>b, <1>c, <1>d, <1>e, <1>f, <1>g, <1>h, <1>i DEF Next, Push, Pop

\* So it always holds.
LEMMA SingleProducerInvariant ==
    ASSUME SingleProducer
    PROVE  Spec => []IInv
<1>1. PICK p : Producers = {p}
  BY DEF SingleProducer
<1>2. Init => IInv
  BY InvInit
<1>3. IInv /\ [Next]_vars => IInv'
  BY <1>1, InvStep
<1> QED
  BY <1>2, <1>3, PTL DEF Spec

\* With one producer the unsafe slot accesses of push and pop never overlap on
\* a slot, whatever the ring size.
THEOREM SlotsRaceFree ==
    ASSUME SingleProducer
    PROVE  Spec => []NoSlotRace
<1>1. IInv => NoSlotRace
  <2> SUFFICES ASSUME IInv, NEW i \in Slots, NEW p \in Producers, WritingSlot(p, i)
               PROVE  ~ReadingSlot(i) /\ \A q \in Producers \ {p} : ~WritingSlot(q, i)
    BY DEF NoSlotRace
  <2>1. Producers = {p}
    BY DEF SingleProducer
  <2>2. i = tail
    BY DEF IInv, ProducerInv, WritingSlot
  <2>3. ~ReadingSlot(i)
    BY <2>2 DEF IInv, ConsumerInv, ReadingSlot
  <2> QED
    BY <2>1, <2>3
<1> QED
  BY <1>1, SingleProducerInvariant, PTL

\* With one producer, an update accepted by push stays in its slot until pop
\* has handed it out.
THEOREM AcceptedNotOverwritten ==
    ASSUME SingleProducer
    PROVE  Spec => []NoOverwrite
<1>1. IInv => NoOverwrite
  BY TailIsFree DEF IInv, TypeOK, ProducerInv, NoOverwrite, Occupied
<1> QED
  BY <1>1, SingleProducerInvariant, PTL

-----------------------------------------------------------------------------
(* The ring as a sequence of updates.                                      *)

\* The content depends on the occupied slots only.
LEMMA ContentAgree ==
    ASSUME NEW h \in Slots, NEW t \in Slots, NEW b, NEW c,
           \A i \in Window(h, t) : b[i] = c[i]
    PROVE  ContentOf(b, h, t) = ContentOf(c, h, t)
<1>1. \A k \in 1 .. Distance(h, t) : Offset(h, k - 1) \in Window(h, t)
  BY DistanceBound DEF Window
<1> QED
  BY <1>1 DEF ContentOf

\* The content is a sequence of updates, as long as the window.
LEMMA ContentType ==
    ASSUME NEW h \in Slots, NEW t \in Slots, NEW b,
           \A i \in Window(h, t) : b[i] \in Updates
    PROVE  /\ ContentOf(b, h, t) \in Seq(Updates)
           /\ Len(ContentOf(b, h, t)) = Distance(h, t)
<1>1. Distance(h, t) \in Nat
  BY DistanceBound
<1>2. \A k \in 1 .. Distance(h, t) : Offset(h, k - 1) \in Window(h, t)
  BY <1>1 DEF Window
<1>3. ContentOf(b, h, t) \in [1 .. Distance(h, t) -> Updates]
  BY <1>2 DEF ContentOf
<1> QED
  BY <1>1, <1>3

\* Publishing slot t appends its update.
LEMMA ContentPush ==
    ASSUME NEW h \in Slots, NEW t \in Slots, Succ(t) # h, NEW b,
           \A i \in Window(h, t) : b[i] \in Updates, b[t] \in Updates
    PROVE  /\ ContentOf(b, h, Succ(t)) = Append(ContentOf(b, h, t), b[t])
           /\ Distance(h, t) < Size - 1
<1> DEFINE n == Distance(h, t)
<1>1. n \in Nat /\ Succ(t) \in Slots
  BY DistanceBound, SuccCases
<1>2. Distance(h, Succ(t)) = n + 1 /\ Offset(h, n) = t /\ n < Size - 1
  BY SuccCases, SizeAssumption DEF Distance, Offset, Slots
<1>3. /\ ContentOf(b, h, t) \in Seq(Updates)
      /\ Len(ContentOf(b, h, t)) = n
  BY ContentType
<1> HIDE DEF n
<1>4. /\ Append(ContentOf(b, h, t), b[t]) \in Seq(Updates)
      /\ Len(Append(ContentOf(b, h, t), b[t])) = n + 1
  BY <1>1, <1>3
<1>5. /\ ContentOf(b, h, Succ(t)) \in Seq(Updates)
      /\ Len(ContentOf(b, h, Succ(t))) = n + 1
  <2>1. \A i \in Window(h, Succ(t)) : b[i] \in Updates
    BY WindowPush
  <2> QED
    BY <1>1, <1>2, <2>1, ContentType
<1>6. ASSUME NEW k \in 1 .. n + 1
      PROVE  ContentOf(b, h, Succ(t))[k] = Append(ContentOf(b, h, t), b[t])[k]
  <2>1. ContentOf(b, h, Succ(t))[k] = b[Offset(h, k - 1)]
    BY <1>1, <1>2 DEF ContentOf
  <2>2. CASE k = n + 1
    <3>1. Append(ContentOf(b, h, t), b[t])[k] = b[t]
      BY <1>1, <1>3, <2>2
    <3> QED
      BY <1>1, <1>2, <2>1, <2>2, <3>1
  <2>3. CASE k # n + 1
    <3>1. k \in 1 .. n
      BY <1>1, <2>3
    <3>2. Append(ContentOf(b, h, t), b[t])[k] = ContentOf(b, h, t)[k]
      BY <1>1, <1>3, <3>1
    <3>3. ContentOf(b, h, t)[k] = b[Offset(h, k - 1)]
      BY <3>1 DEF ContentOf, n
    <3> QED
      BY <2>1, <3>2, <3>3
  <2> QED
    BY <2>2, <2>3
<1>7. ContentOf(b, h, Succ(t)) = Append(ContentOf(b, h, t), b[t])
  BY <1>4, <1>5, <1>6, SeqEqual
<1> QED
  BY <1>2, <1>7 DEF n

\* Freeing slot h takes the oldest update off.
LEMMA ContentPop ==
    ASSUME NEW h \in Slots, NEW t \in Slots, h # t, NEW b,
           \A i \in Window(h, t) : b[i] \in Updates
    PROVE  /\ ContentOf(b, h, t) # <<>>
           /\ Head(ContentOf(b, h, t)) = b[h]
           /\ ContentOf(b, Succ(h), t) = Tail(ContentOf(b, h, t))
<1> DEFINE n == Distance(h, t)
<1>1. n \in Nat /\ n > 0 /\ Succ(h) \in Slots
  BY DistanceBound, SuccCases, SizeAssumption DEF Distance, Slots
<1>2. Distance(Succ(h), t) = n - 1 /\ Offset(h, 0) = h
  BY SuccCases, SizeAssumption DEF Distance, Offset, Slots
<1>3. /\ ContentOf(b, h, t) \in Seq(Updates)
      /\ Len(ContentOf(b, h, t)) = n
  BY ContentType
<1>4. \A k \in 1 .. n - 1 : Offset(Succ(h), k - 1) = Offset(h, k)
  BY <1>1, <1>2, SuccCases, SizeAssumption, DistanceBound DEF Offset, Slots, Distance
<1>5. ContentOf(b, h, t)[1] = b[h]
  BY <1>1, <1>2 DEF ContentOf
<1> HIDE DEF n
<1>6. /\ Tail(ContentOf(b, h, t)) \in Seq(Updates)
      /\ Len(Tail(ContentOf(b, h, t))) = n - 1
      /\ ContentOf(b, h, t) # <<>>
  BY <1>1, <1>3
<1>7. /\ ContentOf(b, Succ(h), t) \in Seq(Updates)
      /\ Len(ContentOf(b, Succ(h), t)) = n - 1
  <2>1. \A i \in Window(Succ(h), t) : b[i] \in Updates
    BY WindowPop
  <2> QED
    BY <1>1, <1>2, <2>1, ContentType
<1>8. ASSUME NEW k \in 1 .. n - 1
      PROVE  ContentOf(b, Succ(h), t)[k] = Tail(ContentOf(b, h, t))[k]
  <2>1. ContentOf(b, Succ(h), t)[k] = b[Offset(h, k)]
    BY <1>1, <1>2, <1>4 DEF ContentOf
  <2>2. Tail(ContentOf(b, h, t))[k] = ContentOf(b, h, t)[k + 1]
    BY <1>1, <1>3
  <2>3. ContentOf(b, h, t)[k + 1] = b[Offset(h, k)]
    BY <1>1 DEF ContentOf, n
  <2> QED
    BY <2>1, <2>2, <2>3
<1>9. ContentOf(b, Succ(h), t) = Tail(ContentOf(b, h, t))
  BY <1>6, <1>7, <1>8, SeqEqual
<1> QED
  BY <1>3, <1>5, <1>6, <1>9

-----------------------------------------------------------------------------
(* Refinement of BoundedFifo.                                              *)

\* An empty ring is an empty queue.
LEMMA FifoInit == Init => Fifo!Init
<1> SUFFICES ASSUME Init PROVE Fifo!Init
  OBVIOUS
<1>1. Hand(Idle) = None
  BY DEF Hand, Idle
<1>2. InHand = [p \in Producers |-> None]
  BY <1>1 DEF Init, InHand
<1>3. Distance(0, 0) = 0
  BY DEF Distance
<1>4. Content = <<>>
  BY <1>3 DEF Init, Content, ContentOf
<1> QED
  BY <1>2, <1>4 DEF Init, Fifo!Init

\* What a producer is seen to have in hand when its call begins or ends.
LEMMA InHandStep ==
    ASSUME NEW p \in Producers, TypeOK, NEW r, prod' = [prod EXCEPT ![p] = r]
    PROVE  InHand' = [InHand EXCEPT ![p] = Hand(r)]
BY DEF InHand, TypeOK

\* Every step of the ring is one of the queue, or leaves that as it is.
LEMMA FifoStep ==
    ASSUME NEW p, Producers = {p}, IInv, IInv', [Next]_vars
    PROVE  [Fifo!Next]_(Fifo!vars)
<1>1. /\ head \in Slots /\ tail \in Slots /\ p \in Producers
      /\ prod[p] \in ProducerState /\ cons \in ConsumerState
      /\ \A i \in Window(head, tail) : buffer[i] \in Updates
  BY DEF IInv, TypeOK, ContentInv, Occupied
<1>2. Content \in Seq(Updates) /\ Len(Content) = Stored
  BY <1>1, ContentType DEF Content, Stored
<1>3. TypeOK /\ ProducerInv /\ ConsumerInv
  BY DEF IInv
<1>4. InHand[p] = IF prod[p].pc = "idle" THEN None ELSE prod[p].update
  BY <1>1 DEF InHand, Hand
<1>5. Hand(Idle) = None
  BY DEF Hand, Idle
<1> USE DEF Fifo!vars, Fifo!Next
<1>a. ASSUME NEW u \in Updates, PushLoadTail(p, u) PROVE Fifo!Call(p, u)
  <2> DEFINE r == [pc |-> "checking", at |-> tail, update |-> u]
  <2>0. Hand(r) = u
    BY DEF Hand
  <2>1. InHand' = [InHand EXCEPT ![p] = u]
    BY <1>a, <1>1, <1>3, <2>0, InHandStep DEF PushLoadTail
  <2> QED
    BY <1>a, <1>4, <2>1 DEF PushLoadTail, Fifo!Call, Content
<1>b. CASE PushCheck(p)
  <2>1. Content' = Content /\ popped' = popped /\ prod[p].pc = "checking"
    BY <1>b DEF PushCheck, Content
  <2>2. InHand[p] = prod[p].update /\ prod[p].update # None /\ prod[p].at = tail
    BY <1>3, <1>4, <2>1, ValueAssumption, <1>1 DEF ProducerInv
  <2>3. CASE Succ(tail) = head
    <3>0. prod' = [prod EXCEPT ![p] = Idle]
      BY <1>b, <2>2, <2>3 DEF PushCheck
    <3>1. InHand' = [InHand EXCEPT ![p] = None]
      BY <1>1, <1>3, <1>5, <3>0, InHandStep
    <3>2. Stored = Size - 1
      BY <1>1, <2>3, SuccCases, SizeAssumption DEF Stored, Distance, Slots
    <3>3. Fifo!Refuse(p)
      BY <1>2, <2>1, <2>2, <3>1, <3>2 DEF Fifo!Refuse
    <3> QED
      BY <1>1, <3>3
  <2>4. CASE Succ(tail) # head
    <3>1. prod' = [prod EXCEPT ![p] = [prod[p] EXCEPT !.pc = "writing"]]
      BY <1>b, <2>2, <2>4 DEF PushCheck
    <3>2. Hand([prod[p] EXCEPT !.pc = "writing"]) = prod[p].update
      BY <1>1 DEF Hand, ProducerState
    <3>3. InHand' = InHand
      BY <1>1, <1>3, <2>2, <3>1, <3>2, InHandStep DEF InHand
    <3> QED
      BY <2>1, <3>3
  <2> QED
    BY <2>3, <2>4
<1>c. CASE PushWrite(p)
  <2>1. /\ ~ \E q \in Producers \ {p} : WritingSlot(q, prod[p].at)
        /\ prod[p].at = tail /\ tail \notin Window(head, tail)
    BY <1>c, <1>1, <1>3, TailIsFree DEF PushWrite, ProducerInv
  <2>2. buffer' = [buffer EXCEPT ![tail] = prod[p].update]
    BY <1>c, <2>1 DEF PushWrite
  <2>3. \A i \in Window(head, tail) : buffer'[i] = buffer[i]
    BY <1>1, <1>3, <2>1, <2>2, WindowCases DEF TypeOK
  <2>4. Content' = Content /\ popped' = popped
    <3>1. head' = head /\ tail' = tail /\ popped' = popped
      BY <1>c DEF PushWrite
    <3> QED
      BY <1>1, <2>3, <3>1, ContentAgree, SMTT(30) DEF Content
  <2>5. prod' = [prod EXCEPT ![p] = [prod[p] EXCEPT !.pc = "storing"]]
    BY <1>c DEF PushWrite
  <2>6. Hand([prod[p] EXCEPT !.pc = "storing"]) = prod[p].update
    BY <1>1 DEF Hand, ProducerState
  <2>7. InHand[p] = prod[p].update
    BY <1>c, <1>4 DEF PushWrite
  <2>8. InHand' = InHand
    BY <1>1, <1>3, <2>5, <2>6, <2>7, InHandStep DEF InHand
  <2> QED
    BY <2>4, <2>8
<1>d. CASE PushStore(p)
  <2>1. /\ tail' = Succ(tail) /\ Succ(tail) # head /\ popped' = popped
        /\ buffer[tail] = prod[p].update /\ prod[p].update \in Updates
        /\ InHand[p] = prod[p].update
    BY <1>d, <1>1, <1>3, <1>4 DEF PushStore, ProducerInv
  <2>2. /\ Content' = Append(Content, prod[p].update)
        /\ Stored < Size - 1
    BY <1>d, <1>1, <2>1, ContentPush DEF PushStore, Content, Stored
  <2>3. InHand' = [InHand EXCEPT ![p] = None]
    BY <1>d, <1>1, <1>3, <1>5, InHandStep DEF PushStore
  <2>4. Fifo!Accept(p)
    BY <1>2, <2>1, <2>2, <2>3, ValueAssumption DEF Fifo!Accept
  <2> QED
    BY <1>1, <2>4
<1>e. CASE PopLoadHead
  BY <1>e DEF PopLoadHead, Content, InHand
<1>f. CASE PopCheck
  BY <1>f DEF PopCheck, Content, InHand
<1>g. CASE PopRead
  BY <1>g DEF PopRead, Content, InHand
<1>h. CASE PopStore
  <2>1. /\ head' = Succ(head) /\ head # tail /\ InHand' = InHand
        /\ popped' = buffer[head]
    BY <1>h, <1>3 DEF PopStore, ConsumerInv, InHand
  <2>2. Content # <<>> /\ Head(Content) = buffer[head] /\ Content' = Tail(Content)
    BY <1>h, <1>1, <2>1, ContentPop DEF PopStore, Content
  <2>3. Fifo!Take
    BY <2>1, <2>2 DEF Fifo!Take
  <2> QED
    BY <2>3
<1>i. CASE UNCHANGED vars
  BY <1>i DEF vars, Content, InHand
<1> QED
  BY <1>a, <1>b, <1>c, <1>d, <1>e, <1>f, <1>g, <1>h, <1>i DEF Next, Push, Pop

\* The ring buffer used by one producer and one consumer is a FIFO queue of
\* Size - 1 updates: it implements BoundedFifo step by step.
THEOREM RingImplementsFifo ==
    ASSUME SingleProducer
    PROVE  Spec => FifoRefinement
<1>1. PICK p : Producers = {p}
  BY DEF SingleProducer
<1>2. Init => Fifo!Init
  BY FifoInit
<1>3. IInv /\ IInv' /\ [Next]_vars => [Fifo!Next]_(Fifo!vars)
  BY <1>1, FifoStep
<1> QED
  BY <1>2, <1>3, SingleProducerInvariant, PTL DEF Spec, Fifo!Spec, FifoRefinement

=============================================================================
