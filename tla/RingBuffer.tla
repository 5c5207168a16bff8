----------------------------- MODULE RingBuffer -----------------------------
(***************************************************************************)
(* RingBuffer of matching-engine/src/hft_orderbook.rs: the array of        *)
(* UnsafeCell slots and the two atomic indices between the websocket tasks *)
(* that push updates and the processing thread that pops them.  One action *)
(* per atomic access, and the copy of an update into or out of a slot is   *)
(* an interval (between two actions) in which other threads run.           *)
(*                                                                         *)
(* The code takes no lock and the slots are plain memory: two accesses of  *)
(* one slot that overlap, one of them a write, are a data race and leave   *)
(* or yield a mixture of updates, here the value Torn.                     *)
(***************************************************************************)
EXTENDS Naturals, Sequences

CONSTANTS
    Producers,   \* threads that call push on this ring
    Updates,     \* FastUpdate values
    Size,        \* RING_BUFFER_SIZE
    None,        \* no update: the zeroed slot, a call with nothing in hand
    Torn         \* the outcome of a data race on a slot

ASSUME SizeAssumption == Size \in Nat \ {0}
ASSUME ValueAssumption == None \notin Updates /\ Torn \notin Updates /\ Torn # None

VARIABLES
    buffer,      \* the slots
    head,        \* AtomicUsize, moved by pop
    tail,        \* AtomicUsize, moved by push
    prod,        \* prod[p]: where p is in push, its loaded tail, its update
    cons,        \* where the consumer is in pop, its loaded head, its update
    popped       \* the update pop returned last, or None

vars == <<buffer, head, tail, prod, cons, popped>>

Slots == 0 .. Size - 1
Values == Updates \cup {None, Torn}

Idle == [pc |-> "idle", at |-> 0, update |-> None]

\* A successor that does not wrap.
SuccUnwrapped(i) == i + 1

\* The index after i, as push and pop compute it.
Succ(i) == (i + 1) % Size

\* The slot that is i places after the head h, as a case split instead of a
\* modulus.
Offset(h, i) == IF h + i < Size THEN h + i ELSE (h + i) - Size

\* The number of slots from index h up to, not including, index t.
Distance(h, t) == IF t >= h THEN t - h ELSE (t + Size) - h

\* Those slots.
Window(h, t) == {Offset(h, i) : i \in 0 .. Distance(h, t) - 1}

\* The slots pushed and not yet popped, and their number.
Occupied == Window(head, tail)
Stored == Distance(head, tail)

WritingSlot(p, i) == prod[p].pc = "writing" /\ prod[p].at = i
ReadingSlot(i) == cons.pc = "reading" /\ cons.at = i

-----------------------------------------------------------------------------
(* Initial state: all slots zeroed, both indices 0.                        *)

Init ==
    /\ buffer = [i \in Slots |-> None]
    /\ head = 0
    /\ tail = 0
    /\ prod = [p \in Producers |-> Idle]
    /\ cons = Idle
    /\ popped = None

-----------------------------------------------------------------------------
(* push, producer side.                                                    *)

\* push is called and loads tail.
PushLoadTail(p, u) ==
    /\ prod[p].pc = "idle"
    /\ prod' = [prod EXCEPT ![p] = [pc |-> "checking", at |-> tail, update |-> u]]
    /\ UNCHANGED <<buffer, head, tail, cons, popped>>

\* Defects of the full check: none at all, the next index left out, and a tail
\* stored before the slot is written.
PushCheckUnchecked(p) ==
    /\ prod[p].pc = "checking"
    /\ prod' = [prod EXCEPT ![p].pc = "writing"]
    /\ UNCHANGED <<buffer, head, tail, cons, popped>>

PushCheckOffByOne(p) ==
    /\ prod[p].pc = "checking"
    /\ prod' = [prod EXCEPT ![p] = IF prod[p].at = head THEN Idle
                                   ELSE [@ EXCEPT !.pc = "writing"]]
    /\ UNCHANGED <<buffer, head, tail, cons, popped>>

PushCheckPublishes(p) ==
    /\ prod[p].pc = "checking"
    /\ IF Succ(prod[p].at) = head
       THEN prod' = [prod EXCEPT ![p] = Idle] /\ tail' = tail
       ELSE prod' = [prod EXCEPT ![p].pc = "writing"] /\ tail' = Succ(prod[p].at)
    /\ UNCHANGED <<buffer, head, cons, popped>>

\* push loads head; the ring is full when the next tail would meet it, and the
\* call returns false.  Otherwise the write of the slot begins.
PushCheck(p) ==
    /\ prod[p].pc = "checking"
    /\ prod' = [prod EXCEPT ![p] = IF Succ(prod[p].at) = head THEN Idle
                                   ELSE [@ EXCEPT !.pc = "writing"]]
    /\ UNCHANGED <<buffer, head, tail, cons, popped>>

\* The write of the slot ends.  A second producer in the same slot may have
\* mixed its bytes with this one's.
PushWrite(p) ==
    /\ prod[p].pc = "writing"
    /\ \E v \in {prod[p].update} \cup
                (IF \E q \in Producers \ {p} : WritingSlot(q, prod[p].at) THEN {Torn} ELSE {}) :
            buffer' = [buffer EXCEPT ![prod[p].at] = v]
    /\ prod' = [prod EXCEPT ![p].pc = "storing"]
    /\ UNCHANGED <<head, tail, cons, popped>>

\* The release store of tail publishes the slot; push returns true.
PushStore(p) ==
    /\ prod[p].pc = "storing"
    /\ tail' = Succ(prod[p].at)
    /\ prod' = [prod EXCEPT ![p] = Idle]
    /\ UNCHANGED <<buffer, head, cons, popped>>

-----------------------------------------------------------------------------
(* pop, consumer side: one thread.                                         *)

PopLoadHead ==
    /\ cons.pc = "idle"
    /\ cons' = [cons EXCEPT !.pc = "checking", !.at = head]
    /\ UNCHANGED <<buffer, head, tail, prod, popped>>

\* pop loads tail; head = tail means empty, and it returns None.
PopCheck ==
    /\ cons.pc = "checking"
    /\ cons' = IF cons.at = tail THEN Idle ELSE [cons EXCEPT !.pc = "reading"]
    /\ UNCHANGED <<buffer, head, tail, prod, popped>>

\* The copy out of the slot ends.
PopRead ==
    /\ cons.pc = "reading"
    /\ \E v \in {buffer[cons.at]} \cup
                (IF \E p \in Producers : WritingSlot(p, cons.at) THEN {Torn} ELSE {}) :
            cons' = [cons EXCEPT !.pc = "storing", !.update = v]
    /\ UNCHANGED <<buffer, head, tail, prod, popped>>

\* A pop that hands out the update and leaves its slot occupied.
PopStoreNoAdvance ==
    /\ cons.pc = "storing"
    /\ popped' = cons.update
    /\ cons' = Idle
    /\ UNCHANGED <<buffer, head, tail, prod>>

\* The release store of head frees the slot; pop returns the update.
PopStore ==
    /\ cons.pc = "storing"
    /\ head' = Succ(cons.at)
    /\ popped' = cons.update
    /\ cons' = Idle
    /\ UNCHANGED <<buffer, tail, prod>>

-----------------------------------------------------------------------------
Push(p) ==
    \/ \E u \in Updates : PushLoadTail(p, u)
    \/ PushCheck(p)
    \/ PushWrite(p)
    \/ PushStore(p)

Pop == PopLoadHead \/ PopCheck \/ PopRead \/ PopStore

Next == (\E p \in Producers : Push(p)) \/ Pop

Spec == Init /\ [][Next]_vars

(* The processing thread polls the ring in an endless loop; nothing forces *)
(* a producer to call push, but a call once begun runs to its end.         *)
Fairness ==
    /\ WF_vars(Pop)
    /\ \A p \in Producers : WF_vars(PushCheck(p) \/ PushWrite(p) \/ PushStore(p))

FairSpec == Spec /\ Fairness

-----------------------------------------------------------------------------
(* Properties.                                                             *)

ProducerState ==
    [pc : {"idle", "checking", "writing", "storing"}, at : Slots, update : Updates \cup {None}]

ConsumerState ==
    [pc : {"idle", "checking", "reading", "storing"}, at : Slots, update : Values]

\* Every variable has its type; both indices stay inside the array.
TypeOK ==
    /\ buffer \in [Slots -> Values]
    /\ head \in Slots
    /\ tail \in Slots
    /\ prod \in [Producers -> ProducerState]
    /\ cons \in ConsumerState
    /\ popped \in Values

\* The unsafe accesses of push and pop need no lock: while one thread writes a
\* slot, no other thread reads or writes it.
NoSlotRace ==
    \A i \in Slots : \A p \in Producers :
        WritingSlot(p, i) =>
            /\ ~ReadingSlot(i)
            /\ \A q \in Producers \ {p} : ~WritingSlot(q, i)

\* push never writes a slot whose update was accepted (a push of it returned
\* true) and not popped yet: that update would be lost.
NoOverwrite ==
    \A p \in Producers : prod[p].pc = "writing" => prod[p].at \notin Occupied

\* The updates that slots b hold from index h up to index t, oldest first.
ContentOf(b, h, t) == [i \in 1 .. Distance(h, t) |-> b[Offset(h, i - 1)]]

\* The updates between head and tail.
Content == ContentOf(buffer, head, tail)

\* The update of a push in progress.
Hand(r) == IF r.pc = "idle" THEN None ELSE r.update
InHand == [p \in Producers |-> Hand(prod[p])]

Fifo == INSTANCE BoundedFifo
            WITH pending <- InHand, queue <- Content, taken <- popped,
                 Capacity <- Size - 1

\* push and pop at the granularity of single loads, stores and copies implement
\* the bounded FIFO queue of capacity RING_BUFFER_SIZE - 1: nothing accepted is
\* lost, duplicated, torn or reordered, and push fails only on a full ring.
FifoRefinement == Fifo!Spec

\* An update that was accepted leaves its slot: the consumer does not starve,
\* whatever the producers do.
AcceptedIsPopped == \A i \in Slots : (i \in Occupied) ~> (i \notin Occupied)

=============================================================================
