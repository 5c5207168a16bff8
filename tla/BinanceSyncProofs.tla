------------------------- MODULE BinanceSyncProofs -------------------------
(***************************************************************************)
(* Proofs about the synchronizer: its types for any number of tasks, and   *)
(* that one task hands on an unbroken chain of events, whatever events     *)
(* arrive, however long the buffer is and whenever a snapshot comes.       *)
(***************************************************************************)
EXTENDS BinanceSync, SequenceTheorems, WellFoundedInduction, TLAPS

-----------------------------------------------------------------------------
(* What the filter of synchronize returns.                                 *)

\* A set of naturals has a least element.
LEMMA LeastNat == ASSUME NEW T, T \subseteq Nat, T # {} PROVE \E x \in T : \A y \in T : ~(y < x)
<1>1. \E x \in T : \A y \in T : ~ (<<y, x>> \in OpToRel(<, Nat))
  BY NatLessThanWellFounded, WFMin
<1>2. PICK x \in T : \A y \in T : ~ (<<y, x>> \in OpToRel(<, Nat))
  BY <1>1
<1>3. \A y \in T : ~ (y < x)
  BY <1>2 DEF OpToRel
<1> QED
  BY <1>3

\* The events that are kept are events.
LEMMA NewerType == ASSUME NEW b \in Seq(Events) PROVE Newer(b) \in Seq(Events)
<1> DEFINE Rec(g, n) == IF n = 0 THEN <<>>
                        ELSE IF b[n].final > snapshot THEN Append(g[n - 1], b[n]) ELSE g[n - 1]
           Solves(g, m) == g \in [0 .. m -> Seq(Events)] /\ \A n \in 0 .. m : g[n] = Rec(g, n)
           kept == CHOOSE g : g = [n \in 0 .. Len(b) |-> Rec(g, n)]
<1>1. Newer(b) = kept[Len(b)]
  BY DEF Newer
<1>2. Len(b) \in Nat /\ \A n \in 1 .. Len(b) : b[n] \in Events
  OBVIOUS
<1>3. \A m \in 0 .. Len(b) : \E g : Solves(g, m)
  <2> DEFINE T == {m \in 0 .. Len(b) : ~ \E g : Solves(g, m)}
  <2> SUFFICES ASSUME T # {} PROVE FALSE
    OBVIOUS
  <2>9. T \subseteq Nat
    BY <1>2
  <2>10. \E m \in T : \A y \in T : ~(y < m)
    <3> HIDE DEF T
    <3> QED
      BY <2>9, LeastNat
  <2>1. PICK m \in T : \A y \in T : ~(y < m)
    BY <2>10
  <2>2. m # 0
    <3>1. Solves([n \in 0 .. 0 |-> <<>>], 0)
      OBVIOUS
    <3> QED
      BY <3>1, <2>1
  <2>3. m - 1 \in 0 .. Len(b) /\ m - 1 < m /\ m \in 1 .. Len(b)
    BY <2>1, <2>2, <1>2
  <2>4. PICK g : Solves(g, m - 1)
    BY <2>1, <2>3
  <2> DEFINE h == [n \in 0 .. m |-> IF n = m THEN Rec(g, m) ELSE g[n]]
  <2>5. Rec(g, m) \in Seq(Events)
    <3>1. g[m - 1] \in Seq(Events) /\ b[m] \in Events
      BY <2>3, <2>4, <1>2
    <3> QED
      BY <3>1, <2>2
  <2>6. h \in [0 .. m -> Seq(Events)]
    BY <2>3, <2>4, <2>5
  <2>7. ASSUME NEW n \in 0 .. m PROVE h[n] = Rec(h, n)
    <3>1. CASE n = 0
      BY <3>1, <2>2, <2>3, <2>4
    <3>2. CASE n # 0
      <4>1. n - 1 \in 0 .. m /\ n - 1 # m /\ n - 1 \in 0 .. m - 1
        BY <2>3, <3>2
      <4>2. h[n - 1] = g[n - 1]
        BY <4>1
      <4>3. n # m => n \in 0 .. m - 1
        BY <2>3
      <4>4. n # m => h[n] = Rec(g, n)
        BY <4>3, <2>4
      <4>5. n = m => h[n] = Rec(g, n)
        OBVIOUS
      <4> QED
        BY <3>2, <4>2, <4>4, <4>5
    <3> QED
      BY <3>1, <3>2
  <2>8. Solves(h, m)
    BY <2>6, <2>7
  <2> QED
    BY <2>1, <2>8
<1>4. kept = [n \in 0 .. Len(b) |-> Rec(kept, n)]
  <2>3. Len(b) \in 0 .. Len(b)
    BY <1>2
  <2>4. \E g : Solves(g, Len(b))
    <3> HIDE DEF Solves
    <3> QED
      BY <2>3, <1>3
  <2>1. PICK g : Solves(g, Len(b))
    BY <2>4
  <2>2. g = [n \in 0 .. Len(b) |-> Rec(g, n)]
    BY <2>1
  <2> QED
    BY <2>2
<1> HIDE DEF kept
<1>5. \A n \in 0 .. Len(b) : kept[n] \in Seq(Events)
  <2> DEFINE T == {n \in 0 .. Len(b) : kept[n] \notin Seq(Events)}
  <2> SUFFICES ASSUME T # {} PROVE FALSE
    OBVIOUS
  <2>6. T \subseteq Nat
    BY <1>2
  <2>7. \E n \in T : \A y \in T : ~(y < n)
    <3> HIDE DEF T
    <3> QED
      BY <2>6, LeastNat
  <2>1. PICK n \in T : \A y \in T : ~(y < n)
    BY <2>7
  <2>2. kept[n] = Rec(kept, n)
    BY <1>4, <2>1
  <2>3. n # 0
    <3>1. <<>> \in Seq(Events) /\ kept[n] \notin Seq(Events)
      BY <2>1
    <3> QED
      BY <3>1, <2>2
  <2>4. n - 1 \in 0 .. Len(b) /\ n - 1 < n /\ n \in 1 .. Len(b)
    BY <2>1, <2>3, <1>2
  <2>5. kept[n - 1] \in Seq(Events)
    BY <2>1, <2>4
  <2>8. b[n] \in Events /\ Append(kept[n - 1], b[n]) \in Seq(Events)
    BY <2>4, <2>5, <1>2
  <2>9. Rec(kept, n) \in Seq(Events)
    BY <2>3, <2>5, <2>8
  <2> QED
    BY <2>1, <2>2, <2>9
<1> QED
  BY <1>1, <1>2, <1>5

-----------------------------------------------------------------------------
(* The types, for any number of tasks.                                     *)

\* A task that has a message has its event; one that hands on events has some.
Equipped(t) ==
    /\ task[t].pc # "idle" => task[t].event \in Events
    /\ task[t].pc \in {"marking", "processing"} => task[t].out # <<>>

BaseInv == TypeOK /\ \A t \in Tasks : Equipped(t)

\* What a task is moved to is of its type, and no other task moves.
LEMMA Moved ==
    ASSUME BaseInv, NEW t \in Tasks, NEW new \in TaskState, task' = [task EXCEPT ![t] = new],
           new.pc # "idle" => new.event \in Events,
           new.pc \in {"marking", "processing"} => new.out # <<>>
    PROVE  /\ task' \in [Tasks -> TaskState]
           /\ \A q \in Tasks : Equipped(q)'
           /\ task'[t] = new
           /\ \A q \in Tasks \ {t} : task'[q] = task[q]
<1>1. /\ task' \in [Tasks -> TaskState] /\ task'[t] = new
      /\ \A q \in Tasks \ {t} : task'[q] = task[q]
  BY DEF BaseInv, TypeOK
<1>2. \A q \in Tasks : Equipped(q)'
  BY <1>1 DEF BaseInv, Equipped
<1> QED
  BY <1>1, <1>2

\* A step to another place, with the same event and output.
LEMMA Went ==
    ASSUME BaseInv, NEW t \in Tasks, task[t].pc # "idle",
           NEW pc \in {"routing", "buffering", "synchronizing", "validating", "comparing",
                       "unmarking", "rebuffering", "advancing", "processing"},
           pc = "processing" => task[t].pc = "marking",
           Goto(t, pc)
    PROVE  /\ task' \in [Tasks -> TaskState]
           /\ \A q \in Tasks : Equipped(q)'
           /\ task'[t].pc = pc /\ task'[t].event = task[t].event /\ task'[t].out = task[t].out
           /\ \A q \in Tasks \ {t} : task'[q] = task[q]
<1> DEFINE new == [pc |-> pc, event |-> task[t].event, out |-> task[t].out]
<1>1. task[t] \in TaskState /\ Equipped(t)
  BY DEF BaseInv, TypeOK
<1>2. new \in TaskState
  BY <1>1 DEF TaskState
<1>3. [task[t] EXCEPT !.pc = pc] = new
  BY <1>1 DEF TaskState
<1>4. task' = [task EXCEPT ![t] = new]
  BY <1>3 DEF Goto
<1>5. new.pc # "idle" => new.event \in Events
  BY <1>1 DEF Equipped
<1>6. new.pc \in {"marking", "processing"} => new.out # <<>>
  BY <1>1 DEF Equipped
<1> HIDE DEF new
<1>7. /\ task' \in [Tasks -> TaskState]
      /\ \A q \in Tasks : Equipped(q)'
      /\ task'[t] = new
      /\ \A q \in Tasks \ {t} : task'[q] = task[q]
  BY <1>2, <1>4, <1>5, <1>6, Moved
<1> QED
  BY <1>7 DEF new

\* A task at rest.
LEMMA IdleType == Idle \in TaskState /\ Idle.pc = "idle"
  BY DEF Idle, NoEvent, TaskState

\* The ids of the events.
LEMMA EventIds == \A e \in Events : e.final \in 0 .. MaxId
  BY SyncAssumption DEF Event

\* The invariant holds at the start.
LEMMA BaseInit == Init => BaseInv
<1> SUFFICES ASSUME Init PROVE BaseInv
  OBVIOUS
<1>1. 0 \in 0 .. MaxId /\ 0 <= MaxBuffer
  BY SyncAssumption
<1>2. <<>> \in Seq(Events) /\ Len(<<>>) = 0
  OBVIOUS
<1>3. task \in [Tasks -> TaskState] /\ \A t \in Tasks : task[t].pc = "idle"
  BY IdleType DEF Init
<1>4. TypeOK
  BY <1>1, <1>2, <1>3 DEF Init, TypeOK
<1>5. \A t \in Tasks : Equipped(t)
  BY <1>3 DEF Equipped
<1> QED
  BY <1>4, <1>5 DEF BaseInv

\* The snapshot's steps, and a subscription.
LEMMA SnapshotBase ==
    ASSUME BaseInv, (\E id \in 1 .. MaxId : FetchDone(id)) \/ FetchFailed \/ Resubscribe
    PROVE  BaseInv'
<1>1. task' = task /\ upto' = upto
  BY DEF FetchDone, FetchFailed, Resubscribe
<1>2. \A t \in Tasks : Equipped(t)'
  BY <1>1 DEF BaseInv, Equipped
<1>3. 0 \in 0 .. MaxId /\ <<>> \in Seq(Events) /\ Len(<<>>) <= MaxBuffer
  BY SyncAssumption
<1>4. fetching' \in BOOLEAN /\ gapped' \in BOOLEAN /\ is_synchronized' \in BOOLEAN
  BY DEF FetchDone, FetchFailed, Resubscribe, BaseInv, TypeOK
<1>5. snapshot' \in 0 .. MaxId /\ last_validated' \in 0 .. MaxId
  BY <1>3 DEF FetchDone, FetchFailed, Resubscribe, BaseInv, TypeOK
<1>6. event_buffer' \in Seq(Events) /\ Len(event_buffer') <= MaxBuffer
  BY <1>3 DEF FetchDone, FetchFailed, Resubscribe, BaseInv, TypeOK
<1>7. TypeOK'
  BY <1>1, <1>4, <1>5, <1>6 DEF BaseInv, TypeOK
<1> QED
  BY <1>2, <1>7 DEF BaseInv

\* What becomes of a task that receives, buffers, synchronizes or processes.
LEMMA ReceiveMoves ==
    ASSUME BaseInv, NEW t \in Tasks, NEW e \in Events, Receive(t, e)
    PROVE  /\ task' \in [Tasks -> TaskState]
           /\ \A q \in Tasks : Equipped(q)'
           /\ task'[t].pc = "routing"
           /\ \A q \in Tasks \ {t} : task'[q] = task[q]
<1> DEFINE new == [pc |-> "routing", event |-> e, out |-> <<>>]
<1>1. new \in TaskState
  BY DEF TaskState
<1>2. task' = [task EXCEPT ![t] = new]
  BY DEF Receive
<1>3. new.event \in Events /\ new.pc = "routing"
  OBVIOUS
<1>4. new.pc \notin {"marking", "processing"}
  BY <1>3
<1> HIDE DEF new
<1>5. /\ task' \in [Tasks -> TaskState]
      /\ \A q \in Tasks : Equipped(q)'
      /\ task'[t] = new
      /\ \A q \in Tasks \ {t} : task'[q] = task[q]
  BY <1>1, <1>2, <1>3, <1>4, Moved
<1> QED
  BY <1>5 DEF new

\* A task ends its message.
LEMMA Ended ==
    ASSUME BaseInv, NEW t \in Tasks, task' = [task EXCEPT ![t] = Idle]
    PROVE  /\ task' \in [Tasks -> TaskState]
           /\ \A q \in Tasks : Equipped(q)'
           /\ task'[t] = Idle
           /\ \A q \in Tasks \ {t} : task'[q] = task[q]
<1>1. Idle \in TaskState /\ Idle.pc = "idle" /\ Idle.pc \notin {"marking", "processing"}
  BY IdleType
<1> QED
  BY <1>1, Moved

\* A task is given events to hand on.
LEMMA Given ==
    ASSUME BaseInv, NEW t \in Tasks, task[t].pc # "idle", NEW pc \in {"marking", "processing"},
           NEW events \in Seq(Events), events # <<>>,
           task' = [task EXCEPT ![t].pc = pc, ![t].out = events]
    PROVE  /\ task' \in [Tasks -> TaskState]
           /\ \A q \in Tasks : Equipped(q)'
           /\ task'[t] = [pc |-> pc, event |-> task[t].event, out |-> events]
           /\ \A q \in Tasks \ {t} : task'[q] = task[q]
<1> DEFINE new == [pc |-> pc, event |-> task[t].event, out |-> events]
<1>1. task \in [Tasks -> TaskState] /\ task[t] \in TaskState /\ Equipped(t)
  BY DEF BaseInv, TypeOK
<1>2. new \in TaskState
  BY <1>1 DEF TaskState
<1>3. task' = [task EXCEPT ![t] = new]
  <2> DEFINE mid == [task EXCEPT ![t].pc = pc]
             half == [pc |-> pc, event |-> task[t].event, out |-> task[t].out]
  <2>1. mid = [task EXCEPT ![t] = half]
    <3>1. [task[t] EXCEPT !.pc = pc] = half
      BY <1>1 DEF TaskState
    <3>2. mid = [task EXCEPT ![t] = [task[t] EXCEPT !.pc = pc]]
      OBVIOUS
    <3> QED
      BY <3>1, <3>2
  <2>2. half \in TaskState /\ mid \in [Tasks -> TaskState] /\ mid[t] = half
    BY <2>1, <1>1 DEF TaskState
  <2>3. task' = [mid EXCEPT ![t].out = events]
    OBVIOUS
  <2>4. [half EXCEPT !.out = events] = new
    OBVIOUS
  <2>5. task' = [mid EXCEPT ![t] = [mid[t] EXCEPT !.out = events]]
    BY <2>3
  <2>6. task' = [mid EXCEPT ![t] = new]
    BY <2>2, <2>4, <2>5
  <2> HIDE DEF half
  <2> QED
    BY <2>1, <2>6, <1>1
<1>4. new.pc # "idle" => new.event \in Events
  BY <1>1 DEF Equipped
<1>5. new.out # <<>>
  OBVIOUS
<1> HIDE DEF new
<1>6. /\ task' \in [Tasks -> TaskState]
      /\ \A q \in Tasks : Equipped(q)'
      /\ task'[t] = new
      /\ \A q \in Tasks \ {t} : task'[q] = task[q]
  BY <1>2, <1>3, <1>4, <1>5, Moved
<1> QED
  BY <1>6 DEF new

\* A task hands on the first of its events.
LEMMA ProcessMoves ==
    ASSUME BaseInv, NEW t \in Tasks, Process(t)
    PROVE  /\ task[t].out \in Seq(Events) /\ task[t].out # <<>>
           /\ task' \in [Tasks -> TaskState]
           /\ \A q \in Tasks : Equipped(q)'
           /\ Len(task[t].out) = 1 => task'[t] = Idle
           /\ Len(task[t].out) # 1 =>
                /\ Tail(task[t].out) \in Seq(Events) /\ Tail(task[t].out) # <<>>
                /\ task'[t] = [pc |-> "processing", event |-> task[t].event, out |-> Tail(task[t].out)]
           /\ \A q \in Tasks \ {t} : task'[q] = task[q]
<1> DEFINE new == [pc |-> "processing", event |-> task[t].event, out |-> Tail(task[t].out)]
<1>1. task[t] \in TaskState /\ Equipped(t) /\ task[t].pc = "processing"
  BY DEF BaseInv, TypeOK, Process
<1>2. task[t].out \in Seq(Events) /\ task[t].out # <<>>
  BY <1>1 DEF Equipped, TaskState
<1>3. task' = [task EXCEPT ![t] = WithoutFirst(task[t])]
  BY DEF Process
<1>4. CASE Len(task[t].out) = 1
  <2>1. task' = [task EXCEPT ![t] = Idle]
    BY <1>3, <1>4 DEF WithoutFirst
  <2> QED
    BY <2>1, <1>2, <1>4, Ended
<1>5. CASE Len(task[t].out) # 1
  <2>1. Tail(task[t].out) \in Seq(Events) /\ Tail(task[t].out) # <<>>
    <3> DEFINE out == task[t].out
    <3>1. out \in Seq(Events) /\ out # <<>> /\ Len(out) # 1
      BY <1>2, <1>5
    <3> HIDE DEF out
    <3>2. Tail(out) \in Seq(Events) /\ Len(Tail(out)) # 0
      BY <3>1
    <3>3. Tail(out) # <<>>
      BY <3>2, EmptySeq
    <3> QED
      BY <3>2, <3>3 DEF out
  <2>2. new \in TaskState
    BY <2>1, <1>1 DEF TaskState
  <2>3. WithoutFirst(task[t]) = new
    BY <1>1, <1>5 DEF WithoutFirst, TaskState
  <2>4. new.event \in Events /\ new.out # <<>>
    BY <1>1, <2>1 DEF Equipped
  <2>5. task' = [task EXCEPT ![t] = new]
    BY <1>3, <2>3
  <2> HIDE DEF new
  <2>6. /\ task' \in [Tasks -> TaskState]
        /\ \A q \in Tasks : Equipped(q)'
        /\ task'[t] = new
        /\ \A q \in Tasks \ {t} : task'[q] = task[q]
    BY <2>2, <2>4, <2>5, Moved
  <2> QED
    BY <2>1, <2>6, <1>2, <1>5 DEF new
<1> QED
  BY <1>4, <1>5

\* The buffer never grows beyond its limit.
LEMMA BufferStays ==
    ASSUME BaseInv, NEW t \in Tasks, BufferEvent(t)
    PROVE  event_buffer' \in Seq(Events) /\ Len(event_buffer') <= MaxBuffer
<1> DEFINE kept == IF Len(event_buffer) >= MaxBuffer THEN Tail(event_buffer) ELSE event_buffer
<1>1. task[t].event \in Events
  BY DEF BufferEvent, BaseInv, Equipped
<1>2. /\ event_buffer \in Seq(Events) /\ Len(event_buffer) <= MaxBuffer
      /\ MaxBuffer \in Nat \ {0}
  BY SyncAssumption DEF BaseInv, TypeOK
<1>3. kept \in Seq(Events) /\ Len(kept) < MaxBuffer
  <2>1. CASE Len(event_buffer) >= MaxBuffer
    <3>1. event_buffer # <<>>
      BY <1>2, <2>1
    <3>2. Tail(event_buffer) \in Seq(Events) /\ Len(Tail(event_buffer)) = Len(event_buffer) - 1
      BY <1>2, <3>1
    <3> QED
      BY <1>2, <2>1, <3>2
  <2>2. CASE ~(Len(event_buffer) >= MaxBuffer)
    BY <1>2, <2>2
  <2> QED
    BY <2>1, <2>2
<1>4. event_buffer' = Append(kept, task[t].event)
  BY DEF BufferEvent
<1> HIDE DEF kept
<1> QED
  BY <1>1, <1>2, <1>3, <1>4

\* The events of a synchronization.
LEMMA SynchronizeGives ==
    ASSUME BaseInv, NEW t \in Tasks, Synchronize(t), snapshot # 0 /\ Accepted(Newer(event_buffer))
    PROVE  /\ Newer(event_buffer) \in Seq(Events) /\ Newer(event_buffer) # <<>>
           /\ task' \in [Tasks -> TaskState]
           /\ \A q \in Tasks : Equipped(q)'
           /\ task'[t] = [pc |-> "marking", event |-> task[t].event, out |-> Newer(event_buffer)]
           /\ \A q \in Tasks \ {t} : task'[q] = task[q]
<1>1. Newer(event_buffer) \in Seq(Events)
  BY NewerType DEF BaseInv, TypeOK
<1>2. Newer(event_buffer) # <<>>
  BY DEF Accepted
<1>3. task[t].pc # "idle" /\ "marking" \in {"marking", "processing"}
  BY DEF Synchronize
<1>4. task' = [task EXCEPT ![t].pc = "marking", ![t].out = Newer(event_buffer)]
  BY DEF Synchronize
<1> QED
  BY <1>1, <1>2, <1>3, <1>4, Given

\* A step of a task,
LEMMA StepBase == ASSUME BaseInv, NEW t \in Tasks, Step(t) PROVE BaseInv'
<1> SUFFICES TypeOK' /\ \A q \in Tasks : Equipped(q)'
  BY DEF BaseInv
<1>1. ASSUME NEW e \in Events, Receive(t, e) PROVE TypeOK' /\ \A q \in Tasks : Equipped(q)'
  BY <1>1, ReceiveMoves DEF Receive, BaseInv, TypeOK
<1>2. CASE Route(t)
  <2>1. PICK pc \in {"validating", "buffering"} : Goto(t, pc) /\ task[t].pc # "idle"
    BY <1>2 DEF Route
  <2> QED
    BY <2>1, <1>2, Went DEF Route, BaseInv, TypeOK
<1>3. CASE BufferEvent(t)
  <2>1. task' \in [Tasks -> TaskState] /\ \A q \in Tasks : Equipped(q)'
    <3>1. CASE task[t].pc = "buffering"
      BY <1>3, <3>1, Went DEF BufferEvent
    <3>2. CASE task[t].pc # "buffering"
      BY <1>3, <3>2, Ended DEF BufferEvent
    <3> QED
      BY <3>1, <3>2
  <2> QED
    BY <2>1, <1>3, BufferStays DEF BufferEvent, BaseInv, TypeOK
<1>4. CASE Synchronize(t)
  <2>1. CASE snapshot # 0 /\ Accepted(Newer(event_buffer))
    <3>1. task' \in [Tasks -> TaskState] /\ \A q \in Tasks : Equipped(q)'
      BY <1>4, <2>1, SynchronizeGives
    <3>2. event_buffer' = <<>> /\ is_synchronized' = TRUE /\ upto' = snapshot
      BY <1>4, <2>1 DEF Synchronize
    <3>3. event_buffer' \in Seq(Events) /\ Len(event_buffer') <= MaxBuffer
      BY <3>2, SyncAssumption
    <3> QED
      BY <3>1, <3>2, <3>3, <1>4 DEF Synchronize, BaseInv, TypeOK
  <2>2. CASE ~(snapshot # 0 /\ Accepted(Newer(event_buffer)))
    <3>1. task' = [task EXCEPT ![t] = Idle] /\ event_buffer' \in {event_buffer, <<>>}
      BY <1>4, <2>2 DEF Synchronize
    <3>5. /\ event_buffer \in Seq(Events) /\ Len(event_buffer) <= MaxBuffer
          /\ <<>> \in Seq(Events) /\ Len(<<>>) <= MaxBuffer
      BY SyncAssumption DEF BaseInv, TypeOK
    <3>2. event_buffer' \in Seq(Events) /\ Len(event_buffer') <= MaxBuffer
      BY <3>1, <3>5
    <3>3. task' \in [Tasks -> TaskState] /\ \A q \in Tasks : Equipped(q)'
      BY <3>1, Ended
    <3>4. is_synchronized' = is_synchronized /\ upto' = upto
      BY <1>4, <2>2 DEF Synchronize
    <3> QED
      BY <3>2, <3>3, <3>4, <1>4 DEF Synchronize, BaseInv, TypeOK
  <2> QED
    BY <2>1, <2>2
<1>5. CASE MarkValidated(t)
  <2>1. task' \in [Tasks -> TaskState] /\ \A q \in Tasks : Equipped(q)'
    BY <1>5, Went DEF MarkValidated
  <2>2. task[t].out \in Seq(Events) /\ task[t].out # <<>>
    BY <1>5 DEF MarkValidated, BaseInv, TypeOK, TaskState, Equipped
  <2>3. last_validated' \in 0 .. MaxId
    <3>1. Last(task[t].out) \in Events
      BY <2>2 DEF Last
    <3> QED
      BY <3>1, <1>5, EventIds DEF MarkValidated
  <2> QED
    BY <2>1, <2>3, <1>5 DEF MarkValidated, BaseInv, TypeOK
<1>6. CASE Process(t)
  <2>1. task[t].out \in Seq(Events) /\ task[t].out # <<>>
    BY <1>6, ProcessMoves
  <2>2. task' \in [Tasks -> TaskState] /\ \A q \in Tasks : Equipped(q)'
    BY <1>6, ProcessMoves
  <2>3. upto' \in 0 .. MaxId
    <3>1. Head(task[t].out) \in Events
      BY <2>1
    <3> QED
      BY <3>1, <1>6, EventIds DEF Process
  <2> QED
    BY <2>2, <2>3, <1>6 DEF Process, BaseInv, TypeOK
<1>7. CASE ValidateFlag(t)
  <2>1. PICK pc \in {"comparing", "rebuffering"} : Goto(t, pc) /\ task[t].pc # "idle"
    BY <1>7 DEF ValidateFlag
  <2> QED
    BY <2>1, <1>7, Went DEF ValidateFlag, BaseInv, TypeOK
<1>8. CASE ValidateCompare(t)
  <2>1. PICK pc \in {"advancing", "unmarking"} : Goto(t, pc) /\ task[t].pc # "idle"
    BY <1>8 DEF ValidateCompare
  <2> QED
    BY <2>1, <1>8, Went DEF ValidateCompare, BaseInv, TypeOK
<1>9. CASE ValidateGap(t)
  <2>1. task' \in [Tasks -> TaskState] /\ \A q \in Tasks : Equipped(q)'
    BY <1>9, Went DEF ValidateGap
  <2> QED
    BY <2>1, <1>9 DEF ValidateGap, BaseInv, TypeOK
<1>10. CASE ValidateAdvance(t)
  <2>1. task[t].event \in Events /\ task[t].pc # "idle"
    BY <1>10 DEF ValidateAdvance, BaseInv, Equipped
  <2>2. <<task[t].event>> \in Seq(Events) /\ <<task[t].event>> # <<>>
    BY <2>1
  <2>3. task' \in [Tasks -> TaskState] /\ \A q \in Tasks : Equipped(q)'
    BY <2>1, <2>2, <1>10, Given DEF ValidateAdvance
  <2>4. last_validated' \in 0 .. MaxId
    BY <2>1, <1>10, EventIds DEF ValidateAdvance
  <2> QED
    BY <2>3, <2>4, <1>10 DEF ValidateAdvance, BaseInv, TypeOK
<1> QED
  BY <1>1, <1>2, <1>3, <1>4, <1>5, <1>6, <1>7, <1>8, <1>9, <1>10 DEF Step

\* and every other, keeps the invariant.
LEMMA BaseStep == BaseInv /\ [Next]_vars => BaseInv'
<1> SUFFICES ASSUME BaseInv, [Next]_vars PROVE BaseInv'
  OBVIOUS
<1>1. CASE (\E id \in 1 .. MaxId : FetchDone(id)) \/ FetchFailed \/ Resubscribe
  BY <1>1, SnapshotBase
<1>2. ASSUME NEW t \in Tasks, Step(t) PROVE BaseInv'
  BY <1>2, StepBase
<1>3. CASE UNCHANGED vars
  BY <1>3 DEF vars, BaseInv, TypeOK, Equipped
<1> QED
  BY <1>1, <1>2, <1>3 DEF Next

\* Every variable keeps its type and the buffer its bound, for any number of
\* tasks: buffer_event drops the oldest event of a full buffer.
THEOREM TypeCorrect == Spec => []TypeOK
<1>1. BaseInv => TypeOK
  BY DEF BaseInv
<1> QED
  BY <1>1, BaseInit, BaseStep, PTL DEF Spec

-----------------------------------------------------------------------------
(* One task hands on an unbroken chain.                                    *)

Current == event_buffer = <<>> /\ last_validated = upto

\* What holds where the task is: synchronized, it holds nothing back and the last
\* id validated is the last handed on, except while it hands on events, which
\* continue each other and what was handed on before.
Chained(t) ==
    /\ task[t].pc \in {"idle", "routing"} => (is_synchronized => Current)
    /\ task[t].pc \in {"validating", "comparing", "advancing", "unmarking"} => is_synchronized /\ Current
    /\ task[t].pc \in {"buffering", "synchronizing", "rebuffering"} => ~is_synchronized
    /\ task[t].pc = "advancing" => task[t].event.prev \in {NoPrev, last_validated}
    /\ task[t].pc \in {"marking", "processing"} =>
         /\ is_synchronized /\ event_buffer = <<>>
         /\ Head(task[t].out).prev \in {NoPrev, upto} /\ ContinuousPairs(task[t].out)
    /\ task[t].pc = "processing" => last_validated = Last(task[t].out).final

\* No task has an event at the start.
LEMMA ChainInit == Init => \A t \in Tasks : Chained(t)
  BY DEF Init, Chained, Idle

\* A snapshot resets the chain.
LEMMA ChainSnapshot ==
    ASSUME BaseInv, NEW t \in Tasks, Chained(t),
           (\E id \in 1 .. MaxId : FetchDone(id)) \/ FetchFailed \/ Resubscribe
    PROVE  Chained(t)'
<1>1. CASE (\E id \in 1 .. MaxId : FetchDone(id)) \/ FetchFailed
  BY <1>1 DEF FetchDone, FetchFailed, Chained, Current
<1>2. CASE Resubscribe
  BY <1>2, IdleType DEF Resubscribe, Chained, Current
<1> QED
  BY <1>1, <1>2

\* A step of a task keeps the chains,
LEMMA ChainStep == ASSUME BaseInv, NEW t \in Tasks, Chained(t), Step(t) PROVE Chained(t)'
<1>1. ASSUME NEW e \in Events, Receive(t, e) PROVE Chained(t)'
  <2>1. task'[t].pc = "routing"
    BY <1>1, ReceiveMoves
  <2> QED
    BY <2>1, <1>1 DEF Receive, Chained, Current
<1>2. CASE Route(t)
  <2>1. PICK pc \in {"validating", "buffering"} :
          Goto(t, pc) /\ task[t].pc # "idle" /\ (pc = "validating" <=> is_synchronized)
    BY <1>2 DEF Route, BaseInv, TypeOK
  <2>2. task'[t].pc = pc
    BY <2>1, Went
  <2> QED
    BY <2>1, <2>2, <1>2 DEF Route, Chained, Current
<1>3. CASE BufferEvent(t)
  <2>1. task'[t].pc \in {"synchronizing", "idle"}
    <3>1. CASE task[t].pc = "buffering"
      BY <1>3, <3>1, Went DEF BufferEvent
    <3>2. CASE task[t].pc # "buffering"
      BY <1>3, <3>2, Ended, IdleType DEF BufferEvent
    <3> QED
      BY <3>1, <3>2
  <2>2. ~is_synchronized' 
    BY <1>3 DEF BufferEvent, Chained
  <2> QED
    BY <2>1, <2>2 DEF Chained
<1>4. CASE Synchronize(t)
  <2> DEFINE events == Newer(event_buffer)
  <2>1. CASE snapshot # 0 /\ Accepted(events)
    <3>1. /\ events \in Seq(Events) /\ events # <<>>
          /\ task'[t] = [pc |-> "marking", event |-> task[t].event, out |-> events]
      BY <1>4, <2>1, SynchronizeGives
    <3>2. event_buffer' = <<>> /\ is_synchronized' = TRUE /\ upto' = snapshot
      BY <1>4, <2>1 DEF Synchronize
    <3>3. events[1].prev \in {NoPrev, snapshot} /\ ContinuousPairs(events)
      BY <2>1 DEF Accepted, Continuous
    <3> HIDE DEF events
    <3>4. Head(events) = events[1]
      BY <3>1
    <3>5. Head(events).prev \in {NoPrev, upto'}
      BY <3>2, <3>3, <3>4
    <3>6. task'[t].pc = "marking" /\ task'[t].out = events
      BY <3>1
    <3>7. ContinuousPairs(task'[t].out)
      BY <3>3, <3>6
    <3> QED
      BY <3>2, <3>5, <3>6, <3>7 DEF Chained, ContinuousPairs
  <2>2. CASE ~(snapshot # 0 /\ Accepted(events))
    <3>1. task' = [task EXCEPT ![t] = Idle] /\ is_synchronized' = is_synchronized
      BY <1>4, <2>2 DEF Synchronize
    <3>2. task'[t].pc = "idle" /\ ~is_synchronized'
      BY <3>1, <1>4, Ended, IdleType DEF Synchronize, Chained
    <3> QED
      BY <3>2 DEF Chained
  <2> QED
    BY <2>1, <2>2
<1>5. CASE MarkValidated(t)
  <2>1. task'[t].pc = "processing" /\ task'[t].out = task[t].out
    BY <1>5, Went DEF MarkValidated
  <2> QED
    BY <2>1, <1>5 DEF MarkValidated, Chained, ContinuousPairs
<1>6. CASE Process(t)
  <2> DEFINE out == task[t].out
  <2>1. /\ out \in Seq(Events) /\ out # <<>>
        /\ Len(out) = 1 => task'[t] = Idle
        /\ Len(out) # 1 => task'[t] = [pc |-> "processing", event |-> task[t].event, out |-> Tail(out)]
    BY <1>6, ProcessMoves
  <2>2. /\ is_synchronized /\ event_buffer = <<>> /\ ContinuousPairs(out)
        /\ last_validated = Last(out).final
    BY <1>6 DEF Process, Chained
  <2>3. /\ upto' = Head(out).final
        /\ is_synchronized' = is_synchronized /\ event_buffer' = event_buffer
        /\ last_validated' = last_validated
    BY <1>6 DEF Process
  <2> HIDE DEF out
  <2>7. out \in Seq(Events) /\ out # <<>>
    BY <2>1
  <2>8. Len(out) \in Nat /\ Len(out) >= 1
    BY <2>7
  <2>4. Head(out) = out[1] /\ Last(out) = out[Len(out)]
    BY <2>7 DEF Last
  <2>5. CASE Len(out) = 1
    <3>1. last_validated' = upto' /\ task'[t].pc = "idle"
      BY <2>1, <2>2, <2>3, <2>4, <2>5, IdleType
    <3> QED
      BY <3>1, <2>2, <2>3 DEF Chained, Current
  <2>6. CASE Len(out) # 1
    <3> DEFINE rest == Tail(out)
    <3>10. Len(out) >= 2
      BY <2>7, <2>8, <2>6
    <3>1. rest \in Seq(Events) /\ Len(rest) = Len(out) - 1 /\ Len(rest) >= 1
      BY <2>7, <3>10
    <3>2. \A i \in 1 .. Len(rest) : rest[i] = out[i + 1]
      BY <2>7, <3>10
    <3>3. task'[t].pc = "processing" /\ task'[t].out = rest
      BY <2>1, <2>6
    <3> HIDE DEF rest
    <3>4. Head(rest) = out[2] /\ Last(rest) = out[Len(out)]
      BY <3>1, <3>2, <2>4 DEF Last
    <3>5. Head(rest).prev \in {NoPrev, upto'}
      <4>1. 2 \in 2 .. Len(out)
        BY <2>8, <3>10
      <4>2. out[2].prev \in {NoPrev, out[2 - 1].final}
        BY <4>1, <2>2 DEF ContinuousPairs
      <4> QED
        BY <4>2, <3>4, <2>3, <2>4
    <3>6. ContinuousPairs(rest)
      <4> SUFFICES ASSUME NEW i \in 2 .. Len(rest) PROVE rest[i].prev \in {NoPrev, rest[i - 1].final}
        BY DEF ContinuousPairs
      <4>1. i \in 1 .. Len(rest) /\ i - 1 \in 1 .. Len(rest) /\ i + 1 \in 2 .. Len(out)
        BY <3>1, <2>4
      <4>2. rest[i] = out[i + 1] /\ rest[i - 1] = out[i]
        BY <4>1, <3>2
      <4>3. out[i + 1].prev \in {NoPrev, out[(i + 1) - 1].final}
        BY <4>1, <2>2 DEF ContinuousPairs
      <4> QED
        BY <4>2, <4>3
    <3>7. last_validated' = Last(rest).final
      BY <2>2, <2>3, <2>4, <3>4
    <3>8. ContinuousPairs(task[t].out)'
      BY <3>3, <3>6 DEF ContinuousPairs
    <3>9. /\ is_synchronized' /\ event_buffer' = <<>>
          /\ Head(task'[t].out).prev \in {NoPrev, upto'}
          /\ last_validated' = Last(task'[t].out).final
      BY <2>2, <2>3, <3>3, <3>5, <3>7
    <3> QED
      BY <3>3, <3>8, <3>9 DEF Chained
  <2> QED
    BY <2>5, <2>6
<1>7. CASE ValidateFlag(t)
  <2>1. Goto(t, "comparing") /\ task[t].pc # "idle"
    BY <1>7 DEF ValidateFlag, Chained
  <2>2. task'[t].pc = "comparing"
    BY <2>1, Went
  <2> QED
    BY <2>2, <1>7 DEF ValidateFlag, Chained, Current
<1>8. CASE ValidateCompare(t)
  <2>1. PICK pc \in {"advancing", "unmarking"} :
          /\ Goto(t, pc) /\ task[t].pc # "idle"
          /\ pc = "advancing" => task[t].event.prev \in {NoPrev, last_validated}
    BY <1>8 DEF ValidateCompare
  <2>2. task'[t].pc = pc /\ task'[t].event = task[t].event
    BY <2>1, Went
  <2> QED
    BY <2>1, <2>2, <1>8 DEF ValidateCompare, Chained, Current
<1>9. CASE ValidateGap(t)
  <2>1. task'[t].pc = "rebuffering"
    BY <1>9, Went DEF ValidateGap
  <2> QED
    BY <2>1, <1>9 DEF ValidateGap, Chained
<1>10. CASE ValidateAdvance(t)
  <2> DEFINE event == task[t].event
  <2>1. event \in Events /\ task[t].pc # "idle"
    BY <1>10 DEF ValidateAdvance, BaseInv, Equipped
  <2>2. <<event>> \in Seq(Events) /\ <<event>> # <<>>
    BY <2>1
  <2>3. task'[t] = [pc |-> "processing", event |-> event, out |-> <<event>>]
    BY <2>1, <2>2, <1>10, Given DEF ValidateAdvance
  <2>4. is_synchronized /\ Current /\ event.prev \in {NoPrev, last_validated}
    BY <1>10 DEF ValidateAdvance, Chained
  <2>5. /\ last_validated' = event.final /\ upto' = upto
        /\ is_synchronized' = is_synchronized /\ event_buffer' = event_buffer
    BY <1>10 DEF ValidateAdvance
  <2> HIDE DEF event
  <2>6. Head(<<event>>) = event /\ Last(<<event>>) = event /\ Len(<<event>>) = 1
    BY DEF Last
  <2>7. ContinuousPairs(task[t].out)'
    BY <2>3, <2>6 DEF ContinuousPairs
  <2>8. /\ is_synchronized' /\ event_buffer' = <<>>
        /\ Head(task'[t].out).prev \in {NoPrev, upto'}
        /\ last_validated' = Last(task'[t].out).final
        /\ task'[t].pc = "processing"
    BY <2>3, <2>4, <2>5, <2>6 DEF Current
  <2> QED
    BY <2>7, <2>8 DEF Chained
<1> QED
  BY <1>1, <1>2, <1>3, <1>4, <1>5, <1>6, <1>7, <1>8, <1>9, <1>10 DEF Step

\* All messages of the symbol come through one task.
OneTask == \E t : Tasks = {t}

ChainInv == BaseInv /\ \A t \in Tasks : Chained(t)

\* and so does every step.
LEMMA ChainNext == ASSUME OneTask, ChainInv, [Next]_vars PROVE ChainInv'
<1>1. BaseInv'
  BY BaseStep DEF ChainInv
<1> SUFFICES ASSUME NEW t \in Tasks PROVE Chained(t)'
  BY <1>1 DEF ChainInv
<1>2. BaseInv /\ Chained(t) /\ Tasks = {t}
  BY DEF ChainInv, OneTask
<1>3. CASE (\E id \in 1 .. MaxId : FetchDone(id)) \/ FetchFailed \/ Resubscribe
  BY <1>2, <1>3, ChainSnapshot
<1>4. ASSUME NEW q \in Tasks, Step(q) PROVE Chained(t)'
  BY <1>2, <1>4, ChainStep
<1>5. CASE UNCHANGED vars
  BY <1>2, <1>5 DEF vars, Chained, Current, ContinuousPairs
<1> QED
  BY <1>3, <1>4, <1>5 DEF Next

\* With one task a synchronized book is current between two messages: nothing is
\* held back, and what was validated last is what was handed on last.  With more
\* tasks it is not true: each of the locks is taken and given up on its own.
THEOREM SynchronizedStaysCurrent == ASSUME OneTask PROVE Spec => []SynchronizedIsCurrent
<1>1. Init => ChainInv
  BY BaseInit, ChainInit DEF ChainInv
<1>2. ChainInv /\ [Next]_vars => ChainInv'
  BY ChainNext
<1>3. ChainInv => SynchronizedIsCurrent
  BY IdleType DEF ChainInv, Chained, Current, SynchronizedIsCurrent, OneTask
<1> QED
  BY <1>1, <1>2, <1>3, PTL DEF Spec

\* With one task every event that names its predecessor is handed on right after
\* that predecessor or the snapshot, through gaps, failed fetches, overflows of the
\* buffer and resubscriptions.
THEOREM ChainIsProcessed == ASSUME OneTask PROVE Spec => ProcessedChain
<1>1. Init => ChainInv
  BY BaseInit, ChainInit DEF ChainInv
<1>2. ChainInv /\ [Next]_vars => ChainInv'
  BY ChainNext
<1>3. ChainInv =>
        [\A t \in Tasks :
           task[t].pc = "processing" /\ task'[t] # task[t]
             => Head(task[t].out).prev \in {NoPrev, upto}]_vars
  BY DEF ChainInv, Chained
<1> QED
  BY <1>1, <1>2, <1>3, PTL DEF Spec, ProcessedChain
=============================================================================
