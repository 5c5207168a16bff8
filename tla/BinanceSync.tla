---------------------------- MODULE BinanceSync ----------------------------
(***************************************************************************)
(* BinanceOrderbookSynchronizer of feeder/src/crypto/feed/                 *)
(* binance_snapshot.rs and the order book path of process_binance_message  *)
(* in binance.rs: depth events are held back until they continue a REST    *)
(* snapshot, then each is checked against the one before.                  *)
(*                                                                         *)
(* Every field of the synchronizer has a lock of its own, so a websocket   *)
(* task may be interrupted between any two of them: one action per await.  *)
(* An event is [first, final, prev], its U, u and pu; a spot partial depth *)
(* event has none of the three and arrives as first = final = 0.           *)
(***************************************************************************)
EXTENDS Naturals, Sequences, SequencesExt

CONSTANTS
    Tasks,        \* websocket tasks whose messages are of this symbol
    Events,       \* bound: the events that may arrive
    MaxId,        \* bound: the greatest id in them and in snapshots
    MaxBuffer,    \* 10000
    NoPrev        \* an event without pu

Event == [first : 0 .. MaxId, final : 0 .. MaxId, prev : (0 .. MaxId) \cup {NoPrev}]

ASSUME SyncAssumption ==
    /\ MaxId \in Nat
    /\ MaxBuffer \in Nat \ {0}
    /\ NoPrev \notin 0 .. MaxId
    /\ Events \subseteq Event

VARIABLES
    fetching,          \* a fetch_snapshot is under way
    snapshot,          \* lastUpdateId of the snapshot, 0 when there is none
    event_buffer,
    is_synchronized,
    last_validated,    \* last_validated_update_id
    task,              \* where each task is, its event, what it is to process
    upto,              \* history: u of the last event processed, or the id of
                       \* the snapshot a synchronization started from
    gapped             \* history: a gap was found and no snapshot came since

vars == <<fetching, snapshot, event_buffer, is_synchronized, last_validated, task, upto, gapped>>

NoEvent == [first |-> 0, final |-> 0, prev |-> NoPrev]
Idle == [pc |-> "idle", event |-> NoEvent, out |-> <<>>]

\* subscribe: a new synchronizer, and a task that fetches its snapshot.
Init ==
    /\ fetching = TRUE
    /\ snapshot = 0
    /\ event_buffer = <<>>
    /\ is_synchronized = FALSE
    /\ last_validated = 0
    /\ task = [t \in Tasks |-> Idle]
    /\ upto = 0
    /\ gapped = FALSE

-----------------------------------------------------------------------------
(* The snapshot.                                                           *)

\* fetch_snapshot stores what it got; events may have arrived before.
FetchDone(id) ==
    /\ fetching
    /\ fetching' = FALSE
    /\ snapshot' = id
    /\ gapped' = FALSE
    /\ UNCHANGED <<event_buffer, is_synchronized, last_validated, task, upto>>

\* The last of its retries failed: there is no snapshot until a resubscription.
FetchFailed ==
    /\ fetching
    /\ fetching' = FALSE
    /\ UNCHANGED <<snapshot, event_buffer, is_synchronized, last_validated, task, upto, gapped>>

\* After the last connection has ended the feed connects and subscribes anew.  A
\* fetch still under way stores its snapshot in the synchronizer left behind.
Resubscribe ==
    /\ \A t \in Tasks : task[t] = Idle
    /\ fetching' = TRUE
    /\ snapshot' = 0
    /\ event_buffer' = <<>>
    /\ is_synchronized' = FALSE
    /\ last_validated' = 0
    /\ gapped' = FALSE
    /\ UNCHANGED <<task, upto>>

-----------------------------------------------------------------------------
(* A task handles one message after another.                               *)

Goto(t, pc) == task' = [task EXCEPT ![t].pc = pc]

Receive(t, e) ==
    /\ task[t].pc = "idle"
    /\ task' = [task EXCEPT ![t] = [pc |-> "routing", event |-> e, out |-> <<>>]]
    /\ UNCHANGED <<fetching, snapshot, event_buffer, is_synchronized, last_validated, upto, gapped>>

\* needs_sync.
Route(t) ==
    /\ task[t].pc = "routing"
    /\ Goto(t, IF is_synchronized THEN "validating" ELSE "buffering")
    /\ UNCHANGED <<fetching, snapshot, event_buffer, is_synchronized, last_validated, upto, gapped>>

\* synchronize keeps the buffer locked until it has set both fields.
BufferFree == \A q \in Tasks : task[q].pc # "marking"

\* A buffer that grows without end.
BufferUnbounded(t) ==
    /\ task[t].pc \in {"buffering", "rebuffering"}
    /\ BufferFree
    /\ event_buffer' = Append(event_buffer, task[t].event)
    /\ IF task[t].pc = "buffering" THEN Goto(t, "synchronizing") ELSE task' = [task EXCEPT ![t] = Idle]
    /\ UNCHANGED <<fetching, snapshot, is_synchronized, last_validated, upto, gapped>>

\* buffer_event: a full buffer loses its oldest event.  Before a
\* synchronization it is followed by an attempt at one; after a failed
\* validation it ends the message.
BufferEvent(t) ==
    /\ task[t].pc \in {"buffering", "rebuffering"}
    /\ BufferFree
    /\ event_buffer' = Append(IF Len(event_buffer) >= MaxBuffer THEN Tail(event_buffer) ELSE event_buffer,
                              task[t].event)
    /\ IF task[t].pc = "buffering" THEN Goto(t, "synchronizing") ELSE task' = [task EXCEPT ![t] = Idle]
    /\ UNCHANGED <<fetching, snapshot, is_synchronized, last_validated, upto, gapped>>

\* Step 1 of synchronize: the events beyond the snapshot.
Newer(buffer) ==
    LET kept[n \in 0 .. Len(buffer)] ==
          IF n = 0 THEN <<>>
          ELSE IF buffer[n].final > snapshot THEN Append(kept[n - 1], buffer[n]) ELSE kept[n - 1]
    IN  kept[Len(buffer)]

\* Step 2: the first of them overlaps the snapshot.
Overlaps(events) == events[1].first <= snapshot /\ events[1].final >= snapshot

\* Step 3: every event that names its predecessor follows it, the first one
\* the snapshot.
ContinuousPairs(events) ==
    \A i \in 2 .. Len(events) : events[i].prev \in {NoPrev, events[i - 1].final}

Continuous(events) ==
    events[1].prev \in {NoPrev, snapshot} /\ ContinuousPairs(events)

Accepted(events) == events # <<>> /\ Overlaps(events) /\ Continuous(events)

\* synchronize fails without a snapshot and keeps the buffer; it fails and
\* drops the buffer when the three steps do; or all of the buffer goes on.
Synchronize(t) ==
    /\ task[t].pc = "synchronizing"
    /\ BufferFree
    /\ LET events == Newer(event_buffer)
       IN  IF snapshot # 0 /\ Accepted(events)
           THEN /\ event_buffer' = <<>>
                /\ is_synchronized' = TRUE
                /\ upto' = snapshot
                /\ task' = [task EXCEPT ![t].pc = "marking", ![t].out = events]
           ELSE /\ event_buffer' = IF snapshot = 0 THEN event_buffer ELSE <<>>
                /\ task' = [task EXCEPT ![t] = Idle]
                /\ UNCHANGED <<is_synchronized, upto>>
    /\ UNCHANGED <<fetching, snapshot, last_validated, gapped>>

\* A defect: the id the synchronization ended with is not written.
MarkNothing(t) ==
    /\ task[t].pc = "marking"
    /\ Goto(t, "processing")
    /\ UNCHANGED <<fetching, snapshot, event_buffer, is_synchronized, last_validated, upto, gapped>>

\* synchronize writes last_validated_update_id after is_synchronized.
MarkValidated(t) ==
    /\ task[t].pc = "marking"
    /\ last_validated' = Last(task[t].out).final
    /\ Goto(t, "processing")
    /\ UNCHANGED <<fetching, snapshot, event_buffer, is_synchronized, upto, gapped>>

\* A task without the first of its events; after the last it is idle.
WithoutFirst(state) ==
    IF Len(state.out) = 1 THEN Idle ELSE [state EXCEPT !.out = Tail(state.out)]

\* process_binance_orderbook_data: the events go on to the books.
Process(t) ==
    /\ task[t].pc = "processing"
    /\ upto' = Head(task[t].out).final
    /\ task' = [task EXCEPT ![t] = WithoutFirst(@)]
    /\ UNCHANGED <<fetching, snapshot, event_buffer, is_synchronized, last_validated, gapped>>

\* validate_event looks at is_synchronized again.
ValidateFlag(t) ==
    /\ task[t].pc = "validating"
    /\ Goto(t, IF is_synchronized THEN "comparing" ELSE "rebuffering")
    /\ UNCHANGED <<fetching, snapshot, event_buffer, is_synchronized, last_validated, upto, gapped>>

\* It compares pu with the last validated id.
ValidateCompare(t) ==
    /\ task[t].pc = "comparing"
    /\ Goto(t, IF task[t].event.prev \in {NoPrev, last_validated} THEN "advancing" ELSE "unmarking")
    /\ UNCHANGED <<fetching, snapshot, event_buffer, is_synchronized, last_validated, upto, gapped>>

\* A gap: marked as not synchronized, and the event is buffered.
ValidateGap(t) ==
    /\ task[t].pc = "unmarking"
    /\ is_synchronized' = FALSE
    /\ gapped' = TRUE
    /\ Goto(t, "rebuffering")
    /\ UNCHANGED <<fetching, snapshot, event_buffer, last_validated, upto>>

\* No gap: the id is written and the event is processed.
ValidateAdvance(t) ==
    /\ task[t].pc = "advancing"
    /\ last_validated' = task[t].event.final
    /\ task' = [task EXCEPT ![t].pc = "processing", ![t].out = <<task[t].event>>]
    /\ UNCHANGED <<fetching, snapshot, event_buffer, is_synchronized, upto, gapped>>

Step(t) ==
    \/ \E e \in Events : Receive(t, e)
    \/ Route(t) \/ BufferEvent(t) \/ Synchronize(t) \/ MarkValidated(t) \/ Process(t)
    \/ ValidateFlag(t) \/ ValidateCompare(t) \/ ValidateGap(t) \/ ValidateAdvance(t)

Next ==
    \/ \E id \in 1 .. MaxId : FetchDone(id)
    \/ FetchFailed
    \/ Resubscribe
    \/ \E t \in Tasks : Step(t)

Spec == Init /\ [][Next]_vars

-----------------------------------------------------------------------------
(* Properties.                                                             *)

TaskState ==
    [pc : {"idle", "routing", "buffering", "synchronizing", "marking", "processing",
           "validating", "comparing", "unmarking", "rebuffering", "advancing"},
     event : Events \cup {NoEvent}, out : Seq(Events)]

\* Every variable has its type; the buffer keeps its bound.
TypeOK ==
    /\ fetching \in BOOLEAN
    /\ snapshot \in 0 .. MaxId
    /\ event_buffer \in Seq(Events) /\ Len(event_buffer) <= MaxBuffer
    /\ is_synchronized \in BOOLEAN
    /\ last_validated \in 0 .. MaxId
    /\ task \in [Tasks -> TaskState]
    /\ upto \in 0 .. MaxId
    /\ gapped \in BOOLEAN

\* An event that names its predecessor reaches the books only right after that
\* predecessor, or after the snapshot: across buffering, synchronization and
\* validation, through gaps, failed fetches and resubscriptions, none is
\* skipped, repeated or reordered on the way.
ProcessedChain ==
    [][\A t \in Tasks :
          task[t].pc = "processing" /\ task'[t] # task[t]
              => Head(task[t].out).prev \in {NoPrev, upto}]_vars

\* Between two messages a synchronized task has nothing held back, and what was
\* validated last is what the books were given last.
SynchronizedIsCurrent ==
    is_synchronized /\ (\A t \in Tasks : task[t] = Idle)
        => event_buffer = <<>> /\ last_validated = upto

\* The procedure in the comment of synchronize accepts these events: the first
\* overlaps the snapshot, each later one names the one before.
ByTheBook(events) == events # <<>> /\ Overlaps(events) /\ ContinuousPairs(events)

\* What the procedure accepts, synchronize accepts.
FollowsProcedure ==
    \A t \in Tasks :
        task[t].pc = "synchronizing" /\ snapshot # 0 /\ ByTheBook(Newer(event_buffer))
            => Continuous(Newer(event_buffer))

\* A gap triggers a resynchronization: once its message is dealt with, a new
\* snapshot is being fetched.
GapRefetches == gapped /\ (\A t \in Tasks : task[t] = Idle) => fetching

=============================================================================
