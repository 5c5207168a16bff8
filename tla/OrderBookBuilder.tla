-------------------------- MODULE OrderBookBuilder --------------------------
(***************************************************************************)
(* OrderBookBuilder of matching-engine/src/orderbook_builder.rs: the state *)
(* machine that keeps the book of one symbol from a stream of snapshots    *)
(* and incremental updates, with the channel it reads and the channel it   *)
(* publishes on (both bounded, made by OrderBookManager).                  *)
(*                                                                         *)
(* An update is [snapshot, first, id]; first = 0 when the exchange sends   *)
(* no range.  What a book holds is the set of exchange events it reflects: *)
(* a snapshot of id n reflects 1 .. n, an incremental update adds its own. *)
(* Statistics and the clock are left out: a timeout may fire whenever the  *)
(* code is at a point where it is looked at.                               *)
(***************************************************************************)
EXTENDS Naturals, Sequences

CONSTANTS
    Messages,              \* bound: the updates that may arrive
    MaxId,                 \* bound: the greatest id among them
    UpdateCapacity,        \* of the channel of updates: 1000
    SnapshotCapacity,      \* of the channel of built books: 10
    MAX_BUFFER_SIZE,
    DrainSize,             \* updates dropped when the buffer is full: 100
    MAX_RESYNC_ATTEMPTS,
    PublishEvery           \* updates between two published books: 100

Update == [snapshot : BOOLEAN, first : 0 .. MaxId, id : 1 .. MaxId]

ASSUME BuilderAssumption ==
    /\ MaxId \in Nat
    /\ Messages \subseteq {u \in Update : u.first <= u.id}
    /\ UpdateCapacity \in Nat \ {0}
    /\ SnapshotCapacity \in Nat \ {0}
    /\ MAX_BUFFER_SIZE \in Nat \ {0}
    /\ DrainSize \in 1 .. MAX_BUFFER_SIZE
    /\ MAX_RESYNC_ATTEMPTS \in Nat \ {0}
    /\ PublishEvery \in Nat \ {0}

VARIABLES
    updates,    \* the channel of updates
    open,       \* whether somebody still holds its sender
    state,      \* OrderBookState
    book,       \* last_update_id and the events reflected
    built       \* the channel of built books

vars == <<updates, open, state, book, built>>

StateOf(pc, buffer, attempt, last_seq, since_sync) ==
    [pc |-> pc, buffer |-> buffer, attempt |-> attempt, last_seq |-> last_seq, since_sync |-> since_sync]

Buffering(buffer) == StateOf("buffering", buffer, 0, 0, 0)
FetchingSnapshot(buffer) == StateOf("fetching", buffer, 1, 0, 0)
Resyncing == StateOf("resyncing", <<>>, 1, 0, 0)
Live(seq, n) == StateOf("live", <<>>, 0, seq, n)
ErrorState == StateOf("error", <<>>, 0, 0, 0)

\* run, just after it has left Uninitialized.
Init ==
    /\ updates = <<>>
    /\ open = TRUE
    /\ state = Buffering(<<>>)
    /\ book = [last_update_id |-> 0, events |-> {}]
    /\ built = <<>>

-----------------------------------------------------------------------------
(* The feed and the forwarder, at the far ends of the two channels.        *)

\* send_update and try_send_update: a full channel makes the one wait and the
\* other drop the update.  Updates may be lost, repeated or out of order on the
\* way: any of them may be the next one.
Send(u) ==
    /\ open
    /\ Len(updates) < UpdateCapacity
    /\ updates' = Append(updates, u)
    /\ UNCHANGED <<open, state, book, built>>

\* The manager keeps the sender in its map of builders, until the handle of a
\* second creator of the same builder replaces it.
Close ==
    /\ open
    /\ open' = FALSE
    /\ UNCHANGED <<updates, state, book, built>>

\* The forwarder of get_or_create_builder takes a built book.
Forward ==
    /\ built # <<>>
    /\ built' = Tail(built)
    /\ UNCHANGED <<updates, open, state, book>>

-----------------------------------------------------------------------------
(* run: one action per iteration of its loop and way through it.           *)

\* recv on a closed, empty channel: the loop ends.
Closed ==
    /\ state.pc \in {"buffering", "live"}
    /\ ~open
    /\ updates = <<>>
    /\ state' = [state EXCEPT !.pc = "ended"]
    /\ UNCHANGED <<updates, open, book, built>>

\* SNAPSHOT_TIMEOUT has passed since buffering began: the buffer is given up.
BufferingTimeout ==
    /\ state.pc = "buffering"
    /\ state' = Resyncing
    /\ UNCHANGED <<updates, open, book, built>>

\* A defect of the buffering: nothing makes room.
ReceiveUnbounded ==
    /\ state.pc = "buffering"
    /\ updates # <<>>
    /\ LET buffer == Append(state.buffer, Head(updates))
       IN  state' = IF Len(buffer) = 1 /\ Head(updates).snapshot THEN FetchingSnapshot(buffer)
                    ELSE [state EXCEPT !.buffer = buffer]
    /\ updates' = Tail(updates)
    /\ UNCHANGED <<open, book, built>>

\* handle_buffering_update: the oldest updates make room when the buffer is
\* full; a snapshot that is alone in the buffer is used at once.
ReceiveBuffering ==
    /\ state.pc = "buffering"
    /\ updates # <<>>
    /\ LET u == Head(updates)
           kept == IF Len(state.buffer) >= MAX_BUFFER_SIZE
                   THEN SubSeq(state.buffer, DrainSize + 1, Len(state.buffer))
                   ELSE state.buffer
           buffer == Append(kept, u)
       IN  state' = IF Len(buffer) = 1 /\ u.snapshot THEN FetchingSnapshot(buffer)
                    ELSE [state EXCEPT !.buffer = buffer]
    /\ updates' = Tail(updates)
    /\ UNCHANGED <<open, book, built>>

\* Nothing arrived for 100 ms while updates are buffered.
BufferingQuiet ==
    /\ state.pc = "buffering"
    /\ updates = <<>>
    /\ open
    /\ state.buffer # <<>>
    /\ state' = FetchingSnapshot(state.buffer)
    /\ UNCHANGED <<updates, open, book, built>>

\* A snapshot that is merged into what the book held.
AppliedMerged(u) ==
    [last_update_id |-> u.id,
     events |-> book.events \cup (IF u.snapshot THEN 1 .. u.id
                                  ELSE IF u.first = 0 THEN {u.id} ELSE u.first .. u.id)]

\* apply_update.
Applied(u) ==
    [last_update_id |-> u.id,
     events |-> IF u.snapshot THEN 1 .. u.id
                ELSE book.events \cup (IF u.first = 0 THEN {u.id} ELSE u.first .. u.id)]

\* The first buffered update stands in for the REST snapshot; the rest of the
\* buffer is dropped.  If it is no snapshot, the state stays as it is.
Fetch ==
    /\ state.pc = "fetching"
    /\ LET u == Head(state.buffer)
       IN  IF state.attempt > MAX_RESYNC_ATTEMPTS THEN state' = ErrorState /\ book' = book
           ELSE IF u.snapshot THEN state' = Live(u.id, 1) /\ book' = Applied(u)
           ELSE UNCHANGED <<state, book>>
    /\ UNCHANGED <<updates, open, built>>

\* A check that refuses only what is old.
GapStaleOnly(u) == ~u.snapshot /\ u.id <= state.last_seq

\* The sequence check of the live state.
Gap(u) ==
    /\ ~u.snapshot
    /\ u.id # state.last_seq + 1
    /\ u.first > 0 => u.first # state.last_seq + 1

\* An update with a gap before it is dropped and a resync begins.
LiveGap ==
    /\ state.pc = "live"
    /\ updates # <<>>
    /\ Gap(Head(updates))
    /\ updates' = Tail(updates)
    /\ state' = Resyncing
    /\ UNCHANGED <<open, book, built>>

\* Any other is applied, and every so often the book is to be published.
LiveUpdate ==
    /\ state.pc = "live"
    /\ updates # <<>>
    /\ ~Gap(Head(updates))
    /\ updates' = Tail(updates)
    /\ book' = Applied(Head(updates))
    /\ state' = [Live(Head(updates).id, (state.since_sync + 1) % PublishEvery)
                    EXCEPT !.pc = IF state.since_sync % PublishEvery = 0 THEN "sending" ELSE "live"]
    /\ UNCHANGED <<open, built>>

\* The send of the book waits for room, the state lock held.
Publish ==
    /\ state.pc = "sending"
    /\ Len(built) < SnapshotCapacity
    /\ built' = Append(built, book)
    /\ state' = [state EXCEPT !.pc = "live"]
    /\ UNCHANGED <<updates, open, book>>

\* A defect of the resync: it does not return to buffering.
ResyncForever ==
    /\ state.pc = "resyncing"
    /\ UNCHANGED vars

\* The backoff ends; attempt is 1 whenever this state is entered.
Resync ==
    /\ state.pc = "resyncing"
    /\ state' = IF state.attempt > MAX_RESYNC_ATTEMPTS THEN ErrorState ELSE Buffering(<<>>)
    /\ UNCHANGED <<updates, open, book, built>>

Run ==
    \/ Closed \/ BufferingTimeout \/ ReceiveBuffering \/ BufferingQuiet
    \/ Fetch \/ LiveGap \/ LiveUpdate \/ Publish \/ Resync

Next == (\E u \in Messages : Send(u)) \/ Close \/ Forward \/ Run

Spec == Init /\ [][Next]_vars

(* The task of run and the forwarder are scheduled again and again.  A     *)
(* buffering timeout needs 30 seconds of buffering, in which run receives  *)
(* whatever the channel holds.                                             *)
FairSpec == Spec /\ WF_vars(Run) /\ SF_vars(ReceiveBuffering) /\ WF_vars(Forward)

-----------------------------------------------------------------------------
(* Properties.                                                             *)

States == {"buffering", "fetching", "live", "sending", "resyncing", "error", "ended"}
Books == [last_update_id : 0 .. MaxId, events : SUBSET (1 .. MaxId)]

\* Every variable has its type; buffer and channels stay within their bounds.
TypeOK ==
    /\ updates \in Seq(Messages) /\ Len(updates) <= UpdateCapacity
    /\ open \in BOOLEAN
    /\ state \in [pc : States, buffer : Seq(Messages), attempt : 0 .. 1,
                  last_seq : 0 .. MaxId, since_sync : Nat]
    /\ Len(state.buffer) <= MAX_BUFFER_SIZE
    /\ book \in Books
    /\ built \in Seq(Books) /\ Len(built) <= SnapshotCapacity

\* Whatever was lost, repeated or reordered on the way, a live book reflects
\* exactly the exchange's events up to its sequence number: updates with a hole
\* before them never reach it, and a resync leaves nothing behind.
LiveMirrors ==
    state.pc \in {"live", "sending"} =>
        /\ book.last_update_id = state.last_seq
        /\ book.events = 1 .. state.last_seq

\* So does every book on its way to the receivers.
PublishedMirrors ==
    \A i \in 1 .. Len(built) : built[i].events = 1 .. built[i].last_update_id

\* The builder waits for a REST snapshot no code fetches.
Stuck == state.pc = "fetching" /\ ~Head(state.buffer).snapshot

\* A full channel of updates is drained, through resyncs and slow receivers,
\* unless the builder is stuck or has ended.
Drains ==
    (Len(updates) = UpdateCapacity)
        ~> (Len(updates) < UpdateCapacity \/ Stuck \/ state.pc \in {"ended", "error"})

\* Fetching a snapshot ends, with a book or by giving up.
FetchEnds == (state.pc = "fetching") ~> (state.pc # "fetching")

=============================================================================
