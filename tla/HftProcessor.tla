---------------------------- MODULE HftProcessor ----------------------------
(***************************************************************************)
(* HFTOrderBookProcessor of matching-engine/src/hft_orderbook.rs and its   *)
(* use through feeder/src/core/hft_integration.rs: feeds convert their     *)
(* updates and push them to the ring of their exchange, one thread pops    *)
(* every ring in turn, in batches, and applies each batch to the books     *)
(* under one write lock; readers copy a book under the read lock.          *)
(*                                                                         *)
(* A ring is a bounded FIFO queue here: RingBufferProofs proves that the   *)
(* array with its two indices implements one when a single thread pushes.  *)
(* Prices and quantities are integers in units finer than a tick and finer *)
(* than the 1e-8 of a stored quantity, so the conversion's truncation is   *)
(* an integer division.                                                    *)
(***************************************************************************)
EXTENDS FastOrderBook, FiniteSets

CONSTANTS
    Feeds,          \* sources of updates: a market of an exchange
    Readers,        \* the feeds whose book somebody reads
    RingOf,         \* [Feeds -> Rings]: get_ring_buffer of the feed's exchange
    RegisteredAs,   \* [Feeds -> names]: the name its symbol is registered under
    LookedUpAs,     \* [Feeds -> names]: the name convert_update looks up
    Rings,          \* number of rings, polled in the order 1 .. Rings
    Capacity,       \* RING_BUFFER_SIZE - 1
    BATCH_SIZE,
    MAX_SYMBOLS,
    UPDATE_LEVELS,  \* levels per side that fit a FastUpdate: 10
    TickSize,       \* price units per tick
    LotSize,        \* quantity units per 1e-8
    Ids,            \* bound: the update ids that occur
    Payloads        \* bound: the [bids, asks] of incoming updates

ASSUME ProcessorAssumption ==
    /\ Readers \subseteq Feeds
    /\ Rings \in Nat \ {0}
    /\ RingOf \in [Feeds -> 1 .. Rings]
    /\ Capacity \in Nat \ {0}
    /\ BATCH_SIZE \in Nat \ {0}
    /\ MAX_SYMBOLS \in Nat \ {0}
    /\ UPDATE_LEVELS \in Nat
    /\ TickSize \in Nat \ {0}
    /\ LotSize \in Nat \ {0}
    /\ Ids \subseteq Nat

RawLevel == [price : Nat, quantity : Nat]

ASSUME PayloadAssumption == Payloads \subseteq [bids : Seq(RawLevel), asks : Seq(RawLevel)]

VARIABLES
    registered,   \* id_to_symbol: the names in the order of their ids
    panicked,     \* register_symbol ran off tick_sizes: its caller is dead and
                  \* the lock of the processor poisoned
    rings,        \* the updates in each ring, oldest first
    batch,        \* the batch array of the processing thread
    cons,         \* where the processing thread is
    books,        \* the order books, by symbol id
    view,         \* view[f]: what get_orderbook returned last for f's symbol
    newest        \* newest[f]: the greatest id that push accepted from f (history)

vars == <<registered, panicked, rings, batch, cons, books, view, newest>>

SymbolIds == 0 .. MAX_SYMBOLS - 1
FastUpdate == [symbol_id : Nat, update_id : Nat, bids : Seq(Level), asks : Seq(Level)]
NoUpdate == [symbol_id |-> 0, update_id |-> 0, bids |-> <<>>, asks |-> <<>>]
NoView == [last_update_id |-> 0, bid |-> <<>>, ask |-> <<>>]

\* symbol_to_id: a name's id, and whether it has one.
Registered(name) == \E k \in 1 .. Len(registered) : registered[k] = name
IdOf(name) == (CHOOSE k \in 1 .. Len(registered) : registered[k] = name) - 1

Init ==
    /\ registered = <<>>
    /\ panicked = FALSE
    /\ rings = [r \in 1 .. Rings |-> <<>>]
    /\ batch = [i \in 1 .. BATCH_SIZE |-> NoUpdate]
    /\ cons = [pc |-> "collect", ring |-> 1, slot |-> 1, count |-> 0, applied |-> 0]
    /\ books = [s \in SymbolIds |-> NewBook]
    /\ view = [f \in Readers |-> NoView]
    /\ newest = [f \in Feeds |-> 0]

-----------------------------------------------------------------------------
(* The feeds.                                                              *)

\* A defect of the registration: the name beyond the last slot is taken too.
RegisterUnchecked(f) ==
    /\ ~panicked
    /\ ~Registered(RegisteredAs[f])
    /\ registered' = Append(registered, RegisteredAs[f])
    /\ UNCHANGED <<panicked, rings, batch, cons, books, view, newest>>

\* register_symbol, under the processor's write lock.  The name goes in before
\* tick_sizes is indexed, which panics for an id of MAX_SYMBOLS.
Register(f) ==
    /\ ~panicked
    /\ ~Registered(RegisteredAs[f])
    /\ registered' = Append(registered, RegisteredAs[f])
    /\ panicked' = (Len(registered) >= MAX_SYMBOLS)
    /\ UNCHANGED <<rings, batch, cons, books, view, newest>>

\* convert_update: the first UPDATE_LEVELS levels of a side, in ticks and lots.
ConvertSide(levels) ==
    [i \in 1 .. (IF Len(levels) < UPDATE_LEVELS THEN Len(levels) ELSE UPDATE_LEVELS) |->
        [price |-> levels[i].price \div TickSize, qty |-> levels[i].quantity \div LotSize]]

Convert(f, id, payload) ==
    [symbol_id |-> IdOf(LookedUpAs[f]), update_id |-> id,
     bids |-> ConvertSide(payload.bids), asks |-> ConvertSide(payload.asks)]

\* A push that does not look whether the ring is full.
PushUnchecked(f, id, payload) ==
    /\ ~panicked
    /\ Registered(LookedUpAs[f])
    /\ rings' = [rings EXCEPT ![RingOf[f]] = Append(@, Convert(f, id, payload))]
    /\ newest' = [newest EXCEPT ![f] = IF id > @ THEN id ELSE @]
    /\ UNCHANGED <<registered, panicked, batch, cons, books, view>>

\* process_orderbook_update: an unregistered symbol or a full ring drops it.
Push(f, id, payload) ==
    /\ ~panicked
    /\ Registered(LookedUpAs[f])
    /\ Len(rings[RingOf[f]]) < Capacity
    /\ rings' = [rings EXCEPT ![RingOf[f]] = Append(@, Convert(f, id, payload))]
    /\ newest' = [newest EXCEPT ![f] = IF id > @ THEN id ELSE @]
    /\ UNCHANGED <<registered, panicked, batch, cons, books, view>>

\* get_orderbook: copies the book under the read lock, hence never while the
\* processing thread holds the write lock.
Snapshot(s) == [last_update_id |-> books[s].last_update_id, bid |-> books[s].bid, ask |-> books[s].ask]

Locked == cons.pc \in {"check", "levels"}

\* A read that takes no lock.
ReadUnlocked(f) ==
    /\ ~panicked
    /\ Registered(LookedUpAs[f])
    /\ view' = [view EXCEPT ![f] = Snapshot(IdOf(LookedUpAs[f]))]
    /\ UNCHANGED <<registered, panicked, rings, batch, cons, books, newest>>

Read(f) ==
    /\ ~panicked
    /\ Registered(LookedUpAs[f])
    /\ ~Locked
    /\ view' = [view EXCEPT ![f] = Snapshot(IdOf(LookedUpAs[f]))]
    /\ UNCHANGED <<registered, panicked, rings, batch, cons, books, newest>>

-----------------------------------------------------------------------------
(* The processing thread: process_ring_batched for each ring in turn.      *)

NextRing(r) == IF r = Rings THEN 1 ELSE r + 1

StartRing(r) == [pc |-> "collect", ring |-> r, slot |-> 1, count |-> 0, applied |-> 0]

\* The collection of a batch ends with count updates in it: without any the
\* next ring is polled, otherwise the write lock is taken.
Collected(count) ==
    IF count = 0 THEN StartRing(NextRing(cons.ring))
    ELSE [cons EXCEPT !.pc = "check", !.slot = 1, !.count = count]

\* A collection that drops what it popped last when the batch is full.
CollectOverfull ==
    /\ cons.pc = "collect"
    /\ rings[cons.ring] # <<>>
    /\ LET u == Head(rings[cons.ring])
       IN  /\ batch' = [batch EXCEPT ![cons.slot] = u]
           /\ cons' = IF cons.slot = BATCH_SIZE
                      THEN Collected(cons.count)
                      ELSE [cons EXCEPT !.slot = @ + 1, !.count = @ + 1]
    /\ rings' = [rings EXCEPT ![cons.ring] = Tail(@)]
    /\ UNCHANGED <<registered, panicked, books, view, newest>>

\* One slot of the batch is filled.  An update of no symbol leaves its slot
\* empty and is not counted.
Collect ==
    /\ cons.pc = "collect"
    /\ rings[cons.ring] # <<>>
    /\ LET u == Head(rings[cons.ring])
           valid == u.symbol_id < MAX_SYMBOLS
           count == IF valid THEN cons.count + 1 ELSE cons.count
       IN  /\ batch' = [batch EXCEPT ![cons.slot] = IF valid THEN u ELSE NoUpdate]
           /\ cons' = IF cons.slot = BATCH_SIZE
                      THEN Collected(count)
                      ELSE [cons EXCEPT !.slot = @ + 1, !.count = count]
    /\ rings' = [rings EXCEPT ![cons.ring] = Tail(@)]
    /\ UNCHANGED <<registered, panicked, books, view, newest>>

\* The ring is empty: the slot is cleared and the collection ends.
CollectEnd ==
    /\ cons.pc = "collect"
    /\ rings[cons.ring] = <<>>
    /\ batch' = [batch EXCEPT ![cons.slot] = NoUpdate]
    /\ cons' = Collected(cons.count)
    /\ UNCHANGED <<registered, panicked, rings, books, view, newest>>

Current == batch[cons.slot]

\* The changes of an update in the order apply_update makes them.
SideChanges(side, levels) ==
    [i \in 1 .. Len(levels) |-> [side |-> side, price |-> levels[i].price, qty |-> levels[i].qty]]

Changes(u) == SideChanges("bid", u.bids) \o SideChanges("ask", u.asks)

\* A polling order that returns to the ring whose batch was full.
DoneWithGreedy ==
    IF cons.slot = cons.count
    THEN StartRing(IF cons.count = BATCH_SIZE THEN cons.ring ELSE NextRing(cons.ring))
    ELSE [cons EXCEPT !.pc = "check", !.slot = @ + 1, !.applied = 0]

\* The current update is dealt with: the next of the batch, or the write lock
\* is released and the next ring is polled.
DoneWith ==
    IF cons.slot = cons.count
    THEN StartRing(NextRing(cons.ring))
    ELSE [cons EXCEPT !.pc = "check", !.slot = @ + 1, !.applied = 0]

\* apply_update is entered: an update that is not newer than its book, or an
\* empty slot, is skipped.
CheckUpdate ==
    /\ cons.pc = "check"
    /\ cons' = IF Current = NoUpdate
                   \/ Current.update_id <= books[Current.symbol_id].last_update_id
               THEN DoneWith
               ELSE [cons EXCEPT !.pc = "levels", !.applied = 0]
    /\ UNCHANGED <<registered, panicked, rings, batch, books, view, newest>>

\* One iteration of its loops over the bids, then over the asks.
ApplyChange ==
    /\ cons.pc = "levels"
    /\ cons.applied < Len(Changes(Current))
    /\ LET c == Changes(Current)[cons.applied + 1]
       IN  books' = [books EXCEPT ![Current.symbol_id][c.side] =
                        ApplyLevel(c.side, @, [price |-> c.price, qty |-> c.qty])]
    /\ cons' = [cons EXCEPT !.applied = @ + 1]
    /\ UNCHANGED <<registered, panicked, rings, batch, view, newest>>

\* The id and the counter are written last.
FinishUpdate ==
    /\ cons.pc = "levels"
    /\ cons.applied = Len(Changes(Current))
    /\ books' = [books EXCEPT ![Current.symbol_id].last_update_id = Current.update_id,
                              ![Current.symbol_id].update_count = @ + 1]
    /\ cons' = DoneWith
    /\ UNCHANGED <<registered, panicked, rings, batch, view, newest>>

Process == Collect \/ CollectEnd \/ CheckUpdate \/ ApplyChange \/ FinishUpdate

Next ==
    \/ \E f \in Feeds :
        \/ Register(f)
        \/ \E id \in Ids, payload \in Payloads : Push(f, id, payload)
    \/ \E f \in Readers : Read(f)
    \/ Process

Spec == Init /\ [][Next]_vars

(* The processing thread loops for ever; no feed and no reader has to act. *)
FairSpec == Spec /\ WF_vars(Process)

-----------------------------------------------------------------------------
(* Properties.                                                             *)

Book == [bid : Seq(Level), ask : Seq(Level), last_update_id : Nat, update_count : Nat]

\* Every variable has its type; a ring never holds more than its capacity.
TypeOK ==
    /\ registered \in Seq({RegisteredAs[f] : f \in Feeds})
    /\ panicked \in BOOLEAN
    /\ rings \in [1 .. Rings -> Seq(FastUpdate)]
    /\ \A r \in 1 .. Rings : Len(rings[r]) <= Capacity
    /\ batch \in [1 .. BATCH_SIZE -> FastUpdate]
    /\ cons \in [pc : {"collect", "check", "levels"}, ring : 1 .. Rings,
                 slot : 1 .. BATCH_SIZE, count : 0 .. BATCH_SIZE, applied : Nat]
    /\ books \in [SymbolIds -> Book]
    /\ view \in [Readers -> [last_update_id : Nat, bid : Seq(Level), ask : Seq(Level)]]
    /\ newest \in [Feeds -> Nat]

\* Whatever stream of updates arrives, both sides of every book stay strictly
\* sorted, within MAX_DEPTH, without a price twice and without an empty level:
\* the scans of update_bid/update_ask stop at the first level that is not
\* better and rely on it.
BooksGood ==
    \A s \in SymbolIds : \A side \in Sides : GoodSide(side, books[s][side])

\* No update of a symbol without a book reaches a ring: process_ring_batched
\* counts only valid updates yet leaves a hole in the batch for an invalid one,
\* so a hole would make it overlook the last updates of the batch.
QueuedSymbolsValid ==
    \A r \in 1 .. Rings : \A i \in 1 .. Len(rings[r]) : rings[r][i].symbol_id \in SymbolIds

\* The updates of the batch that are not dealt with yet.
InBatch ==
    {batch[i] : i \in IF cons.pc = "collect" THEN 1 .. cons.slot - 1 ELSE cons.slot .. cons.count}

InRings == UNION {{rings[r][i] : i \in 1 .. Len(rings[r])} : r \in 1 .. Rings}

\* The book of a feed's symbol carries this id.
HasBook(f) == Registered(LookedUpAs[f]) /\ IdOf(LookedUpAs[f]) \in SymbolIds
AppliedId(f) == IF HasBook(f) THEN books[IdOf(LookedUpAs[f])].last_update_id ELSE 0

\* Nothing accepted is overlooked: when no update of a symbol is in a ring or
\* in the batch, its book carries the greatest id accepted for it, from
\* whichever of its feeds.
Drained ==
    \A f \in Feeds :
        HasBook(f) /\ (\A u \in InRings \cup InBatch :
                          u.symbol_id = IdOf(LookedUpAs[f]) => u = NoUpdate)
            => LET ids == {newest[g] : g \in {h \in Feeds : LookedUpAs[h] = LookedUpAs[f]}}
               IN  AppliedId(f) \in ids /\ \A id \in ids : id <= AppliedId(f)

\* A reader that sees the same last_update_id sees the same book, and the id
\* never goes back: a snapshot is never taken between two changes of an update.
SnapshotsVersioned ==
    [][\A f \in Readers :
          /\ view'[f].last_update_id >= view[f].last_update_id
          /\ view'[f].last_update_id = view[f].last_update_id => view'[f] = view[f]]_vars

\* The changes left of the update being applied.
Task ==
    IF cons.pc = "levels"
    THEN [symbol |-> Current.symbol_id, id |-> Current.update_id,
          changes |-> SubSeq(Changes(Current), cons.applied + 1, Len(Changes(Current)))]
    ELSE [symbol |-> -1, id |-> 0, changes |-> <<>>]

LevelSet(levels) == {levels[k] : k \in 1 .. Len(levels)}

Ladder == INSTANCE PriceLadder
            WITH Symbols <- SymbolIds,
                 ladder <- [s \in SymbolIds |-> [side \in Sides |-> LevelSet(books[s][side])]],
                 version <- [s \in SymbolIds |-> books[s].last_update_id],
                 task <- Task

\* The arrays with their scans, shifts and counts implement the price ladder:
\* the best MAX_DEPTH levels of what was applied, each update whole, in order,
\* and only when it is newer than the book.
LadderRefinement == Ladder!Spec

\* An accepted update is applied, or a newer one is: the rings are polled in
\* turn, so no flood on another ring can hold it up.
AcceptedIsApplied ==
    \A f \in Feeds : \A id \in Ids :
        (newest[f] >= id) ~> (AppliedId(f) >= id)

\* The name a feed's symbol was registered under is found when an update of the
\* feed is converted.
RegisteredIsFound ==
    \A f \in Feeds : Registered(RegisteredAs[f]) => Registered(LookedUpAs[f])

=============================================================================
