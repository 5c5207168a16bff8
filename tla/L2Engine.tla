------------------------------ MODULE L2Engine ------------------------------
(***************************************************************************)
(* MatchingEngine (matching-engine/src/engine/mod.rs): books of price      *)
(* levels, and the order events that are made up from their changes.       *)
(*                                                                         *)
(* process_l2_update holds the lock of its symbol's book from beginning to *)
(* end; the numbers of the events come from one counter for all symbols.   *)
(* A step handles one level, so that updates of two symbols interleave.    *)
(***************************************************************************)
EXTENDS Integers, Sequences, SequencesExt, Sums

CONSTANTS
    EngineThreads, Symbols,
    Prices, Amounts,   \* of levels; an amount may be 0
    MaxL2Updates       \* bound: updates in a behaviour

\* f64 in the code; the amount of a level is never negative.
ASSUME EngineAssumption == Prices \subseteq Int /\ Amounts \subseteq Nat /\ MaxL2Updates \in Nat

VARIABLES
    order_books,       \* per symbol and side: levels, as [price, amount]
    order_id_counter,
    working,           \* per thread: the symbol whose book it has locked, what is left
    events,            \* history: per symbol, the events in order, with their level
    l2_updates         \* history: updates begun

evars == <<order_books, order_id_counter, working, events, l2_updates>>

Sides == {"Buy", "Sell"}
Resting == [symbol |-> "none", todo |-> <<>>]

EngineInit ==
    /\ order_books = [s \in Symbols |-> [side \in Sides |-> <<>>]]
    /\ order_id_counter = 0
    /\ working = [t \in EngineThreads |-> Resting]
    /\ events = [s \in Symbols |-> <<>>]
    /\ l2_updates = 0

\* get_next_order_id, and the event that gets the number.
Record(symbol, kind, side, price, amount) ==
    /\ order_id_counter' = order_id_counter + 1
    /\ events' = [events EXCEPT ![symbol] =
         Append(@, [id |-> order_id_counter', kind |-> kind, side |-> side, price |-> price, amount |-> amount])]

generate_add_event(symbol, side, price, amount) == Record(symbol, "Add", side, price, amount)
generate_cancel_event(symbol, side, price, amount) == Record(symbol, "Cancel", side, price, amount)
generate_reduce_event(symbol, side, price, amount) == Record(symbol, "Execute", side, price, amount)

-----------------------------------------------------------------------------
\* A snapshot cancels what is there, bids first, before its own levels come.
generate_clear_events(resting) ==
    [i \in 1 .. Len(resting["Buy"]) |-> [side |-> "Buy", price |-> resting["Buy"][i].price, amount |-> 0]] \o
    [i \in 1 .. Len(resting["Sell"]) |-> [side |-> "Sell", price |-> resting["Sell"][i].price, amount |-> 0]]

process_l2_update(t, symbol, is_snapshot, levels) ==
    /\ l2_updates < MaxL2Updates
    /\ working[t] = Resting /\ \A u \in EngineThreads : working[u].symbol /= symbol
    /\ l2_updates' = l2_updates + 1
    /\ working' = [working EXCEPT ![t] =
         [symbol |-> symbol,
          todo |-> (IF is_snapshot THEN generate_clear_events(order_books[symbol]) ELSE <<>>) \o levels]]
    /\ UNCHANGED <<order_books, order_id_counter, events>>

\* Bids descending, asks ascending.
Before(side, p, q) == IF side = "Buy" THEN p > q ELSE p < q
\* Mutant: a new level is put first.
InsertFirst(levels, side, level) == InsertAt(levels, 1, level)

\* Where the binary search puts a level: behind all that come before it.
Insert(levels, side, level) ==
    LET k == CHOOSE k \in 1 .. Len(levels) + 1 :
               \A i \in 1 .. Len(levels) : i < k <=> Before(side, levels[i].price, level.price) IN
      InsertAt(levels, k, level)

\* One turn of the loop of process_side_updates.
process_side_updates(t) ==
    /\ working[t].todo /= <<>>
    /\ LET symbol == working[t].symbol
           u == Head(working[t].todo)
           levels == order_books[symbol][u.side]
           i == SelectInSeq(levels, LAMBDA l : l.price = u.price)
           put(ls) == order_books' = [order_books EXCEPT ![symbol][u.side] = ls] IN
         \/ /\ i = 0 /\ u.amount = 0
            /\ UNCHANGED <<order_books, order_id_counter, events>>
         \/ /\ i = 0 /\ u.amount > 0
            /\ generate_add_event(symbol, u.side, u.price, u.amount)
            /\ put(Insert(levels, u.side, [price |-> u.price, amount |-> u.amount]))
         \/ /\ i > 0 /\ u.amount = 0
            /\ generate_cancel_event(symbol, u.side, u.price, levels[i].amount)
            /\ put(RemoveAt(levels, i))
         \/ /\ i > 0 /\ u.amount > levels[i].amount
            /\ generate_add_event(symbol, u.side, u.price, u.amount - levels[i].amount)
            /\ put([levels EXCEPT ![i].amount = u.amount])
         \/ /\ i > 0 /\ 0 < u.amount /\ u.amount < levels[i].amount
            /\ generate_reduce_event(symbol, u.side, u.price, levels[i].amount - u.amount)
            /\ put([levels EXCEPT ![i].amount = u.amount])
         \/ /\ i > 0 /\ u.amount = levels[i].amount
            /\ UNCHANGED <<order_books, order_id_counter, events>>
    /\ working' = [working EXCEPT ![t].todo = Tail(@)]
    /\ UNCHANGED l2_updates

\* The lock is released and the events are returned.
ReturnEvents(t) ==
    /\ working[t].symbol /= "none" /\ working[t].todo = <<>>
    /\ working' = [working EXCEPT ![t] = Resting]
    /\ UNCHANGED <<order_books, order_id_counter, events, l2_updates>>

EngineNext ==
    \E t \in EngineThreads :
      \/ \E symbol \in Symbols, is_snapshot \in BOOLEAN, side \in Sides, p \in Prices, a \in Amounts :
           process_l2_update(t, symbol, is_snapshot, <<[side |-> side, price |-> p, amount |-> a]>>)
      \/ process_side_updates(t)
      \/ ReturnEvents(t)

-----------------------------------------------------------------------------
(* What holds of it.                                                       *)

EngineTypeOK ==
    /\ \A s \in Symbols, side \in Sides :
         \A i \in DOMAIN order_books[s][side] : order_books[s][side][i] \in [price : Prices, amount : Amounts \ {0}]
    /\ order_id_counter \in Nat
    /\ \A t \in EngineThreads : working[t].symbol \in Symbols \cup {"none"}
    /\ l2_updates \in 0 .. MaxL2Updates

\* What the events of a symbol say of a level, added less cancelled and executed.
Said(e, side, price) ==
    IF e.side /= side \/ e.price /= price THEN 0 ELSE IF e.kind = "Add" THEN e.amount ELSE -e.amount
Told(s, side, price) == SumOf([i \in 1 .. Len(events[s]) |-> Said(events[s][i], side, price)])

\* A side is sorted, no price is there twice.
SortedLevels(side, levels) ==
    \A i, j \in 1 .. Len(levels) : i < j => Before(side, levels[i].price, levels[j].price)

\* The events tell the book: added up level by level they are its amounts at any
\* time, through snapshots and levels that come and go, and it stays sorted.
EventsTellBook ==
    \A s \in Symbols, side \in Sides :
      LET levels == order_books[s][side] IN
        /\ SortedLevels(side, levels)
        /\ \A i \in 1 .. Len(levels) : Told(s, side, levels[i].price) = levels[i].amount
        /\ \A price \in Prices :
             (\A i \in 1 .. Len(levels) : levels[i].price /= price) => Told(s, side, price) = 0

=============================================================================
