--------------------------- MODULE FastOrderBook ---------------------------
(***************************************************************************)
(* FastOrderBook of matching-engine/src/hft_orderbook.rs: the bounded,     *)
(* sorted price ladder of one symbol.  A side is the used part of its      *)
(* array, best price first; levels hold integer ticks and quantities.      *)
(* update_bid/update_ask and remove_bid/remove_ask differ only in the      *)
(* comparison, so each pair is one operator with the side as a parameter.  *)
(***************************************************************************)
EXTENDS Integers, Sequences

CONSTANT MAX_DEPTH      \* levels kept per side

ASSUME DepthAssumption == MAX_DEPTH \in Nat \ {0}

Sides == {"bid", "ask"}

Level == [price : Int, qty : Nat]

NewBook == [bid |-> <<>>, ask |-> <<>>, last_update_id |-> 0, update_count |-> 0]

\* Price a comes before price b on a side: bids descend, asks ascend.
Before(side, a, b) == IF side = "bid" THEN a > b ELSE a < b

\* Index k is where the scan of a side stops for a price: the first level that
\* does not come before it, or the end.
StopsAt(side, levels, price, k) ==
    /\ k \in 1 .. Len(levels) + 1
    /\ \A j \in 1 .. k - 1 : Before(side, levels[j].price, price)
    /\ k <= Len(levels) => ~Before(side, levels[k].price, price)

ScanIndex(side, levels, price) ==
    CHOOSE k \in 1 .. Len(levels) + 1 : StopsAt(side, levels, price, k)

\* Shift levels k, k+1, ... down by one and put a new level at k; a full side
\* loses its last level.
InsertLevel(levels, k, level) ==
    [j \in 1 .. (IF Len(levels) < MAX_DEPTH THEN Len(levels) + 1 ELSE MAX_DEPTH) |->
        IF j < k THEN levels[j] ELSE IF j = k THEN level ELSE levels[j - 1]]

\* A scan that compares only with the last level: the new level goes behind.
UpdateLevelUnsorted(side, levels, level) ==
    IF \E k \in 1 .. Len(levels) : levels[k].price = level.price
    THEN [k \in 1 .. Len(levels) |-> IF levels[k].price = level.price THEN level ELSE levels[k]]
    ELSE IF Len(levels) < MAX_DEPTH THEN Append(levels, level) ELSE levels

\* update_bid / update_ask.
UpdateLevel(side, levels, level) ==
    LET k == ScanIndex(side, levels, level.price)
    IN  IF k <= Len(levels) /\ levels[k].price = level.price
        THEN [levels EXCEPT ![k].qty = level.qty]
        ELSE IF k <= MAX_DEPTH THEN InsertLevel(levels, k, level) ELSE levels

\* remove_bid / remove_ask: the first level with this price, if there is one.
HasPrice(levels, price, k) ==
    /\ k \in 1 .. Len(levels)
    /\ levels[k].price = price
    /\ \A j \in 1 .. k - 1 : levels[j].price # price

DropLevel(levels, k) ==
    [j \in 1 .. Len(levels) - 1 |-> IF j < k THEN levels[j] ELSE levels[j + 1]]

\* A removal that also keeps the count: the level stays.
RemoveLevelNot(levels, price) == levels

RemoveLevel(levels, price) ==
    IF \E k \in 1 .. Len(levels) : levels[k].price = price
    THEN DropLevel(levels, CHOOSE k \in 1 .. Len(levels) : HasPrice(levels, price, k))
    ELSE levels

\* One iteration of apply_update's loops: quantity 0 deletes the level.
ApplyLevel(side, levels, level) ==
    IF level.qty = 0
    THEN RemoveLevel(levels, level.price)
    ELSE UpdateLevel(side, levels, level)

-----------------------------------------------------------------------------
(* A side in order: strictly sorted (hence no price twice), at most        *)
(* MAX_DEPTH levels, none empty.                                           *)

SortedSide(side, levels) ==
    \A j, k \in 1 .. Len(levels) : j < k => Before(side, levels[j].price, levels[k].price)

GoodSide(side, levels) ==
    /\ levels \in Seq(Level)
    /\ Len(levels) <= MAX_DEPTH
    /\ SortedSide(side, levels)
    /\ \A k \in 1 .. Len(levels) : levels[k].qty > 0

=============================================================================
