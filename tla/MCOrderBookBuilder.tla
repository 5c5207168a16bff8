------------------------- MODULE MCOrderBookBuilder -------------------------
(***************************************************************************)
(* Three exchange events, as snapshots, ranges and single updates.         *)
(***************************************************************************)
EXTENDS OrderBookBuilder

Snap(n) == [snapshot |-> TRUE, first |-> n, id |-> n]
Delta(m, n) == [snapshot |-> FALSE, first |-> m, id |-> n]

MCMessages == {Snap(1), Snap(2), Delta(0, 2), Delta(2, 3), Delta(3, 3), Delta(1, 3)}

=============================================================================
