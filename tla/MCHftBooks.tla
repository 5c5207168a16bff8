----------------------------- MODULE MCHftBooks -----------------------------
(***************************************************************************)
(* One ring, updates one at a time, room for one of two symbols: every     *)
(* ladder of two levels over three ticks that four updates can reach by    *)
(* insertions at each place, replacements, removals, evictions and prices  *)
(* that fall into one tick.                                                *)
(***************************************************************************)
EXTENDS HftProcessor, TLC

CONSTANTS f1, f2

MCFeeds == {f1, f2}
MCRingOf == (f1 :> 1) @@ (f2 :> 1)
MCName == (f1 :> "btcusdt") @@ (f2 :> "ethusdt")
MCIds == 1 .. 4

L(p, q) == [price |-> p, quantity |-> q]

MCPayloads ==
    { [bids |-> <<L(p, q)>>, asks |-> <<>>] : p \in {2, 4, 6}, q \in {1, 2} } \cup
    { [bids |-> <<>>, asks |-> <<L(p, q)>>] : p \in {2, 4}, q \in {5} } \cup
    { [bids |-> <<L(5, 3), L(4, 9), L(2, 3)>>, asks |-> <<L(6, 4), L(3, 2)>>] }

=============================================================================
