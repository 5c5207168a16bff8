---------------------------- MODULE MCHftBatches ----------------------------
(***************************************************************************)
(* Two rings polled in turn in batches of two.  Spot and futures of one    *)
(* symbol share its book from different rings, and a second symbol uses    *)
(* the ring of the futures.                                                *)
(***************************************************************************)
EXTENDS HftProcessor, TLC

CONSTANTS spot, futures, other

MCFeeds == {spot, futures, other}
MCRingOf == (spot :> 1) @@ (futures :> 2) @@ (other :> 2)
MCName == (spot :> "btcusdt") @@ (futures :> "btcusdt") @@ (other :> "ethusdt")

L(p, q) == [price |-> p, quantity |-> q]

MCPayloads == {[bids |-> <<L(1, 1)>>, asks |-> <<L(2, 1)>>]}

=============================================================================
