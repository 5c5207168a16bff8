--------------------------- MODULE MCHftConsumer ---------------------------
(***************************************************************************)
(* The processor as matching-engine/src/bin/consumer.rs drives it: symbols *)
(* are registered as symbol and exchange, and converted by symbol alone.   *)
(***************************************************************************)
EXTENDS HftProcessor, TLC

CONSTANTS f1, f2

MCFeeds == {f1, f2}
MCRingOf == (f1 :> 1) @@ (f2 :> 2)
MCRegisteredAs == (f1 :> "BTC-USDT-Binance") @@ (f2 :> "BTC-USDT-Bybit")
MCLookedUpAs == (f1 :> "BTC-USDT") @@ (f2 :> "BTC-USDT")

MCPayloads == {[bids |-> <<[price |-> 1, quantity |-> 1]>>, asks |-> <<>>]}

=============================================================================
