--------------------------- MODULE MCBinanceSync ---------------------------
(***************************************************************************)
(* One task; events with and without pu that continue, overlap, repeat or  *)
(* leave out each other, and an event of a spot partial depth stream.      *)
(***************************************************************************)
EXTENDS BinanceSync

CONSTANTS t1, noprev

E(U, u, pu) == [first |-> U, final |-> u, prev |-> pu]

MCEvents == {E(0, 0, NoPrev), E(1, 2, NoPrev), E(1, 3, 1), E(4, 4, 3), E(3, 5, 3), E(5, 5, 4)}

=============================================================================
