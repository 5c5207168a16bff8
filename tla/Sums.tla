-------------------------------- MODULE Sums --------------------------------
(***************************************************************************)
(* The sum of a sequence of integers, as a recursive function, and of the  *)
(* values of a function on a finite set.  The module of their theorems is  *)
(* FeedProofs.                                                             *)
(***************************************************************************)
EXTENDS Integers, Sequences, SequencesExt

\* The sums of the first n elements, for each n.
SumsUpTo(a) == LET sums[n \in 0 .. Len(a)] == IF n = 0 THEN 0 ELSE sums[n - 1] + a[n] IN sums

SumOf(a) == SumsUpTo(a)[Len(a)]

TotalOf(S, f) == LET order == SetToSeq(S) IN SumOf([i \in DOMAIN order |-> f[order[i]]])

=============================================================================
