---------------------------- MODULE BoundedFifo ----------------------------
(***************************************************************************)
(* What a bounded single-consumer queue promises its callers: a producer's *)
(* call to push ends either by storing its update behind all the updates   *)
(* accepted before it, or, only when Capacity updates are stored, by being *)
(* refused; the consumer takes the accepted updates in that order, each    *)
(* of them exactly once.  RingBuffer implements it, and HftProcessor is    *)
(* built on this interface instead of on the slots and indices.            *)
(***************************************************************************)
EXTENDS Naturals, Sequences

CONSTANTS
    Producers,   \* threads that call push
    Updates,     \* the updates they push
    Capacity,    \* number of updates the queue can hold
    None         \* no update

VARIABLES
    pending,     \* pending[p]: the update of p's unfinished push, or None
    queue,       \* accepted updates that have not been taken
    taken        \* the update taken last, or None

vars == <<pending, queue, taken>>

TypeOK ==
    /\ pending \in [Producers -> Updates \cup {None}]
    /\ queue \in Seq(Updates)
    /\ taken \in Updates \cup {None}

Init ==
    /\ pending = [p \in Producers |-> None]
    /\ queue = <<>>
    /\ taken = None

Call(p, u) ==
    /\ pending[p] = None
    /\ pending' = [pending EXCEPT ![p] = u]
    /\ UNCHANGED <<queue, taken>>

Accept(p) ==
    /\ pending[p] # None
    /\ Len(queue) < Capacity
    /\ queue' = Append(queue, pending[p])
    /\ pending' = [pending EXCEPT ![p] = None]
    /\ UNCHANGED taken

Refuse(p) ==
    /\ pending[p] # None
    /\ Len(queue) = Capacity
    /\ pending' = [pending EXCEPT ![p] = None]
    /\ UNCHANGED <<queue, taken>>

Take ==
    /\ queue # <<>>
    /\ taken' = Head(queue)
    /\ queue' = Tail(queue)
    /\ UNCHANGED pending

Next ==
    \/ \E p \in Producers : \E u \in Updates : Call(p, u)
    \/ \E p \in Producers : Accept(p) \/ Refuse(p)
    \/ Take

Spec == Init /\ [][Next]_vars

=============================================================================
