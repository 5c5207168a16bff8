---------------------------- MODULE PriceLadder ----------------------------
(***************************************************************************)
(* What the order book store promises, without arrays, scans or shifts: a  *)
(* side of a book is a set of levels with distinct prices, the best        *)
(* MAX_DEPTH of what it was given; an update that is newer than the book   *)
(* is applied change by change, every change and in order, and then the    *)
(* book carries the update's id.                                           *)
(***************************************************************************)
EXTENDS Integers, Sequences, FiniteSets

CONSTANTS
    Symbols,     \* the books' identifiers
    MAX_DEPTH    \* levels kept per side

VARIABLES
    ladder,      \* ladder[s][side]: the levels of a side, a set
    version,     \* version[s]: the id of the last update applied
    task         \* the update being applied, with the changes left, or Idle

vars == <<ladder, version, task>>

Change == [side : {"bid", "ask"}, price : Int, qty : Nat]

Idle == [symbol |-> -1, id |-> 0, changes |-> <<>>]

Better(side, a, b) == IF side = "bid" THEN a.price > b.price ELSE a.price < b.price

\* The best MAX_DEPTH of a set of levels.
Trim(side, S) == {l \in S : Cardinality({m \in S : Better(side, m, l)}) < MAX_DEPTH}

\* A level with a quantity replaces the level of its price; quantity 0 takes
\* that level away.
Put(S, c) ==
    LET others == {l \in S : l.price # c.price}
    IN  IF c.qty = 0 THEN others
        ELSE Trim(c.side, others \cup {[price |-> c.price, qty |-> c.qty]})

Init ==
    /\ ladder = [s \in Symbols |-> [side \in {"bid", "ask"} |-> {}]]
    /\ version = [s \in Symbols |-> 0]
    /\ task = Idle

Begin ==
    /\ task = Idle
    /\ task' \in [symbol : Symbols, id : Nat, changes : Seq(Change)]
    /\ task'.id > version[task'.symbol]
    /\ UNCHANGED <<ladder, version>>

Step ==
    /\ task # Idle
    /\ task.changes # <<>>
    /\ LET c == Head(task.changes)
       IN  ladder' = [ladder EXCEPT ![task.symbol][c.side] = Put(@, c)]
    /\ task' = [task EXCEPT !.changes = Tail(task.changes)]
    /\ UNCHANGED version

End ==
    /\ task # Idle
    /\ task.changes = <<>>
    /\ version' = [version EXCEPT ![task.symbol] = task.id]
    /\ task' = Idle
    /\ UNCHANGED ladder

Next == Begin \/ Step \/ End

Spec == Init /\ [][Next]_vars

=============================================================================
