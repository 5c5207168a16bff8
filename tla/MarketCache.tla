---------------------------- MODULE MarketCache ----------------------------
(***************************************************************************)
(* One SymbolSlot of feeder/src/core/market_cache.rs: seven fields and a   *)
(* sequence number, each an atomic, written and read without a lock.       *)
(* update_orderbook_with_seq makes the number odd, stores its fields and   *)
(* makes it even; read_snapshot loads the number before and after the      *)
(* fields and starts again unless both are the same even number.  The fast *)
(* operations ignore it.                                                   *)
(*                                                                         *)
(* An operation is the program of its atomic accesses, in the order of the *)
(* source; a step performs the first that is left.  A field holds the      *)
(* number of the call that stored it, which stands for the value.          *)
(***************************************************************************)
EXTENDS Naturals, Sequences, SequencesExt

CONSTANTS
    Writers, Readers,
    MaxCalls           \* bound: update calls in a behaviour

ASSUME CacheAssumption == MaxCalls \in Nat

VARIABLES
    slot,       \* the fields of SymbolSlot
    seq,        \* its sequence number
    writer,     \* per writer: its call, what it computed from seq, what is left
    reader,     \* per reader: s1, what is left, what it has loaded (noted until raced)
    calls,      \* history: calls so far
    raced       \* history: two calls overlapped, or a fast one ran beside a read

cvars == <<slot, seq, writer, reader, calls, raced>>

Fields == {"best_bid", "best_ask", "bid_qty", "ask_qty", "last_trade", "exchange_ts", "local_ts"}

-----------------------------------------------------------------------------
(* The programs.                                                           *)

update_bid_fast == <<"best_bid", "bid_qty", "exchange_ts", "local_ts">>
update_ask_fast == <<"best_ask", "ask_qty", "exchange_ts", "local_ts">>
update_trade_fast == <<"last_trade", "exchange_ts", "local_ts">>

update_orderbook_with_seq ==
    <<"odd", "best_bid", "best_ask", "bid_qty", "ask_qty", "exchange_ts", "local_ts", "even">>

read_snapshot ==
    <<"s1", "best_bid", "best_ask", "bid_qty", "ask_qty", "last_trade", "exchange_ts", "local_ts", "s2">>

Updates == {update_bid_fast, update_ask_fast, update_trade_fast, update_orderbook_with_seq}

Busy(w) == writer[w].todo /= <<>>
Reading(r) == reader[r].todo /= <<>>
Fast(program) == program /= update_orderbook_with_seq

Returned == [call |-> 0, seq |-> 0, todo |-> <<>>]
NotReading == [s1 |-> 0, todo |-> <<>>, got |-> <<>>]

\* SymbolSlot::new.
CacheInit ==
    /\ slot = [f \in Fields |-> 0]
    /\ seq = 0
    /\ writer = [w \in Writers |-> Returned]
    /\ reader = [r \in Readers |-> NotReading]
    /\ calls = 0
    /\ raced = FALSE

\* A call begins; with the sequence number it begins by loading it.
StartUpdate(w, program) ==
    /\ ~Busy(w)
    /\ calls < MaxCalls
    /\ calls' = calls + 1
    /\ writer' = [writer EXCEPT ![w] = [call |-> calls', seq |-> IF Fast(program) THEN 0 ELSE seq + 1,
                                        todo |-> program]]
    /\ raced' = (raced \/ (\E v \in Writers : Busy(v)) \/ (Fast(program) /\ \E r \in Readers : Reading(r)))
    /\ UNCHANGED <<slot, seq, reader>>

\* seq | 1 and (seq + 1) & !1.
MarkOdd(n) == IF n % 2 = 1 THEN n ELSE n + 1
\* Mutant: the end of an update only adds 1.
MarkEvenBlindly(n) == n + 1

MarkEven(n) == IF n % 2 = 1 THEN n + 1 ELSE n

WithoutNext(call) == IF Len(call.todo) = 1 THEN Returned ELSE [call EXCEPT !.todo = Tail(call.todo)]

\* A writer's next store.
Store(w) ==
    /\ Busy(w)
    /\ LET access == Head(writer[w].todo) IN
         /\ seq' = CASE access = "odd" -> MarkOdd(writer[w].seq)
                     [] access = "even" -> MarkEven(writer[w].seq)
                     [] OTHER -> seq
         /\ slot' = IF access \in Fields THEN [slot EXCEPT ![access] = writer[w].call] ELSE slot
    /\ writer' = [writer EXCEPT ![w] = WithoutNext(@)]
    /\ UNCHANGED <<reader, calls, raced>>

\* read_snapshot is called.
StartRead(r) ==
    /\ ~Reading(r)
    /\ reader' = [reader EXCEPT ![r].todo = read_snapshot]
    /\ raced' = (raced \/ \E w \in Writers : Busy(w) /\ writer[w].seq = 0)
    /\ UNCHANGED <<slot, seq, writer, calls>>

\* Mutant: the reader does not look whether an update is going on.
ValidIfSame(s1, s2) == s1 = s2

\* The snapshot is returned if the number has not changed and is even.
Valid(s1, s2) == s1 = s2 /\ s1 % 2 = 0

\* A reader's next load.
Load(r) ==
    /\ Reading(r)
    /\ LET access == Head(reader[r].todo) IN
         reader' = CASE access = "s1" -> [reader EXCEPT ![r].todo = Tail(@), ![r].s1 = seq]
                     [] access = "s2" -> [reader EXCEPT ![r] = IF Valid(@.s1, seq) THEN NotReading
                                                               ELSE [NotReading EXCEPT !.todo = read_snapshot]]
                     [] OTHER -> [reader EXCEPT ![r].todo = Tail(@), ![r].got = IF raced THEN @ ELSE Append(@, slot[access])]
    /\ UNCHANGED <<slot, seq, writer, calls, raced>>

CacheNext ==
    \/ \E w \in Writers : (\E program \in Updates : StartUpdate(w, program)) \/ Store(w)
    \/ \E r \in Readers : StartRead(r) \/ Load(r)

-----------------------------------------------------------------------------
(* What holds of it.                                                       *)

CacheTypeOK ==
    /\ slot \in [Fields -> 0 .. MaxCalls]
    /\ seq \in Nat
    /\ calls \in 0 .. MaxCalls
    /\ raced \in BOOLEAN
    /\ \A w \in Writers : writer[w].call \in 0 .. calls /\ writer[w].seq \in Nat
    /\ \A r \in Readers : reader[r].s1 \in Nat /\ reader[r].got \in Seq(0 .. MaxCalls)

\* The sequence number does its work: a snapshot that is returned shows all
\* seven fields as they are together in the slot at that moment, whatever calls
\* began and ended while it was read, as long as no two calls overlapped and no
\* fast update, which leaves the number alone, ran beside a read.
SnapshotsAtomic ==
    [][\A r \in Readers :
         (Reading(r) /\ ~Reading(r)' /\ ~raced) =>
           reader[r].got = [i \in 1 .. 7 |-> slot[read_snapshot[i + 1]]]]_cvars

\* Two writers can undo each other's marks, but what they leave behind is an even
\* number: once nobody updates the slot a snapshot is not retried for ever.
EvenAtRest == (\A w \in Writers : ~Busy(w)) => seq % 2 = 0

=============================================================================
