-------------------------- MODULE HftProcessorProofs ---------------------------
(***************************************************************************)
(* Theorems about one processor of the HFT order book: the fast order book *)
(* (apply_level), the types and the order of what the processor consumes,  *)
(* the ladders of all books, and what becomes of an accepted update.       *)
(***************************************************************************)
EXTENDS HftProcessor, FiniteSetTheorems, SequenceTheorems, WellFoundedInduction, TLAPS

\* The scan of a side has a place to stop: the first level that does not come
\* before the price, or the end.
LEMMA ScanStops ==
    ASSUME NEW side, NEW levels \in Seq(Level), NEW price \in Int
    PROVE  StopsAt(side, levels, price, ScanIndex(side, levels, price))
<1> DEFINE n == Len(levels)
           T == {k \in 1 .. n + 1 : k <= n => ~Before(side, levels[k].price, price)}
<1>1. n \in Nat
  OBVIOUS
<1>2. n + 1 \in T /\ T \subseteq Nat
  BY <1>1
<1>3. PICK k \in T : \A j \in T : ~(<<j, k>> \in OpToRel(<, Nat))
  <2>1. IsWellFoundedOn(OpToRel(<, Nat), Nat)
    BY NatLessThanWellFounded
  <2> HIDE DEF T
  <2> QED BY <1>2, <2>1, WFMin
<1>4. \A j \in T : ~(j < k)
  <2> SUFFICES ASSUME NEW j \in T, j < k PROVE FALSE
    OBVIOUS
  <2>1. <<j, k>> \in OpToRel(<, Nat)
    BY <1>2 DEF OpToRel
  <2> QED BY <1>3, <2>1
<1>5. StopsAt(side, levels, price, k)
  BY <1>1, <1>4 DEF StopsAt
<1>6. \E i \in 1 .. Len(levels) + 1 : StopsAt(side, levels, price, i)
  BY <1>5
<1> QED BY <1>6 DEF ScanIndex

\* A level replaced by one of the same price, with a quantity.
LEMMA ReplaceGood ==
    ASSUME NEW side \in Sides, NEW levels, GoodSide(side, levels),
           NEW k \in 1 .. Len(levels), NEW qty \in Nat, qty > 0
    PROVE  GoodSide(side, [levels EXCEPT ![k].qty = qty])
<1> DEFINE new == [levels EXCEPT ![k].qty = qty]
<1>1. levels \in Seq(Level) /\ Len(levels) \in Nat
  BY DEF GoodSide
<1>2. \A j \in 1 .. Len(levels) : levels[j] \in Level
  BY <1>1
<1>3. new \in Seq(Level) /\ Len(new) = Len(levels)
  <2> DEFINE new_level == [levels[k] EXCEPT !.qty = qty]
  <2>1. new_level \in Level /\ new = [levels EXCEPT ![k] = new_level]
    BY <1>2 DEF Level
  <2> HIDE DEF new, new_level
  <2> QED
    BY <1>1, <2>1, ExceptSeq
<1>4. \A j \in 1 .. Len(levels) :
        new[j].price = levels[j].price /\ new[j].qty = (IF j = k THEN qty ELSE levels[j].qty)
  BY <1>1, <1>2 DEF Level
<1>5. SortedSide(side, new)
  BY <1>3, <1>4 DEF GoodSide, SortedSide
<1>6. \A j \in 1 .. Len(new) : new[j].qty > 0
  BY <1>3, <1>4 DEF GoodSide
<1> QED BY <1>3, <1>5, <1>6 DEF GoodSide

\* A new level where the scan stopped; a full side loses its last level.
LEMMA InsertGood ==
    ASSUME NEW side \in Sides, NEW levels, GoodSide(side, levels),
           NEW level \in Level, level.qty > 0,
           NEW k, StopsAt(side, levels, level.price, k),
           k <= Len(levels) => levels[k].price # level.price,
           k <= MAX_DEPTH
    PROVE  GoodSide(side, InsertLevel(levels, k, level))
<1> DEFINE n == Len(levels)
           m == IF n < MAX_DEPTH THEN n + 1 ELSE MAX_DEPTH
           new == InsertLevel(levels, k, level)
<1>1. levels \in Seq(Level) /\ n \in Nat /\ k \in 1 .. n + 1 /\ n <= MAX_DEPTH
  BY DEF GoodSide, StopsAt
<1>2. MAX_DEPTH \in Nat /\ m \in Nat /\ m <= MAX_DEPTH /\ m <= n + 1 /\ k <= m
  BY <1>1, DepthAssumption
<1>3. \A j \in 1 .. n : levels[j] \in Level
  BY <1>1
<1>4. new = [j \in 1 .. m |-> IF j < k THEN levels[j] ELSE IF j = k THEN level ELSE levels[j - 1]]
  BY DEF InsertLevel
<1> HIDE DEF m, new
<1>5. \A j \in 1 .. m : new[j] \in Level /\ new[j].qty > 0
  <2> SUFFICES ASSUME NEW j \in 1 .. m PROVE new[j] \in Level /\ new[j].qty > 0
    OBVIOUS
  <2>1. CASE j < k
    BY <2>1, <1>1, <1>2, <1>3, <1>4 DEF GoodSide
  <2>2. CASE j = k
    BY <2>2, <1>4
  <2>3. CASE j > k
    <3>1. j - 1 \in 1 .. n /\ new[j] = levels[j - 1]
      BY <2>3, <1>1, <1>2, <1>4
    <3> QED BY <3>1, <1>3 DEF GoodSide
  <2> QED BY <2>1, <2>2, <2>3, <1>1, <1>2
<1>6. new \in Seq(Level) /\ Len(new) = m
  BY <1>2, <1>4, <1>5
<1>7. \A j \in 1 .. n : j < k => Before(side, levels[j].price, level.price)
  BY <1>1 DEF StopsAt
<1>8. \A j \in 1 .. n : j >= k => Before(side, level.price, levels[j].price)
  <2>1. k <= n => Before(side, level.price, levels[k].price)
    BY <1>1, <1>3 DEF StopsAt, Before, Level
  <2> SUFFICES ASSUME NEW j \in 1 .. n, j > k PROVE Before(side, level.price, levels[j].price)
    BY <2>1, <1>1
  <2>2. k \in 1 .. n /\ Before(side, levels[k].price, levels[j].price)
    BY <1>1 DEF GoodSide, SortedSide
  <2> QED BY <2>1, <2>2, <1>1, <1>3 DEF Before, Level
<1>9. SortedSide(side, new)
  <2> SUFFICES ASSUME NEW i \in 1 .. m, NEW j \in 1 .. m, i < j
               PROVE  Before(side, new[i].price, new[j].price)
    BY <1>6 DEF SortedSide
  <2>1. CASE j < k
    <3>1. i \in 1 .. n /\ j \in 1 .. n /\ new[i] = levels[i] /\ new[j] = levels[j]
      BY <2>1, <1>1, <1>2, <1>4
    <3> QED BY <3>1 DEF GoodSide, SortedSide
  <2>2. CASE j = k
    <3>1. i \in 1 .. n /\ i < k /\ new[i] = levels[i] /\ new[j] = level
      BY <2>2, <1>1, <1>2, <1>4
    <3> QED BY <3>1, <1>7
  <2>3. CASE j > k /\ i < k
    <3>1. i \in 1 .. n /\ j - 1 \in 1 .. n /\ j - 1 >= k /\ new[i] = levels[i] /\ new[j] = levels[j - 1]
      BY <2>3, <1>1, <1>2, <1>4
    <3>2. Before(side, levels[i].price, level.price) /\ Before(side, level.price, levels[j - 1].price)
      BY <3>1, <2>3, <1>7, <1>8
    <3> QED BY <3>1, <3>2, <1>3 DEF Before, Level
  <2>4. CASE j > k /\ i = k
    <3>1. j - 1 \in 1 .. n /\ j - 1 >= k /\ new[i] = level /\ new[j] = levels[j - 1]
      BY <2>4, <1>1, <1>2, <1>4
    <3> QED BY <3>1, <1>8
  <2>5. CASE j > k /\ i > k
    <3>1. i - 1 \in 1 .. n /\ j - 1 \in 1 .. n /\ i - 1 < j - 1
          /\ new[i] = levels[i - 1] /\ new[j] = levels[j - 1]
      BY <2>5, <1>1, <1>2, <1>4
    <3> QED BY <3>1 DEF GoodSide, SortedSide
  <2> QED BY <2>1, <2>2, <2>3, <2>4, <2>5, <1>1, <1>2
<1> QED BY <1>2, <1>5, <1>6, <1>9 DEF GoodSide, new

\* A level taken out, the levels behind it moved up.
LEMMA DropGood ==
    ASSUME NEW side \in Sides, NEW levels, GoodSide(side, levels), NEW k \in 1 .. Len(levels)
    PROVE  GoodSide(side, DropLevel(levels, k))
<1> DEFINE n == Len(levels)
           new == DropLevel(levels, k)
<1>1. levels \in Seq(Level) /\ n \in Nat /\ n - 1 \in Nat /\ n <= MAX_DEPTH
  BY DEF GoodSide
<1>2. new = [j \in 1 .. n - 1 |-> IF j < k THEN levels[j] ELSE levels[j + 1]]
  BY DEF DropLevel
<1> DEFINE at(j) == IF j < k THEN j ELSE j + 1
<1>3. \A j \in 1 .. n - 1 : at(j) \in 1 .. n /\ new[j] = levels[at(j)]
  BY <1>1, <1>2
<1>4. \A i, j \in 1 .. n - 1 : i < j => at(i) < at(j)
  BY <1>1
<1> HIDE DEF at, new
<1>5. new \in Seq(Level) /\ Len(new) = n - 1
  <2>1. \A j \in 1 .. n - 1 : new[j] \in Level
    BY <1>1, <1>3
  <2> QED BY <1>1, <1>2, <2>1
<1>6. SortedSide(side, new)
  BY <1>3, <1>4, <1>5 DEF GoodSide, SortedSide
<1>7. \A j \in 1 .. Len(new) : new[j].qty > 0
  BY <1>3, <1>5 DEF GoodSide
<1>8. Len(new) <= MAX_DEPTH
  BY <1>1, <1>5, DepthAssumption
<1> QED BY <1>5, <1>6, <1>7, <1>8 DEF GoodSide, new

\* Whatever level apply_update is given, of whatever price and quantity, the
\* side it goes to stays strictly sorted, bounded and free of empty levels.
THEOREM ApplyLevelGood ==
    ASSUME NEW side \in Sides, NEW levels, GoodSide(side, levels), NEW level \in Level
    PROVE  GoodSide(side, ApplyLevel(side, levels, level))
<1>1. levels \in Seq(Level) /\ Len(levels) \in Nat
  BY DEF GoodSide
<1>2. CASE level.qty = 0
  <2>1. ApplyLevel(side, levels, level) = RemoveLevel(levels, level.price)
    BY <1>2 DEF ApplyLevel
  <2>2. CASE \E k \in 1 .. Len(levels) : levels[k].price = level.price
    <3>1. PICK k \in 1 .. Len(levels) : levels[k].price = level.price
      BY <2>2
    <3>2. \A j \in 1 .. k - 1 : levels[j].price # level.price
      <4> SUFFICES ASSUME NEW j \in 1 .. k - 1, levels[j].price = level.price PROVE FALSE
        OBVIOUS
      <4>1. Before(side, levels[j].price, levels[k].price)
        BY <1>1 DEF GoodSide, SortedSide
      <4> QED BY <4>1, <3>1 DEF Before, Level
    <3>3. HasPrice(levels, level.price, k)
      BY <3>1, <3>2 DEF HasPrice
    <3> DEFINE i == CHOOSE i \in 1 .. Len(levels) : HasPrice(levels, level.price, i)
    <3>4. i \in 1 .. Len(levels)
      BY <3>3
    <3>5. RemoveLevel(levels, level.price) = DropLevel(levels, i)
      BY <2>2 DEF RemoveLevel
    <3> QED BY <2>1, <3>4, <3>5, DropGood
  <2>3. CASE ~\E k \in 1 .. Len(levels) : levels[k].price = level.price
    BY <2>1, <2>3 DEF RemoveLevel
  <2> QED BY <2>2, <2>3
<1>3. CASE level.qty # 0
  <2> DEFINE k == ScanIndex(side, levels, level.price)
  <2>1. level.price \in Int /\ level.qty \in Nat /\ level.qty > 0
    BY <1>3 DEF Level
  <2>2. StopsAt(side, levels, level.price, k) /\ k \in 1 .. Len(levels) + 1
    BY <1>1, <2>1, ScanStops DEF StopsAt
  <2>3. ApplyLevel(side, levels, level) =
          IF k <= Len(levels) /\ levels[k].price = level.price
          THEN [levels EXCEPT ![k].qty = level.qty]
          ELSE IF k <= MAX_DEPTH THEN InsertLevel(levels, k, level) ELSE levels
    BY <1>3 DEF ApplyLevel, UpdateLevel
  <2> HIDE DEF k
  <2>4. CASE k <= Len(levels) /\ levels[k].price = level.price
    <3>1. k \in 1 .. Len(levels)
      BY <2>2, <2>4, <1>1
    <3>2. GoodSide(side, [levels EXCEPT ![k].qty = level.qty])
      BY <2>1, <3>1, ReplaceGood
    <3> QED BY <2>3, <2>4, <3>2
  <2>5. CASE ~(k <= Len(levels) /\ levels[k].price = level.price) /\ k <= MAX_DEPTH
    <3>1. GoodSide(side, InsertLevel(levels, k, level))
      BY <2>1, <2>2, <2>5, InsertGood
    <3> QED BY <2>3, <2>5, <3>1
  <2>6. CASE ~(k <= Len(levels) /\ levels[k].price = level.price) /\ ~(k <= MAX_DEPTH)
    BY <2>3, <2>6
  <2> QED BY <2>4, <2>5, <2>6
<1> QED BY <1>2, <1>3

--------------------------------------------------------------------------------
(* The processor.                                                          *)

ConsState ==
    [pc : {"collect", "check", "levels"}, ring : 1 .. Rings,
     slot : 1 .. BATCH_SIZE, count : 0 .. BATCH_SIZE, applied : Nat]

\* The processing thread never counts more updates than it has collected, and
\* works on one that it has counted.
Placed(c) ==
    /\ c \in ConsState
    /\ c.pc = "collect" => c.count < c.slot
    /\ c.pc # "collect" => c.slot <= c.count

\* As long as nothing has panicked every registered name has a book.
RegistrationInv == ~panicked => Len(registered) <= MAX_SYMBOLS

\* Every slot of the batch names a book.
BatchInv == \A i \in 1 .. BATCH_SIZE : batch[i].symbol_id \in SymbolIds

IInv ==
    TypeOK /\ BooksGood /\ QueuedSymbolsValid /\ Placed(cons) /\ RegistrationInv /\ BatchInv

Change == [side : Sides, price : Int, qty : Nat]

-----------------------------------------------------------------------------
(* Lemmas about the operators.                                             *)

\* A registered name's id is the index of a book unless a registration panicked.
LEMMA IdValid ==
    ASSUME NEW name, Registered(name), Len(registered) \in Nat, Len(registered) <= MAX_SYMBOLS
    PROVE  IdOf(name) \in SymbolIds
<1> DEFINE k == CHOOSE k \in 1 .. Len(registered) : registered[k] = name
<1>1. k \in 1 .. Len(registered)
  BY DEF Registered
<1>2. IdOf(name) = k - 1
  BY DEF IdOf
<1> HIDE DEF k
<1> QED BY <1>1, <1>2, ProcessorAssumption DEF SymbolIds

\* Integer division by a positive number stays among the naturals.
LEMMA DivNat == ASSUME NEW a \in Nat, NEW b \in Nat \ {0} PROVE a \div b \in Nat
OBVIOUS

\* A converted side is a sequence of levels.
LEMMA ConvertSideType ==
    ASSUME NEW levels \in Seq(RawLevel) PROVE ConvertSide(levels) \in Seq(Level)
<1> DEFINE n == IF Len(levels) < UPDATE_LEVELS THEN Len(levels) ELSE UPDATE_LEVELS
<1>1. n \in Nat /\ n <= Len(levels)
  BY ProcessorAssumption
<1>2. ASSUME NEW i \in 1 .. n
      PROVE  [price |-> levels[i].price \div TickSize, qty |-> levels[i].quantity \div LotSize] \in Level
  <2>1. levels[i] \in RawLevel
    BY <1>1
  <2>2. levels[i].price \in Nat /\ levels[i].quantity \in Nat
    BY <2>1 DEF RawLevel
  <2>3. levels[i].price \div TickSize \in Nat /\ levels[i].quantity \div LotSize \in Nat
    BY <2>2, DivNat, ProcessorAssumption
  <2> QED BY <2>3 DEF Level
<1> QED BY <1>1, <1>2 DEF ConvertSide

\* So a converted update of a registered symbol is a FastUpdate of a book.
LEMMA ConvertType ==
    ASSUME IInv, ~panicked,
           NEW f \in Feeds, NEW id \in Ids, NEW payload \in Payloads, Registered(LookedUpAs[f])
    PROVE  /\ Convert(f, id, payload) \in FastUpdate
           /\ Convert(f, id, payload).symbol_id \in SymbolIds
<1>1. Len(registered) \in Nat /\ Len(registered) <= MAX_SYMBOLS
  BY DEF IInv, TypeOK, RegistrationInv
<1>2. IdOf(LookedUpAs[f]) \in SymbolIds
  BY <1>1, IdValid
<1>3. IdOf(LookedUpAs[f]) \in Nat
  BY <1>2, ProcessorAssumption DEF SymbolIds
<1>4. payload.bids \in Seq(RawLevel) /\ payload.asks \in Seq(RawLevel)
  BY PayloadAssumption
<1>5. ConvertSide(payload.bids) \in Seq(Level) /\ ConvertSide(payload.asks) \in Seq(Level)
  BY <1>4, ConvertSideType
<1>6. id \in Nat
  BY ProcessorAssumption
<1> QED BY <1>2, <1>3, <1>5, <1>6 DEF Convert, FastUpdate

\* The changes of an update each name a side, a price and a quantity.
LEMMA ChangesType == ASSUME NEW u \in FastUpdate PROVE Changes(u) \in Seq(Change)
<1>1. u.bids \in Seq(Level) /\ u.asks \in Seq(Level)
  BY DEF FastUpdate
<1>2. ASSUME NEW side \in Sides, NEW levels \in Seq(Level)
      PROVE  SideChanges(side, levels) \in Seq(Change)
  <2>1. \A i \in 1 .. Len(levels) : levels[i] \in Level
    OBVIOUS
  <2>2. \A i \in 1 .. Len(levels) :
          [side |-> side, price |-> levels[i].price, qty |-> levels[i].qty] \in Change
    BY <2>1 DEF Level, Change
  <2> QED BY <2>2 DEF SideChanges
<1>3. "bid" \in Sides /\ "ask" \in Sides
  BY DEF Sides
<1> QED BY <1>1, <1>2, <1>3 DEF Changes

\* It starts the collection of the next ring with nothing counted.
LEMMA StartRingPlaced ==
    ASSUME NEW r \in 1 .. Rings PROVE Placed(StartRing(NextRing(r)))
<1>1. NextRing(r) \in 1 .. Rings
  BY ProcessorAssumption DEF NextRing
<1>2. 1 \in 1 .. BATCH_SIZE /\ 0 \in 0 .. BATCH_SIZE
  BY ProcessorAssumption
<1> HIDE DEF NextRing
<1> QED BY <1>1, <1>2 DEF StartRing, Placed, ConsState

\* Where the thread goes when a collection ends.
LEMMA CollectedPlaced ==
    ASSUME cons \in ConsState, NEW count \in 0 .. BATCH_SIZE
    PROVE  Placed(Collected(count))
<1>1. CASE count = 0
  BY <1>1, StartRingPlaced DEF Collected, ConsState
<1>2. CASE count # 0
  <2>1. Collected(count) = [cons EXCEPT !.pc = "check", !.slot = 1, !.count = count]
    BY <1>2 DEF Collected
  <2>2. 1 \in 1 .. BATCH_SIZE /\ 1 <= count
    BY <1>2, ProcessorAssumption
  <2> QED BY <2>1, <2>2 DEF Placed, ConsState
<1> QED BY <1>1, <1>2

\* Where it goes when an update is dealt with.
LEMMA DoneWithPlaced ==
    ASSUME Placed(cons), cons.pc # "collect"
    PROVE  Placed(DoneWith)
<1>1. CASE cons.slot = cons.count
  BY <1>1, StartRingPlaced DEF DoneWith, Placed, ConsState
<1>2. CASE cons.slot # cons.count
  <2>1. DoneWith = [cons EXCEPT !.pc = "check", !.slot = @ + 1, !.applied = 0]
    BY <1>2 DEF DoneWith
  <2>2. cons.slot + 1 \in 1 .. BATCH_SIZE /\ cons.slot + 1 <= cons.count
    BY <1>2, ProcessorAssumption DEF Placed, ConsState
  <2> QED BY <2>1, <2>2 DEF Placed, ConsState
<1> QED BY <1>1, <1>2

-----------------------------------------------------------------------------
(* The invariant is inductive.                                             *)

\* At the start every book is empty and nothing is registered or queued.
LEMMA InvInit == Init => IInv
<1> SUFFICES ASSUME Init PROVE IInv
  OBVIOUS
<1>1. NoUpdate \in FastUpdate /\ NoUpdate.symbol_id \in SymbolIds
  BY ProcessorAssumption DEF NoUpdate, FastUpdate, SymbolIds
<1>2. NewBook \in Book
  BY DEF NewBook, Book
<1>3. \A side \in Sides : GoodSide(side, NewBook[side])
  <2>1. \A side \in Sides : NewBook[side] = <<>>
    BY DEF NewBook, Sides
  <2>2. \A side \in Sides : GoodSide(side, <<>>)
    BY DepthAssumption DEF GoodSide, SortedSide
  <2> QED BY <2>1, <2>2
<1>4. NoView \in [last_update_id : Nat, bid : Seq(Level), ask : Seq(Level)]
  BY DEF NoView
<1>5. Placed(cons)
  BY ProcessorAssumption DEF Init, Placed, ConsState
<1>6. TypeOK
  <2>1. registered \in Seq({RegisteredAs[f] : f \in Feeds}) /\ panicked \in BOOLEAN
    <3>1. registered = <<>> /\ panicked = FALSE
      BY DEF Init
    <3>2. <<>> \in Seq({RegisteredAs[f] : f \in Feeds})
      BY EmptySeq
    <3> QED BY <3>1, <3>2
  <2>2. rings \in [1 .. Rings -> Seq(FastUpdate)] /\ \A r \in 1 .. Rings : Len(rings[r]) <= Capacity
    BY ProcessorAssumption DEF Init
  <2>3. batch \in [1 .. BATCH_SIZE -> FastUpdate]
    BY <1>1 DEF Init
  <2>4. /\ books \in [SymbolIds -> Book]
        /\ view \in [Readers -> [last_update_id : Nat, bid : Seq(Level), ask : Seq(Level)]]
        /\ newest \in [Feeds -> Nat]
    BY <1>2, <1>4 DEF Init
  <2> QED BY <1>5, <2>1, <2>2, <2>3, <2>4 DEF TypeOK, Placed, ConsState
<1>7. BooksGood
  BY <1>3 DEF Init, BooksGood
<1>8. QueuedSymbolsValid /\ RegistrationInv /\ BatchInv
  BY <1>1, ProcessorAssumption DEF Init, QueuedSymbolsValid, RegistrationInv, BatchInv
<1> QED BY <1>5, <1>6, <1>7, <1>8 DEF IInv

\* A registration beyond the last book panics.
LEMMA RegisterInv == ASSUME IInv, NEW f \in Feeds, Register(f) PROVE IInv'
<1>1. registered \in Seq({RegisteredAs[g] : g \in Feeds})
  BY DEF IInv, TypeOK
<1>2. registered' = Append(registered, RegisteredAs[f])
  BY DEF Register
<1>3. registered' \in Seq({RegisteredAs[g] : g \in Feeds}) /\ Len(registered') = Len(registered) + 1
  BY <1>1, <1>2
<1>4. UNCHANGED <<rings, batch, cons, books, view, newest>> /\ panicked' = (Len(registered) >= MAX_SYMBOLS)
  BY DEF Register
<1>5. TypeOK'
  BY <1>3, <1>4 DEF IInv, TypeOK
<1>6. RegistrationInv'
  <2>1. ~panicked' => ~(Len(registered) >= MAX_SYMBOLS)
    BY <1>4, Zenon
  <2>2. ~(Len(registered) >= MAX_SYMBOLS) => Len(registered') <= MAX_SYMBOLS
    BY <1>1, <1>3, ProcessorAssumption
  <2> QED BY <2>1, <2>2 DEF RegistrationInv
<1>7. (BooksGood /\ QueuedSymbolsValid /\ Placed(cons) /\ BatchInv)'
  BY <1>4 DEF IInv, BooksGood, QueuedSymbolsValid, Placed, BatchInv
<1> QED BY <1>5, <1>6, <1>7 DEF IInv

\* A pushed update names a book, and the ring had room for it.
LEMMA PushInv ==
    ASSUME IInv, NEW f \in Feeds, NEW id \in Ids, NEW payload \in Payloads, Push(f, id, payload)
    PROVE  IInv'
<1> DEFINE r == RingOf[f]
           u == Convert(f, id, payload)
<1>1. u \in FastUpdate /\ u.symbol_id \in SymbolIds
  BY ConvertType DEF Push
<1>2. r \in 1 .. Rings /\ rings \in [1 .. Rings -> Seq(FastUpdate)]
  BY ProcessorAssumption DEF IInv, TypeOK
<1>3. rings' = [rings EXCEPT ![r] = Append(@, u)] /\ Len(rings[r]) < Capacity
  BY DEF Push
<1>4. UNCHANGED <<registered, panicked, batch, cons, books, view>>
  BY DEF Push
<1>5. newest' \in [Feeds -> Nat]
  BY ProcessorAssumption DEF Push, IInv, TypeOK
<1> HIDE DEF r, u
<1>6. /\ rings'[r] = Append(rings[r], u)
      /\ \A q \in 1 .. Rings : q # r => rings'[q] = rings[q]
      /\ rings' \in [1 .. Rings -> Seq(FastUpdate)]
  BY <1>1, <1>2, <1>3
<1>7. \A q \in 1 .. Rings : Len(rings'[q]) <= Capacity
  <2>1. Len(rings[r]) \in Nat /\ Len(rings'[r]) = Len(rings[r]) + 1 /\ Capacity \in Nat
    BY <1>1, <1>2, <1>6, ProcessorAssumption
  <2>2. Len(rings'[r]) <= Capacity
    BY <1>3, <2>1
  <2> QED
    BY <1>6, <2>2 DEF IInv, TypeOK
<1>8. TypeOK'
  BY <1>4, <1>5, <1>6, <1>7 DEF IInv, TypeOK
<1>9. QueuedSymbolsValid'
  <2> SUFFICES ASSUME NEW q \in 1 .. Rings, NEW i \in 1 .. Len(rings'[q])
               PROVE  rings'[q][i].symbol_id \in SymbolIds
    BY <1>4 DEF QueuedSymbolsValid, SymbolIds
  <2>1. CASE q # r
    BY <2>1, <1>6 DEF IInv, QueuedSymbolsValid
  <2>2. CASE q = r
    <3>1. rings'[q][i] = IF i <= Len(rings[r]) THEN rings[r][i] ELSE u
      BY <2>2, <1>1, <1>2, <1>6
    <3> QED BY <3>1, <1>1, <1>2, <2>2, <1>6 DEF IInv, QueuedSymbolsValid
  <2> QED BY <2>1, <2>2
<1>10. (BooksGood /\ Placed(cons) /\ RegistrationInv /\ BatchInv)'
  BY <1>4 DEF IInv, BooksGood, Placed, RegistrationInv, BatchInv
<1> QED BY <1>8, <1>9, <1>10 DEF IInv

\* A read copies a book as it is.
LEMMA ReadInv == ASSUME IInv, NEW f \in Readers, Read(f) PROVE IInv'
<1>1. Registered(LookedUpAs[f]) /\ ~panicked
  BY DEF Read
<1>2. IdOf(LookedUpAs[f]) \in SymbolIds
  BY <1>1, IdValid DEF IInv, TypeOK, RegistrationInv
<1>3. books[IdOf(LookedUpAs[f])] \in Book
  BY <1>2 DEF IInv, TypeOK
<1>4. Snapshot(IdOf(LookedUpAs[f])) \in [last_update_id : Nat, bid : Seq(Level), ask : Seq(Level)]
  BY <1>3 DEF Snapshot, Book
<1>5. UNCHANGED <<registered, panicked, rings, batch, cons, books, newest>>
  BY DEF Read
<1>6. view' \in [Readers -> [last_update_id : Nat, bid : Seq(Level), ask : Seq(Level)]]
  BY <1>4 DEF Read, IInv, TypeOK
<1>7. TypeOK'
  BY <1>5, <1>6 DEF IInv, TypeOK
<1>8. (BooksGood /\ QueuedSymbolsValid /\ Placed(cons) /\ RegistrationInv /\ BatchInv)'
  BY <1>5 DEF IInv, BooksGood, QueuedSymbolsValid, Placed, RegistrationInv, BatchInv
<1> QED BY <1>7, <1>8 DEF IInv

\* A collected update names a book; the thread's counts stay within the batch.
LEMMA CollectInv == ASSUME IInv, Collect PROVE IInv'
<1> DEFINE r == cons.ring
           u == Head(rings[r])
           valid == u.symbol_id < MAX_SYMBOLS
           count == IF valid THEN cons.count + 1 ELSE cons.count
<1>1. cons \in ConsState /\ cons.pc = "collect" /\ cons.count < cons.slot /\ r \in 1 .. Rings
  BY DEF IInv, Placed, ConsState, Collect
<1>2. rings \in [1 .. Rings -> Seq(FastUpdate)] /\ rings[r] # <<>>
  BY DEF IInv, TypeOK, Collect
<1>3. rings[r] \in Seq(FastUpdate) /\ Len(rings[r]) \in Nat /\ Len(rings[r]) > 0
  BY <1>1, <1>2, EmptySeq
<1>4. u \in FastUpdate /\ u.symbol_id \in SymbolIds
  <2>1. u = rings[r][1] /\ 1 \in 1 .. Len(rings[r])
    BY <1>3
  <2> QED BY <2>1, <1>1, <1>3 DEF IInv, QueuedSymbolsValid
<1>5. valid
  BY <1>4, ProcessorAssumption DEF SymbolIds
<1>6. UNCHANGED <<registered, panicked, books, view, newest>>
  BY DEF Collect
<1>7. batch' = [batch EXCEPT ![cons.slot] = u]
  BY <1>5 DEF Collect
<1>8. cons' = IF cons.slot = BATCH_SIZE THEN Collected(cons.count + 1)
              ELSE [cons EXCEPT !.slot = @ + 1, !.count = cons.count + 1]
  BY <1>5 DEF Collect
<1>9. rings' = [rings EXCEPT ![r] = Tail(@)]
  BY DEF Collect
<1> HIDE DEF u, valid, count, r
<1>10. /\ rings'[r] = Tail(rings[r])
       /\ \A q \in 1 .. Rings : q # r => rings'[q] = rings[q]
       /\ rings' \in [1 .. Rings -> Seq(FastUpdate)]
  BY <1>1, <1>2, <1>3, <1>9
<1>11. \A q \in 1 .. Rings : Len(rings'[q]) <= Capacity
  <2>1. \A q \in 1 .. Rings : Len(rings[q]) <= Capacity
    BY DEF IInv, TypeOK
  <2>2. Len(Tail(rings[r])) <= Capacity
    BY <1>1, <1>3, <2>1, ProcessorAssumption
  <2> QED BY <1>10, <2>1, <2>2
<1>12. Placed(cons')
  <2>1. CASE cons.slot = BATCH_SIZE
    <3>1. cons.count + 1 \in 0 .. BATCH_SIZE
      BY <2>1, <1>1, ProcessorAssumption DEF ConsState
    <3> QED BY <2>1, <3>1, <1>1, <1>8, CollectedPlaced
  <2>2. CASE cons.slot # BATCH_SIZE
    <3>1. cons' = [cons EXCEPT !.slot = @ + 1, !.count = cons.count + 1]
      BY <2>2, <1>8
    <3>2. cons.slot + 1 \in 1 .. BATCH_SIZE /\ cons.count + 1 \in 0 .. BATCH_SIZE
          /\ cons.count + 1 < cons.slot + 1
      BY <2>2, <1>1, ProcessorAssumption DEF ConsState
    <3> QED BY <3>1, <3>2, <1>1 DEF Placed, ConsState
  <2> QED BY <2>1, <2>2
<1>13. batch' \in [1 .. BATCH_SIZE -> FastUpdate] /\ BatchInv'
  BY <1>1, <1>4, <1>7 DEF IInv, TypeOK, BatchInv, ConsState, SymbolIds
<1>14. TypeOK'
  BY <1>6, <1>10, <1>11, <1>12, <1>13 DEF IInv, TypeOK, Placed, ConsState
<1>15. QueuedSymbolsValid'
  <2> SUFFICES ASSUME NEW q \in 1 .. Rings, NEW i \in 1 .. Len(rings'[q])
               PROVE  rings'[q][i].symbol_id \in SymbolIds
    BY DEF QueuedSymbolsValid, SymbolIds
  <2>1. CASE q # r
    BY <2>1, <1>10 DEF IInv, QueuedSymbolsValid
  <2>2. CASE q = r
    <3>1. i + 1 \in 1 .. Len(rings[r]) /\ rings'[q][i] = rings[r][i + 1]
      BY <2>2, <1>3, <1>10
    <3> QED BY <3>1, <1>1 DEF IInv, QueuedSymbolsValid
  <2> QED BY <2>1, <2>2
<1>16. (BooksGood /\ RegistrationInv)'
  BY <1>6 DEF IInv, BooksGood, RegistrationInv
<1> QED BY <1>12, <1>13, <1>14, <1>15, <1>16 DEF IInv

\* The end of a collection on an empty ring.
LEMMA CollectEndInv == ASSUME IInv, CollectEnd PROVE IInv'
<1>1. cons \in ConsState /\ cons.count \in 0 .. BATCH_SIZE /\ cons.slot \in 1 .. BATCH_SIZE
  BY DEF IInv, Placed, ConsState
<1>2. NoUpdate \in FastUpdate /\ NoUpdate.symbol_id \in SymbolIds
  BY ProcessorAssumption DEF NoUpdate, FastUpdate, SymbolIds
<1>3. UNCHANGED <<registered, panicked, rings, books, view, newest>>
  BY DEF CollectEnd
<1>4. Placed(cons')
  BY <1>1, CollectedPlaced DEF CollectEnd
<1>5. batch' \in [1 .. BATCH_SIZE -> FastUpdate] /\ BatchInv'
  BY <1>1, <1>2 DEF CollectEnd, IInv, TypeOK, BatchInv, SymbolIds
<1>6. TypeOK'
  BY <1>3, <1>4, <1>5 DEF IInv, TypeOK, Placed, ConsState
<1>7. (BooksGood /\ QueuedSymbolsValid /\ RegistrationInv)'
  BY <1>3 DEF IInv, BooksGood, QueuedSymbolsValid, RegistrationInv
<1> QED BY <1>4, <1>5, <1>6, <1>7 DEF IInv

\* An update is skipped or begun.
LEMMA CheckUpdateInv == ASSUME IInv, CheckUpdate PROVE IInv'
<1>1. Placed(cons) /\ cons.pc = "check"
  BY DEF IInv, CheckUpdate
<1>2. UNCHANGED <<registered, panicked, rings, batch, books, view, newest>>
  BY DEF CheckUpdate
<1>3. Placed(cons')
  <2>1. Placed([cons EXCEPT !.pc = "levels", !.applied = 0])
    BY <1>1 DEF Placed, ConsState
  <2>2. Placed(DoneWith)
    BY <1>1, DoneWithPlaced
  <2> QED BY <2>1, <2>2 DEF CheckUpdate
<1>4. TypeOK'
  BY <1>2, <1>3 DEF IInv, TypeOK, Placed, ConsState
<1>5. (BooksGood /\ QueuedSymbolsValid /\ RegistrationInv /\ BatchInv)'
  BY <1>2 DEF IInv, BooksGood, QueuedSymbolsValid, RegistrationInv, BatchInv
<1> QED BY <1>3, <1>4, <1>5 DEF IInv

\* The update being applied is one of the batch.
LEMMA CurrentType ==
    ASSUME IInv PROVE Current \in FastUpdate /\ Current.symbol_id \in SymbolIds
BY DEF IInv, TypeOK, BatchInv, Current

\* One level changes on one side of one book, and the side stays in order.
LEMMA ApplyChangeInv == ASSUME IInv, ApplyChange PROVE IInv'
<1> DEFINE s == Current.symbol_id
           c == Changes(Current)[cons.applied + 1]
           level == [price |-> c.price, qty |-> c.qty]
<1>1. s \in SymbolIds /\ Current \in FastUpdate
  BY CurrentType
<1>2. cons.applied \in Nat /\ cons.applied < Len(Changes(Current)) /\ Placed(cons) /\ cons.pc = "levels"
  BY DEF IInv, Placed, ConsState, ApplyChange
<1>3. c \in Change
  BY <1>1, <1>2, ChangesType
<1>4. level \in Level /\ c.side \in Sides
  BY <1>3 DEF Change, Level
<1>5. UNCHANGED <<registered, panicked, rings, batch, view, newest>>
  BY DEF ApplyChange
<1>6. books' = [books EXCEPT ![s][c.side] = ApplyLevel(c.side, @, level)]
  BY DEF ApplyChange
<1>7. cons' = [cons EXCEPT !.applied = @ + 1]
  BY DEF ApplyChange
<1> HIDE DEF s, c, level
<1>8. books \in [SymbolIds -> Book] /\ GoodSide(c.side, books[s][c.side])
  BY <1>1, <1>4 DEF IInv, TypeOK, BooksGood
<1> DEFINE new == ApplyLevel(c.side, books[s][c.side], level)
<1>9. GoodSide(c.side, new)
  BY <1>4, <1>8, ApplyLevelGood
<1>10. new \in Seq(Level)
  BY <1>9 DEF GoodSide
<1>11. books' = [books EXCEPT ![s] = [books[s] EXCEPT ![c.side] = new]]
  BY <1>1, <1>6, <1>8
<1> HIDE DEF new
<1>12. books[s] \in Book
  BY <1>1, <1>8
<1>13. /\ [books[s] EXCEPT ![c.side] = new] \in Book
       /\ \A side \in Sides : [books[s] EXCEPT ![c.side] = new][side] =
                                 IF side = c.side THEN new ELSE books[s][side]
  <2>1. CASE c.side = "bid"
    BY <2>1, <1>10, <1>12 DEF Book, Sides
  <2>2. CASE c.side = "ask"
    BY <2>2, <1>10, <1>12 DEF Book, Sides
  <2> QED BY <2>1, <2>2, <1>4 DEF Sides
<1>14. books' \in [SymbolIds -> Book]
  BY <1>8, <1>11, <1>13
<1>15. BooksGood'
  <2> SUFFICES ASSUME NEW t \in SymbolIds, NEW side \in Sides PROVE GoodSide(side, books'[t][side])
    BY DEF BooksGood, SymbolIds, Sides
  <2>1. CASE t # s
    BY <2>1, <1>8, <1>11 DEF IInv, BooksGood
  <2>2. CASE t = s
    <3>1. books'[t][side] = IF side = c.side THEN new ELSE books[s][side]
      BY <2>2, <1>1, <1>8, <1>11, <1>13
    <3> QED BY <3>1, <1>1, <1>9 DEF IInv, BooksGood
  <2> QED BY <2>1, <2>2
<1>16. Placed(cons')
  BY <1>2, <1>7 DEF Placed, ConsState
<1>17. TypeOK'
  BY <1>5, <1>14, <1>16 DEF IInv, TypeOK, Placed, ConsState
<1>18. (QueuedSymbolsValid /\ RegistrationInv /\ BatchInv)'
  BY <1>5 DEF IInv, QueuedSymbolsValid, RegistrationInv, BatchInv
<1> QED BY <1>15, <1>16, <1>17, <1>18 DEF IInv

\* The book takes the update's id; its sides stay.
LEMMA FinishUpdateInv == ASSUME IInv, FinishUpdate PROVE IInv'
<1> DEFINE s == Current.symbol_id
<1>1. s \in SymbolIds /\ Current.update_id \in Nat
  BY CurrentType DEF FastUpdate
<1>2. Placed(cons) /\ cons.pc = "levels" /\ Placed(cons')
  BY DoneWithPlaced DEF IInv, FinishUpdate
<1>3. UNCHANGED <<registered, panicked, rings, batch, view, newest>>
  BY DEF FinishUpdate
<1>4. books \in [SymbolIds -> Book]
  BY DEF IInv, TypeOK
<1>5. books' = [books EXCEPT ![s] = [books[s] EXCEPT !.last_update_id = Current.update_id,
                                                     !.update_count = @ + 1]]
  BY <1>1, <1>4 DEF FinishUpdate, Book
<1> HIDE DEF s
<1>6. books[s] \in Book
  BY <1>1, <1>4
<1> DEFINE new == [books[s] EXCEPT !.last_update_id = Current.update_id, !.update_count = @ + 1]
<1>a. new \in Book /\ new.bid = books[s].bid /\ new.ask = books[s].ask
  <2>1. ASSUME NEW b \in Book, NEW id \in Nat
        PROVE  LET b2 == [b EXCEPT !.last_update_id = id, !.update_count = @ + 1]
               IN  b2 \in Book /\ b2.bid = b.bid /\ b2.ask = b.ask
    <3> DEFINE b1 == [b EXCEPT !.last_update_id = id]
               b2 == [b1 EXCEPT !.update_count = b.update_count + 1]
    <3>1. b.update_count + 1 \in Nat
      BY DEF Book
    <3>2. b1 \in Book /\ b1.bid = b.bid /\ b1.ask = b.ask
      BY DEF Book
    <3> HIDE DEF b1
    <3>3. b2 \in Book /\ b2.bid = b1.bid /\ b2.ask = b1.ask
      BY <3>1, <3>2 DEF Book
    <3> QED BY <3>2, <3>3 DEF b1
  <2> QED BY <2>1, <1>1, <1>6
<1> HIDE DEF new
<1>7. books' \in [SymbolIds -> Book]
  BY <1>1, <1>4, <1>5, <1>a DEF new
<1>8. \A t \in SymbolIds : books'[t].bid = books[t].bid /\ books'[t].ask = books[t].ask
  BY <1>1, <1>4, <1>5, <1>a DEF new
<1>9. BooksGood'
  BY <1>8 DEF IInv, BooksGood, Sides, SymbolIds
<1>10. TypeOK'
  BY <1>2, <1>3, <1>7 DEF IInv, TypeOK, Placed, ConsState
<1>11. (QueuedSymbolsValid /\ RegistrationInv /\ BatchInv)'
  BY <1>3 DEF IInv, QueuedSymbolsValid, RegistrationInv, BatchInv
<1> QED BY <1>2, <1>9, <1>10, <1>11 DEF IInv

\* Every action preserves the invariant.
LEMMA InvStep == IInv /\ [Next]_vars => IInv'
<1> SUFFICES ASSUME IInv, [Next]_vars PROVE IInv'
  OBVIOUS
<1>1. CASE UNCHANGED vars
  BY <1>1 DEF vars, IInv, TypeOK, BooksGood, QueuedSymbolsValid, Placed, RegistrationInv, BatchInv
<1>2. ASSUME NEW f \in Feeds, Register(f) PROVE IInv'
  BY <1>2, RegisterInv
<1>3. ASSUME NEW f \in Feeds, NEW id \in Ids, NEW payload \in Payloads, Push(f, id, payload) PROVE IInv'
  BY <1>3, PushInv
<1>4. ASSUME NEW f \in Readers, Read(f) PROVE IInv'
  BY <1>4, ReadInv
<1>5. CASE Process
  BY <1>5, CollectInv, CollectEndInv, CheckUpdateInv, ApplyChangeInv, FinishUpdateInv DEF Process
<1> QED BY <1>1, <1>2, <1>3, <1>4, <1>5 DEF Next

\* IInv is inductive.
LEMMA Invariance == Spec => []IInv
BY InvInit, InvStep, PTL DEF Spec

-----------------------------------------------------------------------------
(* The theorems.                                                           *)

\* Every variable keeps its type and no ring exceeds its capacity, whatever the
\* feeds push and however the threads interleave.
THEOREM TypeCorrect == Spec => []TypeOK
<1>1. IInv => TypeOK
  BY DEF IInv
<1> QED BY <1>1, Invariance, PTL

\* Whatever stream of updates arrives, every side of every book stays strictly
\* sorted, within MAX_DEPTH and without empty levels, also between two changes
\* of one update: update_bid, update_ask, remove_bid and remove_ask.
THEOREM BooksAlwaysGood == Spec => []BooksGood
<1>1. IInv => BooksGood
  BY DEF IInv
<1> QED BY <1>1, Invariance, PTL

\* Every update in a ring names one of the MAX_SYMBOLS books, so that
\* process_ring_batched never leaves a hole in its batch: a registration beyond
\* the last book panics before anything is converted with its id.
THEOREM QueuedAlwaysValid == Spec => []QueuedSymbolsValid
<1>1. IInv => QueuedSymbolsValid
  BY DEF IInv
<1> QED BY <1>1, Invariance, PTL

--------------------------------------------------------------------------------
(* The ladders of the books.                                               *)

\* The first n levels of an array are in order.
Ordered(side, L, n) ==
    /\ n \in Nat
    /\ \A i \in 1 .. n : L[i] \in Level
    /\ \A i, j \in 1 .. n : i < j => Before(side, L[i].price, L[j].price)

\* They, as a set.
FirstOf(L, n) == {L[k] : k \in 1 .. n}

-----------------------------------------------------------------------------
(* Which levels are the best.                                              *)

\* The abstract ladder counts like this module.
LEMMA SameCardinality == ASSUME NEW S PROVE Ladder!Cardinality(S) = Cardinality(S)
BY DEF Ladder!Cardinality, Cardinality

\* In an array in order the better levels are the ones in front.
LEMMA BetterInFront ==
    ASSUME NEW side \in Sides, NEW L, NEW n, Ordered(side, L, n), NEW k \in 1 .. n
    PROVE  Cardinality({m \in FirstOf(L, n) : Ladder!Better(side, m, L[k])}) = k - 1
<1> DEFINE T == {m \in FirstOf(L, n) : Ladder!Better(side, m, L[k])}
           F == [j \in 1 .. k - 1 |-> L[j]]
<1>1. n \in Nat /\ k - 1 \in Nat /\ \A j \in 1 .. n : L[j] \in Level
  BY DEF Ordered
<1>2. \A j \in 1 .. n : Ladder!Better(side, L[j], L[k]) <=> j < k
  <2> SUFFICES ASSUME NEW j \in 1 .. n PROVE Ladder!Better(side, L[j], L[k]) <=> j < k
    OBVIOUS
  <2>1. L[j].price \in Int /\ L[k].price \in Int
    BY <1>1 DEF Level
  <2>2. Ladder!Better(side, L[j], L[k]) <=> Before(side, L[j].price, L[k].price)
    BY DEF Ladder!Better, Before
  <2>3. j < k => Before(side, L[j].price, L[k].price)
    BY DEF Ordered
  <2>4. k < j => Before(side, L[k].price, L[j].price)
    BY DEF Ordered
  <2>5. ~(j < k) => ~Before(side, L[j].price, L[k].price)
    BY <2>1, <2>4, <1>1 DEF Before
  <2> QED
    BY <2>2, <2>3, <2>5
<1>3. T = {L[j] : j \in 1 .. k - 1}
  BY <1>1, <1>2 DEF FirstOf
<1>4. \A i, j \in 1 .. k - 1 : L[i] = L[j] => i = j
  <2> SUFFICES ASSUME NEW i \in 1 .. k - 1, NEW j \in 1 .. k - 1, i < j PROVE L[i] # L[j]
    BY <1>1
  <2>1. Before(side, L[i].price, L[j].price) /\ L[i].price \in Int
    BY <1>1 DEF Ordered, Level
  <2> QED
    BY <2>1 DEF Before
<1> HIDE DEF T
<1>5. F \in Bijection(1 .. k - 1, T)
  BY <1>3, <1>4 DEF Bijection, Injection, Surjection, IsInjective
<1>6. ExistsBijection(1 .. k - 1, T)
  BY <1>5 DEF ExistsBijection
<1>7. IsFiniteSet(1 .. k - 1) /\ Cardinality(1 .. k - 1) = k - 1
  BY <1>1, FS_Interval
<1>8. Cardinality(T) = k - 1
  BY <1>6, <1>7, FS_Bijection
<1> QED
  BY <1>8 DEF T

\* The best levels are the first.
LEMMA TrimIsPrefix ==
    ASSUME NEW side \in Sides, NEW L, NEW n, Ordered(side, L, n)
    PROVE  Ladder!Trim(side, FirstOf(L, n)) = FirstOf(L, IF n < MAX_DEPTH THEN n ELSE MAX_DEPTH)
<1> DEFINE better(l) == {m \in FirstOf(L, n) : Ladder!Better(side, m, l)}
<1>1. n \in Nat /\ MAX_DEPTH \in Nat
  BY DepthAssumption DEF Ordered
<1>2. \A k \in 1 .. n : Cardinality(better(L[k])) = k - 1
  BY BetterInFront
<1>3. Ladder!Trim(side, FirstOf(L, n)) = {l \in FirstOf(L, n) : Cardinality(better(l)) < MAX_DEPTH}
  BY SameCardinality DEF Ladder!Trim
<1> HIDE DEF better
<1>4. {l \in FirstOf(L, n) : Cardinality(better(l)) < MAX_DEPTH} = {L[k] : k \in {i \in 1 .. n : i - 1 < MAX_DEPTH}}
  BY <1>2 DEF FirstOf
<1>5. {i \in 1 .. n : i - 1 < MAX_DEPTH} = 1 .. (IF n < MAX_DEPTH THEN n ELSE MAX_DEPTH)
  BY <1>1
<1> QED
  BY <1>3, <1>4, <1>5 DEF FirstOf

\* A side in order is an ordered array that is not too long.
LEMMA GoodIsOrdered ==
    ASSUME NEW side \in Sides, NEW levels, GoodSide(side, levels)
    PROVE  /\ Ordered(side, levels, Len(levels))
           /\ LevelSet(levels) = FirstOf(levels, Len(levels))
           /\ Ladder!Trim(side, LevelSet(levels)) = LevelSet(levels)
<1>1. Ordered(side, levels, Len(levels))
  BY DEF GoodSide, SortedSide, Ordered
<1>2. LevelSet(levels) = FirstOf(levels, Len(levels))
  BY DEF LevelSet, FirstOf
<1>3. Len(levels) \in Nat /\ Len(levels) <= MAX_DEPTH /\ MAX_DEPTH \in Nat
  BY DepthAssumption DEF GoodSide
<1>4. (IF Len(levels) < MAX_DEPTH THEN Len(levels) ELSE MAX_DEPTH) = Len(levels)
  BY <1>3
<1> QED
  BY <1>1, <1>2, <1>4, TrimIsPrefix

-----------------------------------------------------------------------------
(* Each operation does what Put does.                                      *)

Others(S, price) == {l \in S : l.price # price}

\* A price occurs once.
LEMMA OthersOf ==
    ASSUME NEW side \in Sides, NEW levels, GoodSide(side, levels),
           NEW k \in 1 .. Len(levels)
    PROVE  Others(LevelSet(levels), levels[k].price) = {levels[j] : j \in (1 .. Len(levels)) \ {k}}
<1>1. levels \in Seq(Level) /\ Len(levels) \in Nat
  BY DEF GoodSide
<1>2. \A i \in 1 .. Len(levels) : levels[i].price \in Int
  <2>1. \A i \in 1 .. Len(levels) : levels[i] \in Level
    BY <1>1
  <2> QED
    BY <2>1 DEF Level
<1>3. \A i, j \in 1 .. Len(levels) : i < j => levels[i].price # levels[j].price
  BY <1>2 DEF GoodSide, SortedSide, Before
<1>4. \A j \in 1 .. Len(levels) : levels[j].price # levels[k].price <=> j # k
  BY <1>1, <1>3
<1> QED
  BY <1>4 DEF Others, LevelSet

\* A replaced level.
LEMMA ReplacePut ==
    ASSUME NEW side \in Sides, NEW levels, GoodSide(side, levels),
           NEW k \in 1 .. Len(levels), NEW qty \in Nat, qty > 0
    PROVE  LevelSet([levels EXCEPT ![k].qty = qty]) =
             Ladder!Trim(side, Others(LevelSet(levels), levels[k].price)
                                 \cup {[price |-> levels[k].price, qty |-> qty]})
<1> DEFINE new == [levels EXCEPT ![k].qty = qty]
           level == [price |-> levels[k].price, qty |-> qty]
<1>1. levels \in Seq(Level) /\ Len(levels) \in Nat
  BY DEF GoodSide
<1>2. levels[k] \in Level
  BY <1>1
<1>3. GoodSide(side, new)
  BY ReplaceGood
<1>4. [levels[k] EXCEPT !.qty = qty] = level
  BY <1>2 DEF Level
<1>5. Len(new) = Len(levels) /\ \A j \in 1 .. Len(levels) : new[j] = IF j = k THEN level ELSE levels[j]
  BY <1>1, <1>4
<1> HIDE DEF new, level
<1>6. LevelSet(new) = {levels[j] : j \in (1 .. Len(levels)) \ {k}} \cup {level}
  BY <1>5 DEF LevelSet
<1>7. LevelSet(new) = Others(LevelSet(levels), levels[k].price) \cup {level}
  BY <1>6, OthersOf
<1>8. Ladder!Trim(side, LevelSet(new)) = LevelSet(new)
  BY <1>3, GoodIsOrdered
<1> QED
  BY <1>7, <1>8 DEF new, level

\* A level taken out.
LEMMA DropOthers ==
    ASSUME NEW side \in Sides, NEW levels, GoodSide(side, levels), NEW k \in 1 .. Len(levels)
    PROVE  LevelSet(DropLevel(levels, k)) = Others(LevelSet(levels), levels[k].price)
<1> DEFINE n == Len(levels)
           new == DropLevel(levels, k)
<1>1. levels \in Seq(Level) /\ n \in Nat /\ n - 1 \in Nat
  BY DEF GoodSide
<1>2. GoodSide(side, new)
  BY DropGood
<1>3. new = [j \in 1 .. n - 1 |-> IF j < k THEN levels[j] ELSE levels[j + 1]]
  BY DEF DropLevel
<1>4. Len(new) = n - 1
  BY <1>1, <1>2, <1>3 DEF GoodSide
<1> HIDE DEF new
<1>5. LevelSet(new) \subseteq {levels[j] : j \in (1 .. n) \ {k}}
  <2> SUFFICES ASSUME NEW j \in 1 .. n - 1 PROVE new[j] \in {levels[i] : i \in (1 .. n) \ {k}}
    BY <1>4 DEF LevelSet
  <2>1. CASE j < k
    BY <2>1, <1>1, <1>3
  <2>2. CASE ~(j < k)
    <3>1. j + 1 \in (1 .. n) \ {k} /\ new[j] = levels[j + 1]
      BY <2>2, <1>1, <1>3
    <3> QED
      BY <3>1
  <2> QED
    BY <2>1, <2>2
<1>6. {levels[j] : j \in (1 .. n) \ {k}} \subseteq LevelSet(new)
  <2> SUFFICES ASSUME NEW j \in (1 .. n) \ {k} PROVE \E i \in 1 .. n - 1 : new[i] = levels[j]
    BY <1>4 DEF LevelSet
  <2>1. CASE j < k
    <3>1. j \in 1 .. n - 1 /\ new[j] = levels[j]
      BY <2>1, <1>1, <1>3
    <3> QED
      BY <3>1
  <2>2. CASE j > k
    <3>1. j - 1 \in 1 .. n - 1 /\ ~(j - 1 < k) /\ (j - 1) + 1 = j
      BY <2>2, <1>1
    <3>2. new[j - 1] = levels[j]
      BY <3>1, <1>3
    <3> QED
      BY <3>1, <3>2
  <2> QED
    BY <2>1, <2>2, <1>1
<1> QED
  BY <1>5, <1>6, OthersOf DEF new

\* A new level where the scan stopped, as if nothing had to be dropped.
Inserted(levels, k, level) ==
    [j \in 1 .. Len(levels) + 1 |->
        IF j < k THEN levels[j] ELSE IF j = k THEN level ELSE levels[j - 1]]

\* A level inserted where its price belongs leaves a side ordered.
LEMMA InsertedOrdered ==
    ASSUME NEW side \in Sides, NEW levels, GoodSide(side, levels),
           NEW level \in Level, NEW k, StopsAt(side, levels, level.price, k),
           k <= Len(levels) => levels[k].price # level.price
    PROVE  /\ Ordered(side, Inserted(levels, k, level), Len(levels) + 1)
           /\ FirstOf(Inserted(levels, k, level), Len(levels) + 1) =
                Others(LevelSet(levels), level.price) \cup {level}
<1> DEFINE n == Len(levels)
           F == Inserted(levels, k, level)
<1>1. levels \in Seq(Level) /\ n \in Nat /\ k \in 1 .. n + 1
  BY DEF GoodSide, StopsAt
<1>2. \A j \in 1 .. n : levels[j] \in Level
  BY <1>1
<1>3. level.price \in Int /\ \A j \in 1 .. n : levels[j].price \in Int
  BY <1>2 DEF Level
<1>4. \A j \in 1 .. n : j < k => Before(side, levels[j].price, level.price)
  BY <1>1 DEF StopsAt
<1>5. \A j \in 1 .. n : j >= k => Before(side, level.price, levels[j].price)
  <2>1. k <= n => Before(side, level.price, levels[k].price)
    BY <1>1, <1>3 DEF StopsAt, Before
  <2> SUFFICES ASSUME NEW j \in 1 .. n, j > k PROVE Before(side, level.price, levels[j].price)
    BY <2>1, <1>1
  <2>2. k \in 1 .. n /\ Before(side, levels[k].price, levels[j].price)
    BY <1>1 DEF GoodSide, SortedSide
  <2> QED
    BY <2>1, <2>2, <1>1, <1>3 DEF Before
\* The place of an old level in the new array.
<1> DEFINE at(j) == IF j < k THEN j ELSE j + 1
<1>6. /\ \A j \in 1 .. n : at(j) \in (1 .. n + 1) \ {k} /\ F[at(j)] = levels[j]
      /\ F[k] = level
  BY <1>1 DEF Inserted
<1>7. \A i \in (1 .. n + 1) \ {k} : \E j \in 1 .. n : i = at(j)
  <2> SUFFICES ASSUME NEW i \in (1 .. n + 1) \ {k} PROVE \E j \in 1 .. n : i = at(j)
    OBVIOUS
  <2>1. CASE i < k
    BY <2>1, <1>1
  <2>2. CASE i > k
    <3>1. i - 1 \in 1 .. n /\ i = at(i - 1)
      BY <2>2, <1>1
    <3> QED
      BY <3>1
  <2> QED
    BY <2>1, <2>2, <1>1
<1>8. \A i, j \in 1 .. n : at(i) < at(j) => i < j
  BY <1>1
<1>9. \A j \in 1 .. n : (at(j) < k <=> j < k) /\ (at(j) > k <=> j >= k)
  BY <1>1
<1> HIDE DEF F, at
<1>10. Ordered(side, F, n + 1)
  <2>1. \A i \in 1 .. n + 1 : F[i] \in Level
    <3> SUFFICES ASSUME NEW i \in 1 .. n + 1 PROVE F[i] \in Level
      OBVIOUS
    <3>1. CASE i = k
      BY <3>1, <1>6
    <3>2. CASE i # k
      <4>1. PICK j \in 1 .. n : i = at(j)
        BY <3>2, <1>7
      <4> QED
        BY <4>1, <1>2, <1>6
    <3> QED
      BY <3>1, <3>2
  <2>2. ASSUME NEW i \in 1 .. n + 1, NEW j \in 1 .. n + 1, i < j
        PROVE  Before(side, F[i].price, F[j].price)
    <3>1. CASE i = k
      <4>1. PICK b \in 1 .. n : j = at(b)
        BY <2>2, <3>1, <1>1, <1>7
      <4>2. b >= k
        BY <2>2, <3>1, <4>1, <1>9
      <4> QED
        BY <3>1, <4>1, <4>2, <1>5, <1>6
    <3>2. CASE j = k
      <4>1. PICK a \in 1 .. n : i = at(a)
        BY <2>2, <3>2, <1>1, <1>7
      <4>2. a < k
        BY <2>2, <3>2, <4>1, <1>9
      <4> QED
        BY <3>2, <4>1, <4>2, <1>4, <1>6
    <3>3. CASE i # k /\ j # k
      <4>1. PICK a \in 1 .. n : i = at(a)
        BY <3>3, <1>7
      <4>2. PICK b \in 1 .. n : j = at(b)
        BY <3>3, <1>7
      <4>3. a < b
        BY <2>2, <4>1, <4>2, <1>8
      <4>4. Before(side, levels[a].price, levels[b].price)
        BY <4>3 DEF GoodSide, SortedSide
      <4> QED
        BY <4>1, <4>2, <4>4, <1>6
    <3> QED
      BY <3>1, <3>2, <3>3
  <2> QED
    BY <1>1, <2>1, <2>2 DEF Ordered
<1>11. Others(LevelSet(levels), level.price) = LevelSet(levels)
  <2>1. \A j \in 1 .. n : levels[j].price # level.price
    BY <1>1, <1>3, <1>4, <1>5 DEF Before
  <2> QED
    BY <2>1 DEF Others, LevelSet
<1>12. FirstOf(F, n + 1) = LevelSet(levels) \cup {level}
  <2>1. FirstOf(F, n + 1) = {F[i] : i \in (1 .. n + 1) \ {k}} \cup {F[k]}
    BY <1>1 DEF FirstOf
  <2>2. {F[i] : i \in (1 .. n + 1) \ {k}} = LevelSet(levels)
    BY <1>6, <1>7, SMTT(30) DEF LevelSet
  <2> QED
    BY <2>1, <2>2, <1>6
<1> QED
  BY <1>10, <1>11, <1>12 DEF F

\* What the array keeps of it.
LEMMA InsertPut ==
    ASSUME NEW side \in Sides, NEW levels, GoodSide(side, levels),
           NEW level \in Level, level.qty > 0,
           NEW k, StopsAt(side, levels, level.price, k),
           k <= Len(levels) => levels[k].price # level.price
    PROVE  LevelSet(IF k <= MAX_DEPTH THEN InsertLevel(levels, k, level) ELSE levels) =
             Ladder!Trim(side, Others(LevelSet(levels), level.price) \cup {level})
<1> DEFINE n == Len(levels)
           m == IF n < MAX_DEPTH THEN n + 1 ELSE MAX_DEPTH
           F == Inserted(levels, k, level)
           new == InsertLevel(levels, k, level)
<1>1. levels \in Seq(Level) /\ n \in Nat /\ k \in 1 .. n + 1 /\ n <= MAX_DEPTH /\ MAX_DEPTH \in Nat
  BY DepthAssumption DEF GoodSide, StopsAt
<1>2. m \in Nat /\ m <= n + 1 /\ m = (IF n + 1 < MAX_DEPTH THEN n + 1 ELSE MAX_DEPTH)
  BY <1>1
<1>3. Ladder!Trim(side, Others(LevelSet(levels), level.price) \cup {level}) = FirstOf(F, m)
  <2>1. Ordered(side, F, n + 1) /\ FirstOf(F, n + 1) = Others(LevelSet(levels), level.price) \cup {level}
    BY InsertedOrdered
  <2> HIDE DEF F, m, n
  <2> QED
    BY <2>1, <1>2, TrimIsPrefix
<1>4. CASE k <= MAX_DEPTH
  <2>1. GoodSide(side, new)
    BY <1>4, InsertGood
  <2>2. new = [j \in 1 .. m |-> IF j < k THEN levels[j] ELSE IF j = k THEN level ELSE levels[j - 1]]
    BY DEF InsertLevel
  <2>3. new \in Seq(Level)
    BY <2>1 DEF GoodSide
  <2> HIDE DEF new
  <2>4. Len(new) = m
    BY <1>2, <2>2, <2>3
  <2>5. \A j \in 1 .. m : new[j] = F[j]
    BY <1>1, <1>2, <2>2 DEF Inserted
  <2> HIDE DEF m, F
  <2>6. LevelSet(new) = FirstOf(F, m)
    BY <2>4, <2>5 DEF LevelSet, FirstOf
  <2> QED
    BY <1>3, <1>4, <2>6 DEF new
<1>5. CASE ~(k <= MAX_DEPTH)
  <2>1. k = n + 1 /\ n = m
    BY <1>1, <1>5
  <2>2. \A j \in 1 .. n : levels[j] = F[j]
    BY <1>1, <2>1 DEF Inserted
  <2> HIDE DEF F, m
  <2>3. LevelSet(levels) = FirstOf(F, m)
    BY <2>1, <2>2 DEF LevelSet, FirstOf
  <2> QED
    BY <1>3, <1>5, <2>3
<1> QED
  BY <1>4, <1>5

\* So one iteration of apply_update's loops is one change of the ladder.
LEMMA ApplyIsPut ==
    ASSUME NEW side \in Sides, NEW levels, GoodSide(side, levels), NEW price \in Int, NEW qty \in Nat
    PROVE  LevelSet(ApplyLevel(side, levels, [price |-> price, qty |-> qty])) =
             Ladder!Put(LevelSet(levels), [side |-> side, price |-> price, qty |-> qty])
<1> DEFINE level == [price |-> price, qty |-> qty]
           c == [side |-> side, price |-> price, qty |-> qty]
           S == LevelSet(levels)
<1>1. levels \in Seq(Level) /\ Len(levels) \in Nat /\ level \in Level
  BY DEF GoodSide, Level
<1>2. Ladder!Put(S, c) = IF qty = 0 THEN Others(S, price)
                         ELSE Ladder!Trim(side, Others(S, price) \cup {level})
  BY DEF Ladder!Put, Others
<1>3. CASE qty = 0
  <2>1. ApplyLevel(side, levels, level) = RemoveLevel(levels, price)
    BY <1>3 DEF ApplyLevel
  <2>2. CASE \E k \in 1 .. Len(levels) : levels[k].price = price
    <3>1. PICK k \in 1 .. Len(levels) : levels[k].price = price
      BY <2>2
    <3>2. \A j \in 1 .. k - 1 : levels[j].price # price
      <4> SUFFICES ASSUME NEW j \in 1 .. k - 1, levels[j].price = price PROVE FALSE
        OBVIOUS
      <4>1. Before(side, levels[j].price, levels[k].price)
        BY <1>1 DEF GoodSide, SortedSide
      <4> QED
        BY <4>1, <3>1 DEF Before
    <3>3. HasPrice(levels, price, k)
      BY <3>1, <3>2 DEF HasPrice
    <3> DEFINE i == CHOOSE i \in 1 .. Len(levels) : HasPrice(levels, price, i)
    <3>4. i \in 1 .. Len(levels) /\ levels[i].price = price
      BY <3>3 DEF HasPrice
    <3>5. RemoveLevel(levels, price) = DropLevel(levels, i)
      BY <2>2 DEF RemoveLevel
    <3> HIDE DEF i
    <3>6. LevelSet(DropLevel(levels, i)) = Others(S, price)
      BY <3>4, DropOthers
    <3> QED
      BY <1>2, <1>3, <2>1, <3>5, <3>6
  <2>3. CASE ~\E k \in 1 .. Len(levels) : levels[k].price = price
    <3>1. RemoveLevel(levels, price) = levels
      BY <2>3 DEF RemoveLevel
    <3>2. Others(S, price) = S
      BY <2>3 DEF Others, LevelSet
    <3> QED
      BY <1>2, <1>3, <2>1, <3>1, <3>2
  <2> QED
    BY <2>2, <2>3
<1>4. CASE qty # 0
  <2> DEFINE k == ScanIndex(side, levels, price)
  <2>1. StopsAt(side, levels, price, k) /\ k \in 1 .. Len(levels) + 1
    BY <1>1, ScanStops DEF StopsAt
  <2>2. ApplyLevel(side, levels, level) =
          IF k <= Len(levels) /\ levels[k].price = price
          THEN [levels EXCEPT ![k].qty = qty]
          ELSE IF k <= MAX_DEPTH THEN InsertLevel(levels, k, level) ELSE levels
    BY <1>4 DEF ApplyLevel, UpdateLevel
  <2> HIDE DEF k
  <2>3. CASE k <= Len(levels) /\ levels[k].price = price
    <3>1. k \in 1 .. Len(levels) /\ qty > 0
      BY <2>1, <2>3, <1>1, <1>4
    <3>2. LevelSet([levels EXCEPT ![k].qty = qty]) =
            Ladder!Trim(side, Others(S, price) \cup {level})
      BY <3>1, <2>3, ReplacePut
    <3> QED
      BY <1>2, <1>4, <2>2, <2>3, <3>2
  <2>4. CASE ~(k <= Len(levels) /\ levels[k].price = price)
    <3>1. level.qty > 0 /\ level.price = price
      BY <1>4
    <3>2. LevelSet(IF k <= MAX_DEPTH THEN InsertLevel(levels, k, level) ELSE levels) =
            Ladder!Trim(side, Others(S, price) \cup {level})
      <4> HIDE DEF level, S
      <4>1. StopsAt(side, levels, level.price, k) /\ (k <= Len(levels) => levels[k].price # level.price)
        BY <2>1, <2>4, <3>1
      <4>2. LevelSet(IF k <= MAX_DEPTH THEN InsertLevel(levels, k, level) ELSE levels) =
              Ladder!Trim(side, Others(LevelSet(levels), level.price) \cup {level})
        BY <1>1, <3>1, <4>1, InsertPut
      <4> QED
        BY <3>1, <4>2 DEF S
    <3> QED
      BY <1>2, <1>4, <2>2, <2>4, <3>2
  <2> QED
    BY <2>3, <2>4
<1> QED
  BY <1>3, <1>4

-----------------------------------------------------------------------------
(* The processor implements the ladder.                                    *)

LadderOf(bs) == [s \in SymbolIds |-> [side \in Sides |-> LevelSet(bs[s][side])]]
VersionOf(bs) == [s \in SymbolIds |-> bs[s].last_update_id]

\* The variables of the ladder depend on the books and the task only.
LEMMA LadderVars ==
    ASSUME books' = books, Task' = Task PROVE UNCHANGED Ladder!vars
BY DEF Ladder!vars, SymbolIds, Sides, LevelSet

\* Empty books are an empty ladder.
LEMMA LadderInit == Init => Ladder!Init
<1> SUFFICES ASSUME Init PROVE Ladder!Init
  OBVIOUS
<1>1. \A s \in SymbolIds : books[s] = NewBook
  BY DEF Init
<1>2. \A side \in Sides : NewBook[side] = <<>>
  BY DEF NewBook, Sides
<1>3. LevelSet(<<>>) = {}
  BY DEF LevelSet
<1>4. Task = Ladder!Idle
  BY DEF Init, Task, Ladder!Idle
<1>5. [s \in SymbolIds |-> [side \in Sides |-> LevelSet(books[s][side])]]
        = [s \in SymbolIds |-> [side \in {"bid", "ask"} |-> {}]]
  BY <1>1, <1>2, <1>3 DEF Sides
<1>6. [s \in SymbolIds |-> books[s].last_update_id] = [s \in SymbolIds |-> 0]
  BY <1>1 DEF NewBook
<1> QED
  BY <1>4, <1>5, <1>6 DEF Ladder!Init

\* An update that is begun is newer than its book, and none of it is done.
LEMMA CheckUpdateSteps ==
    ASSUME IInv, CheckUpdate PROVE [Ladder!Next]_(Ladder!vars)
<1> DEFINE u == Current
           all == Changes(Current)
<1>1. cons \in ConsState /\ cons.pc = "check" /\ UNCHANGED <<batch, books>>
  BY DEF IInv, Placed, CheckUpdate
<1>2. Task = Ladder!Idle
  BY <1>1 DEF Task, Ladder!Idle
<1>3. CASE u = NoUpdate \/ u.update_id <= books[u.symbol_id].last_update_id
  <2>1. cons' = DoneWith
    BY <1>3 DEF CheckUpdate
  <2>2. cons'.pc # "levels"
    BY <2>1, <1>1 DEF DoneWith, StartRing, ConsState
  <2>3. Task' = Task
    BY <1>1, <2>2 DEF Task
  <2> QED
    BY <1>1, <2>3, LadderVars
<1>4. CASE ~(u = NoUpdate \/ u.update_id <= books[u.symbol_id].last_update_id)
  <2>1. cons' = [cons EXCEPT !.pc = "levels", !.applied = 0]
    BY <1>4 DEF CheckUpdate
  <2>2. cons'.pc = "levels" /\ cons'.applied = 0 /\ cons'.slot = cons.slot
    BY <1>1, <2>1 DEF ConsState
  <2>3. Current' = Current
    BY <1>1, <2>2 DEF Current
  <2>4. u \in FastUpdate /\ u.symbol_id \in SymbolIds /\ all \in Seq(Change)
    BY CurrentType, ChangesType
  <2>5. u.update_id \in Nat /\ books[u.symbol_id].last_update_id \in Nat
    BY <2>4 DEF FastUpdate, IInv, TypeOK, Book
  <2>6. Changes(Current)' = all
    BY <2>3 DEF Changes, SideChanges
  <2>7. Task' = [symbol |-> u.symbol_id, id |-> u.update_id, changes |-> SubSeq(all, 1, Len(all))]
    BY <2>2, <2>3, <2>6 DEF Task
  <2> HIDE DEF all
  <2>8. SubSeq(all, 1, Len(all)) = all
    BY <2>4
  <2>9. Task' = [symbol |-> u.symbol_id, id |-> u.update_id, changes |-> all]
    BY <2>7, <2>8
  <2>10. Change = Ladder!Change
    BY DEF Change, Ladder!Change, Sides
  <2>11. Task' \in [symbol : SymbolIds, id : Nat, changes : Seq(Ladder!Change)]
    BY <2>4, <2>5, <2>9, <2>10
  <2>12. Task'.id > VersionOf(books)[Task'.symbol]
    BY <1>4, <2>4, <2>5, <2>9 DEF VersionOf
  <2>13. LadderOf(books)' = LadderOf(books) /\ VersionOf(books)' = VersionOf(books)
    BY <1>1 DEF LadderOf, VersionOf, SymbolIds, Sides, LevelSet
  <2>14. Ladder!Begin
    BY <1>2, <2>11, <2>12, <2>13 DEF Ladder!Begin, LadderOf, VersionOf
  <2> QED
    BY <2>14 DEF Ladder!Next
<1> QED
  BY <1>3, <1>4

\* The first of the changes left, and the others.
LEMMA RestOf ==
    ASSUME NEW S, NEW q \in Seq(S), NEW i \in 1 .. Len(q)
    PROVE  /\ SubSeq(q, i, Len(q)) # <<>>
           /\ Head(SubSeq(q, i, Len(q))) = q[i]
           /\ Tail(SubSeq(q, i, Len(q))) = SubSeq(q, i + 1, Len(q))
<1>1. Len(q) \in i .. Len(q)
  OBVIOUS
<1>2. Len(SubSeq(q, i, Len(q))) = Len(q) - i + 1
  BY <1>1
<1>3. SubSeq(q, i, Len(q)) # <<>>
  <2>1. Len(SubSeq(q, i, Len(q))) # 0
    BY <1>1, <1>2
  <2>2. Len(<<>>) = 0
    OBVIOUS
  <2> QED
    BY <2>1, <2>2, Zenon
<1> QED
  BY <1>1, <1>3, HeadTailOfSubSeq

\* The next change.
LEMMA ApplyChangeSteps ==
    ASSUME IInv, ApplyChange PROVE Ladder!Step
<1> DEFINE s == Current.symbol_id
           all == Changes(Current)
           a == cons.applied
           c == all[a + 1]
           level == [price |-> c.price, qty |-> c.qty]
           old == books[s][c.side]
           new == ApplyLevel(c.side, old, level)
<1>1. cons \in ConsState /\ cons.pc = "levels" /\ batch' = batch
  BY DEF IInv, Placed, ApplyChange
<1>2. Current \in FastUpdate /\ s \in SymbolIds /\ all \in Seq(Change)
  BY CurrentType, ChangesType
<1>3. a \in Nat /\ a < Len(all) /\ Len(all) \in Nat
  BY <1>1, <1>2 DEF ApplyChange, ConsState
<1>4. c \in Change
  BY <1>2, <1>3
<1>5. books' = [books EXCEPT ![s][c.side] = ApplyLevel(c.side, @, level)]
  BY DEF ApplyChange
<1>6. cons' = [cons EXCEPT !.applied = a + 1]
  BY DEF ApplyChange
<1>7. cons'.pc = "levels" /\ cons'.applied = a + 1 /\ cons'.slot = cons.slot
  BY <1>1, <1>6 DEF ConsState
<1>8. Current' = Current
  BY <1>1, <1>7 DEF Current
<1>9. Changes(Current)' = all
  BY <1>8 DEF Changes, SideChanges
<1>10. Task = [symbol |-> s, id |-> Current.update_id, changes |-> SubSeq(all, a + 1, Len(all))]
  BY <1>1 DEF Task
<1>11. Task' = [symbol |-> s, id |-> Current.update_id, changes |-> SubSeq(all, (a + 1) + 1, Len(all))]
  BY <1>7, <1>8, <1>9 DEF Task
<1> HIDE DEF all, a, s
<1>12. /\ SubSeq(all, a + 1, Len(all)) # <<>>
       /\ Head(SubSeq(all, a + 1, Len(all))) = c
       /\ Tail(SubSeq(all, a + 1, Len(all))) = SubSeq(all, (a + 1) + 1, Len(all))
  <2>1. a + 1 \in 1 .. Len(all)
    BY <1>3
  <2> QED
    BY <1>2, <2>1, RestOf DEF c
<1>13. /\ Task # Ladder!Idle /\ Task.changes # <<>> /\ Head(Task.changes) = c /\ Task.symbol = s
       /\ Task' = [Task EXCEPT !.changes = Tail(Task.changes)]
  <2>1. s # -1
    BY <1>2, ProcessorAssumption DEF SymbolIds
  <2>2. Task.symbol = s /\ Task.changes = SubSeq(all, a + 1, Len(all))
    BY <1>10
  <2>3. Task # Ladder!Idle
    BY <2>1, <2>2 DEF Ladder!Idle
  <2> HIDE DEF c
  <2>4. Task' = [Task EXCEPT !.changes = Tail(Task.changes)]
    <3> DEFINE id == Current.update_id
               rest == SubSeq(all, a + 1, Len(all))
               next == SubSeq(all, (a + 1) + 1, Len(all))
    <3>1. /\ Task = [symbol |-> s, id |-> id, changes |-> rest]
          /\ Task' = [symbol |-> s, id |-> id, changes |-> next]
          /\ Tail(rest) = next
      BY <1>10, <1>11, <1>12
    <3> HIDE DEF id, rest, next
    <3> DEFINE tail == Tail(Task.changes)
    <3>2. tail = next
      BY <3>1
    <3> HIDE DEF tail
    <3>3. [Task EXCEPT !.changes = tail] = [symbol |-> s, id |-> id, changes |-> tail]
      BY <3>1
    <3> QED
      BY <3>1, <3>2, <3>3 DEF tail
  <2> QED
    BY <1>12, <2>2, <2>3, <2>4
<1> HIDE DEF c
<1>14. c.side \in Sides /\ c.price \in Int /\ c.qty \in Nat
  BY <1>4 DEF Change
<1>15. books \in [SymbolIds -> Book] /\ GoodSide(c.side, old)
  BY <1>2, <1>14 DEF IInv, TypeOK, BooksGood
<1>16. LevelSet(new) = Ladder!Put(LevelSet(old), [side |-> c.side, price |-> c.price, qty |-> c.qty])
  BY <1>14, <1>15, ApplyIsPut
<1>17. [side |-> c.side, price |-> c.price, qty |-> c.qty] = c
  BY <1>4 DEF Change
<1>18. books' = [books EXCEPT ![s] = [books[s] EXCEPT ![c.side] = new]]
  BY <1>2, <1>5, <1>15
<1> HIDE DEF new, old, level
<1>19. \A side \in Sides : [books[s] EXCEPT ![c.side] = new][side] = IF side = c.side THEN new ELSE books[s][side]
  <2>1. books[s] \in Book
    BY <1>2, <1>15
  <2> QED
    BY <2>1 DEF Book, Sides
<1>20. \A t \in SymbolIds : \A side \in Sides :
         books'[t][side] = IF t = s /\ side = c.side THEN new ELSE books[t][side]
  BY <1>2, <1>15, <1>18, <1>19
<1>21. LadderOf(books)' = [LadderOf(books) EXCEPT ![s][c.side] = Ladder!Put(@, c)]
  <2>1. LadderOf(books)' = [t \in SymbolIds |-> [side \in Sides |-> LevelSet(books'[t][side])]]
    BY DEF LadderOf, SymbolIds, Sides, LevelSet
  <2>2. \A t \in SymbolIds : \A side \in Sides :
          LevelSet(books'[t][side]) = IF t = s /\ side = c.side THEN Ladder!Put(LevelSet(old), c)
                                      ELSE LevelSet(books[t][side])
    BY <1>16, <1>17, <1>20
  <2> DEFINE put == Ladder!Put(LevelSet(old), c)
  <2> HIDE DEF put
  <2>3. LadderOf(books)' = [t \in SymbolIds |-> [side \in Sides |->
          IF t = s /\ side = c.side THEN put ELSE LevelSet(books[t][side])]]
    BY <2>1, <2>2 DEF put
  <2>4. LadderOf(books)[s][c.side] = LevelSet(old)
    BY <1>2, <1>14 DEF LadderOf, old
  <2>5. [LadderOf(books) EXCEPT ![s][c.side] = put] = [t \in SymbolIds |-> [side \in Sides |->
          IF t = s /\ side = c.side THEN put ELSE LevelSet(books[t][side])]]
    BY <1>2, <1>14 DEF LadderOf
  <2> QED
    BY <2>3, <2>4, <2>5 DEF put
<1>22. VersionOf(books)' = VersionOf(books)
  <2>1. \A t \in SymbolIds : books'[t].last_update_id = books[t].last_update_id
    <3>1. [books[s] EXCEPT ![c.side] = new].last_update_id = books[s].last_update_id
      BY <1>2, <1>14, <1>15 DEF Book, Sides
    <3> QED
      BY <1>2, <1>15, <1>18, <3>1
  <2> QED
    BY <2>1 DEF VersionOf, SymbolIds
<1> QED
  BY <1>13, <1>21, <1>22 DEF Ladder!Step, LadderOf, VersionOf

\* The id is written when all changes are made.
LEMMA FinishUpdateSteps ==
    ASSUME IInv, FinishUpdate PROVE Ladder!End
<1> DEFINE s == Current.symbol_id
           all == Changes(Current)
<1>1. cons \in ConsState /\ cons.pc = "levels" /\ cons.applied = Len(all)
  BY DEF IInv, Placed, FinishUpdate
<1>2. Current \in FastUpdate /\ s \in SymbolIds /\ all \in Seq(Change)
  BY CurrentType, ChangesType
<1>3. Task = [symbol |-> s, id |-> Current.update_id, changes |-> SubSeq(all, Len(all) + 1, Len(all))]
  BY <1>1 DEF Task
<1>4. cons' = DoneWith
  BY DEF FinishUpdate
<1>5. cons'.pc # "levels"
  BY <1>1, <1>4 DEF DoneWith, StartRing, ConsState
<1>6. Task' = Ladder!Idle
  BY <1>5 DEF Task, Ladder!Idle
<1> HIDE DEF all
<1>7. SubSeq(all, Len(all) + 1, Len(all)) = <<>>
  BY <1>2
<1> HIDE DEF s
<1>8. Task # Ladder!Idle /\ Task.changes = <<>> /\ Task.symbol = s /\ Task.id = Current.update_id
  BY <1>2, <1>3, <1>7, ProcessorAssumption DEF Ladder!Idle, SymbolIds
<1>9. books \in [SymbolIds -> Book]
  BY DEF IInv, TypeOK
<1>10. books' = [books EXCEPT ![s] = [books[s] EXCEPT !.last_update_id = Current.update_id,
                                                      !.update_count = @ + 1]]
  BY <1>2, <1>9 DEF FinishUpdate, Book, s
<1>11. \A t \in SymbolIds : /\ books'[t].bid = books[t].bid /\ books'[t].ask = books[t].ask
                            /\ books'[t].last_update_id =
                                 IF t = s THEN Current.update_id ELSE books[t].last_update_id
  <2> DEFINE new == [books[s] EXCEPT !.last_update_id = Current.update_id, !.update_count = @ + 1]
  <2>1. new.bid = books[s].bid /\ new.ask = books[s].ask /\ new.last_update_id = Current.update_id
    BY <1>2, <1>9 DEF Book
  <2> HIDE DEF new
  <2>2. books' = [books EXCEPT ![s] = new]
    BY <1>10 DEF new
  <2> QED
    BY <1>2, <1>9, <2>1, <2>2
<1>12. LadderOf(books)' = LadderOf(books)
  <2>1. \A t \in SymbolIds : \A side \in Sides : books'[t][side] = books[t][side]
    BY <1>11 DEF Sides
  <2> QED
    BY <2>1 DEF LadderOf, SymbolIds, Sides, LevelSet
<1>13. VersionOf(books)' = [VersionOf(books) EXCEPT ![s] = Current.update_id]
  BY <1>2, <1>11 DEF VersionOf, SymbolIds
<1> QED
  BY <1>6, <1>8, <1>12, <1>13 DEF Ladder!End, LadderOf, VersionOf

\* Whatever else happens leaves the books and the update in hand alone.
LEMMA LadderStep == IInv /\ [Next]_vars => [Ladder!Next]_(Ladder!vars)
<1> SUFFICES ASSUME IInv, [Next]_vars PROVE [Ladder!Next]_(Ladder!vars)
  OBVIOUS
<1>1. ASSUME UNCHANGED <<books, batch, cons>> PROVE UNCHANGED Ladder!vars
  <2>1. Task' = Task
    BY <1>1 DEF Task, Current, Changes, SideChanges
  <2> QED
    BY <1>1, <2>1, LadderVars
<1>2. ASSUME UNCHANGED books, cons.pc # "levels", cons'.pc # "levels" PROVE UNCHANGED Ladder!vars
  <2>1. Task' = Task
    BY <1>2 DEF Task
  <2> QED
    BY <1>2, <2>1, LadderVars
<1>3. CASE UNCHANGED vars
  BY <1>1, <1>3 DEF vars
<1>4. CASE \E f \in Feeds : Register(f)
  BY <1>1, <1>4 DEF Register
<1>5. CASE \E f \in Feeds : \E id \in Ids, payload \in Payloads : Push(f, id, payload)
  BY <1>1, <1>5 DEF Push
<1>6. CASE \E f \in Readers : Read(f)
  BY <1>1, <1>6 DEF Read
<1>7. cons \in ConsState
  BY DEF IInv, Placed
<1>8. \A count : Collected(count).pc # "levels"
  BY <1>7 DEF Collected, StartRing, ConsState
<1>9. CASE Collect
  <2>1. cons'.pc # "levels"
    <3>1. \A count : [cons EXCEPT !.slot = @ + 1, !.count = count].pc = cons.pc
      BY <1>7 DEF ConsState
    <3> QED
      BY <1>8, <1>9, <3>1 DEF Collect
  <2> QED
    BY <1>2, <1>9, <2>1 DEF Collect
<1>10. CASE CollectEnd
  BY <1>2, <1>8, <1>10 DEF CollectEnd
<1>11. CASE CheckUpdate
  BY <1>11, CheckUpdateSteps
<1>12. CASE ApplyChange
  BY <1>12, ApplyChangeSteps DEF Ladder!Next
<1>13. CASE FinishUpdate
  BY <1>13, FinishUpdateSteps DEF Ladder!Next
<1> QED
  BY <1>3, <1>4, <1>5, <1>6, <1>9, <1>10, <1>11, <1>12, <1>13 DEF Next, Process

\* FastOrderBook's arrays, filled through the rings and batches of the processor,
\* implement the price ladder: a side is the best MAX_DEPTH levels of what was
\* applied to it, an update is applied whole and in order, and only when it is
\* newer than the book.
THEOREM BooksAreLadders == Spec => LadderRefinement
BY LadderInit, LadderStep, Invariance, PTL DEF Spec, Ladder!Spec, LadderRefinement

--------------------------------------------------------------------------------
(* What becomes of an accepted update, and what readers see: nothing       *)
(* accepted is overlooked on the way from the rings through the batch to   *)
(* the books, and the id of a snapshot identifies its content.             *)

\* The updates that are still on their way.
Waiting == (InRings \cup InBatch) \ {NoUpdate}

\* The slots of the batch that hold them.
Slots == IF cons.pc = "collect" THEN 1 .. cons.slot - 1 ELSE cons.slot .. cons.count

\* One of the feeds of f's symbol has accepted id or a newer one.
Reached(f, id) == \E g \in Feeds : LookedUpAs[g] = LookedUpAs[f] /\ id <= newest[g]

BookOf(f) == IdOf(LookedUpAs[f])

\* A name has one id, and nothing is on its way to a book without a name.
NamesInv ==
    /\ \A i, j \in 1 .. Len(registered) : registered[i] = registered[j] => i = j
    /\ \A u \in Waiting : u.symbol_id < Len(registered)
    /\ \A s \in SymbolIds : s >= Len(registered) => books[s] = NewBook
    /\ \A f \in Feeds : ~Registered(LookedUpAs[f]) => newest[f] = 0

\* A batch has no holes, and an update is begun only if it is newer than its book.
WorkInv ==
    /\ cons.pc = "collect" => cons.count = cons.slot - 1
    /\ cons.pc = "levels" => /\ Current # NoUpdate
                             /\ Current.update_id > books[Current.symbol_id].last_update_id

\* A book and what is on its way to it carry only ids that were accepted.
BoundInv ==
    \A f \in Feeds : HasBook(f) =>
      /\ Reached(f, books[BookOf(f)].last_update_id)
      /\ \A u \in Waiting : u.symbol_id = BookOf(f) => Reached(f, u.update_id)

\* The newest id of a feed is in its book, or on its way there.
OwedInv ==
    \A f \in Feeds : HasBook(f) =>
      \/ newest[f] <= books[BookOf(f)].last_update_id
      \/ \E u \in Waiting : u.symbol_id = BookOf(f) /\ newest[f] <= u.update_id

\* What a reader has seen is an earlier version of the book, or the book as it
\* is unless an update of it is being applied.
Applying(s) == cons.pc = "levels" /\ Current.symbol_id = s

ViewInv ==
    \A f \in Readers :
      /\ ~Registered(LookedUpAs[f]) => view[f] = NoView
      /\ HasBook(f) =>
           /\ view[f].last_update_id <= books[BookOf(f)].last_update_id
           /\ view[f].last_update_id = books[BookOf(f)].last_update_id /\ ~Applying(BookOf(f))
                => view[f] = Snapshot(BookOf(f))

DInv == IInv /\ NamesInv /\ WorkInv /\ BoundInv /\ OwedInv /\ ViewInv

-----------------------------------------------------------------------------
(* Where updates are.                                                      *)

\* Where an update can be waiting,
LEMMA WaitingIs ==
    ASSUME NEW u
    PROVE  u \in Waiting <=>
             /\ u # NoUpdate
             /\ \/ \E r \in 1 .. Rings : \E i \in 1 .. Len(rings[r]) : u = rings[r][i]
                \/ \E i \in Slots : u = batch[i]
<1>1. u \in InRings <=> \E r \in 1 .. Rings : \E i \in 1 .. Len(rings[r]) : u = rings[r][i]
  BY DEF InRings
<1>2. u \in InBatch <=> \E i \in Slots : u = batch[i]
  BY DEF InBatch, Slots
<1> QED
  BY <1>1, <1>2 DEF Waiting

\* in the next state, too.
LEMMA WaitingIsNext ==
    ASSUME NEW u
    PROVE  u \in Waiting' <=>
             /\ u # NoUpdate
             /\ \/ \E r \in 1 .. Rings : \E i \in 1 .. Len(rings'[r]) : u = rings'[r][i]
                \/ \E i \in Slots' : u = batch'[i]
<1>1. u \in InRings' <=> \E r \in 1 .. Rings : \E i \in 1 .. Len(rings'[r]) : u = rings'[r][i]
  BY DEF InRings
<1>2. u \in InBatch' <=> \E i \in Slots' : u = batch'[i]
  BY DEF InBatch, Slots
<1> QED
  BY <1>1, <1>2 DEF Waiting

\* What waits is an update of a symbol that has an id.
LEMMA WaitingType ==
    ASSUME IInv, NEW u \in Waiting
    PROVE  u \in FastUpdate /\ u.symbol_id \in SymbolIds /\ u.update_id \in Nat /\ u # NoUpdate
<1>1. u # NoUpdate
  BY DEF Waiting
<1>2. ASSUME NEW r \in 1 .. Rings, NEW i \in 1 .. Len(rings[r]), u = rings[r][i]
      PROVE  u \in FastUpdate /\ u.symbol_id \in SymbolIds
  <2>1. rings[r] \in Seq(FastUpdate)
    BY DEF IInv, TypeOK
  <2> QED
    BY <1>2, <2>1 DEF IInv, QueuedSymbolsValid
<1>3. ASSUME NEW i \in Slots, u = batch[i] PROVE u \in FastUpdate /\ u.symbol_id \in SymbolIds
  <2>1. i \in 1 .. BATCH_SIZE
    BY ProcessorAssumption DEF IInv, Placed, ConsState, Slots
  <2> QED
    BY <1>3, <2>1 DEF IInv, TypeOK, BatchInv
<1>4. u \in FastUpdate /\ u.symbol_id \in SymbolIds
  BY <1>2, <1>3, WaitingIs
<1> QED
  BY <1>1, <1>4 DEF FastUpdate

\* A registered name has the id of each place it is at.
LEMMA IdIs ==
    ASSUME NamesInv, NEW k \in 1 .. Len(registered)
    PROVE  Registered(registered[k]) /\ IdOf(registered[k]) = k - 1
<1> DEFINE name == registered[k]
           c == CHOOSE j \in 1 .. Len(registered) : registered[j] = name
<1>1. c \in 1 .. Len(registered) /\ registered[c] = name
  OBVIOUS
<1>2. c = k
  BY <1>1 DEF NamesInv
<1>3. IdOf(registered[k]) = c - 1
  BY DEF IdOf
<1> QED
  BY <1>2, <1>3 DEF Registered

\* The name of an id is where the id says.
LEMMA NameAt ==
    ASSUME IInv, NEW name, Registered(name)
    PROVE  /\ IdOf(name) \in Nat /\ IdOf(name) < Len(registered)
           /\ IdOf(name) + 1 \in 1 .. Len(registered) /\ registered[IdOf(name) + 1] = name
<1> DEFINE c == CHOOSE j \in 1 .. Len(registered) : registered[j] = name
<1>1. c \in 1 .. Len(registered) /\ registered[c] = name
  BY DEF Registered
<1>2. IdOf(name) = c - 1
  BY DEF IdOf
<1>3. Len(registered) \in Nat
  BY DEF IInv, TypeOK
<1> HIDE DEF c
<1>4. c \in Nat /\ c >= 1 /\ c <= Len(registered) /\ IdOf(name) + 1 = c
  BY <1>1, <1>2, <1>3
<1> QED
  BY <1>1, <1>2, <1>3, <1>4

-----------------------------------------------------------------------------
(* What the steps do to the updates that wait.                             *)

\* A push adds its update.
LEMMA PushWaiting ==
    ASSUME IInv, NEW f \in Feeds, NEW id \in Ids, NEW payload \in Payloads, Push(f, id, payload)
    PROVE  /\ Waiting \subseteq Waiting'
           /\ \A u \in Waiting' : u \in Waiting \/ u = Convert(f, id, payload)
           /\ Convert(f, id, payload) # NoUpdate => Convert(f, id, payload) \in Waiting'
<1> DEFINE r == RingOf[f]
           new == Convert(f, id, payload)
<1>1. new \in FastUpdate
  BY ConvertType DEF Push
<1>2. r \in 1 .. Rings /\ rings \in [1 .. Rings -> Seq(FastUpdate)]
  BY ProcessorAssumption DEF IInv, TypeOK
<1>3. rings' = [rings EXCEPT ![r] = Append(@, new)] /\ batch' = batch /\ Slots' = Slots
  BY DEF Push, Slots
<1> HIDE DEF r, new
<1>4. /\ rings'[r] = Append(rings[r], new) /\ rings[r] \in Seq(FastUpdate)
      /\ \A q \in 1 .. Rings : q # r => rings'[q] = rings[q]
  BY <1>2, <1>3
<1>5. /\ Len(rings'[r]) = Len(rings[r]) + 1 /\ Len(rings[r]) \in Nat
      /\ \A i \in 1 .. Len(rings[r]) : rings'[r][i] = rings[r][i]
      /\ rings'[r][Len(rings[r]) + 1] = new
  BY <1>1, <1>4
<1>6. ASSUME NEW u \in Waiting PROVE u \in Waiting'
  <2>1. u # NoUpdate
    BY DEF Waiting
  <2>2. ASSUME NEW q \in 1 .. Rings, NEW i \in 1 .. Len(rings[q]), u = rings[q][i] PROVE u \in Waiting'
    <3>1. i \in 1 .. Len(rings'[q]) /\ u = rings'[q][i]
      <4>1. CASE q = r
        <5>1. i \in 1 .. Len(rings[r]) /\ u = rings[r][i]
          BY <2>2, <4>1
        <5>2. i \in 1 .. Len(rings'[r]) /\ rings'[r][i] = rings[r][i]
          BY <1>5, <5>1
        <5> QED
          BY <4>1, <5>1, <5>2
      <4>2. CASE q # r
        BY <2>2, <1>4, <4>2
      <4> QED
        BY <4>1, <4>2
    <3> QED
      BY <3>1, <2>1, WaitingIsNext
  <2>3. ASSUME NEW i \in Slots, u = batch[i] PROVE u \in Waiting'
    BY <2>1, <2>3, <1>3, WaitingIsNext
  <2> QED
    BY <2>2, <2>3, WaitingIs
<1>7. ASSUME NEW u \in Waiting' PROVE u \in Waiting \/ u = new
  <2>1. u # NoUpdate
    BY WaitingIsNext
  <2>2. ASSUME NEW q \in 1 .. Rings, NEW i \in 1 .. Len(rings'[q]), u = rings'[q][i]
        PROVE  u \in Waiting \/ u = new
    <3>1. CASE q = r /\ i = Len(rings[r]) + 1
      BY <3>1, <2>2, <1>5
    <3>2. CASE q = r /\ i # Len(rings[r]) + 1
      <4>1. i \in 1 .. Len(rings[q])
        BY <3>2, <1>5
      <4>2. u = rings[q][i]
        BY <4>1, <3>2, <2>2, <1>5
      <4> QED
        BY <4>1, <4>2, <2>1, WaitingIs
    <3>3. CASE q # r
      <4>1. i \in 1 .. Len(rings[q]) /\ u = rings[q][i]
        BY <3>3, <2>2, <1>4
      <4> QED
        BY <4>1, <2>1, WaitingIs
    <3> QED
      BY <3>1, <3>2, <3>3
  <2>3. ASSUME NEW i \in Slots', u = batch'[i] PROVE u \in Waiting \/ u = new
    BY <2>1, <2>3, <1>3, WaitingIs
  <2> QED
    BY <2>2, <2>3, WaitingIsNext
<1>8. new # NoUpdate => new \in Waiting'
  <2>1. Len(rings[r]) + 1 \in 1 .. Len(rings'[r])
    BY <1>5
  <2> QED
    BY <2>1, <1>2, <1>5, WaitingIsNext
<1> QED
  BY <1>6, <1>7, <1>8 DEF new

\* A step that leaves the rings, and the slots in use as they are, leaves what waits.
LEMMA SameWaiting ==
    ASSUME rings' = rings, Slots' = Slots, \A i \in Slots : batch'[i] = batch[i]
    PROVE  \A u : u \in Waiting <=> u \in Waiting'
<1> SUFFICES ASSUME NEW u PROVE u \in Waiting <=> u \in Waiting'
  OBVIOUS
<1>1. (\E i \in Slots' : u = batch'[i]) <=> (\E i \in Slots : u = batch[i])
  OBVIOUS
<1> QED
  BY <1>1, WaitingIs, WaitingIsNext

\* A collected update moves from its ring to the batch.
LEMMA CollectWaiting ==
    ASSUME IInv, WorkInv, Collect
    PROVE  (\A u : u \in Waiting <=> u \in Waiting') /\ WorkInv'
<1> DEFINE r == cons.ring
           u0 == Head(rings[r])
<1>1. /\ cons \in ConsState /\ cons.pc = "collect" /\ cons.count = cons.slot - 1 /\ r \in 1 .. Rings
      /\ cons.slot \in 1 .. BATCH_SIZE
  BY DEF IInv, Placed, ConsState, Collect, WorkInv
<1>2. rings \in [1 .. Rings -> Seq(FastUpdate)] /\ rings[r] # <<>>
  BY DEF IInv, TypeOK, Collect
<1>3. /\ rings[r] \in Seq(FastUpdate) /\ Len(rings[r]) \in Nat /\ Len(rings[r]) > 0
      /\ u0 = rings[r][1] /\ 1 \in 1 .. Len(rings[r])
  BY <1>1, <1>2, EmptySeq
<1>4. u0.symbol_id \in SymbolIds
  BY <1>1, <1>3 DEF IInv, QueuedSymbolsValid
<1>5. u0.symbol_id < MAX_SYMBOLS
  BY <1>4, ProcessorAssumption DEF SymbolIds
<1>6. batch' = [batch EXCEPT ![cons.slot] = u0]
  BY <1>5 DEF Collect
<1>7. cons' = IF cons.slot = BATCH_SIZE THEN Collected(cons.count + 1)
              ELSE [cons EXCEPT !.slot = @ + 1, !.count = cons.count + 1]
  BY <1>5 DEF Collect
<1>8. rings' = [rings EXCEPT ![r] = Tail(@)]
  BY DEF Collect
<1>9. Slots = 1 .. cons.slot - 1
  BY <1>1 DEF Slots
<1> HIDE DEF r, u0
<1>10. Slots' = 1 .. cons.slot /\ WorkInv'
  <2>1. CASE cons.slot = BATCH_SIZE
    <3>1. cons.count + 1 # 0 /\ cons.count + 1 = cons.slot
      BY <1>1
    <3>2. cons' = [cons EXCEPT !.pc = "check", !.slot = 1, !.count = cons.slot]
      BY <2>1, <3>1, <1>7 DEF Collected
    <3>3. cons'.pc = "check" /\ cons'.slot = 1 /\ cons'.count = cons.slot
      BY <3>2, <1>1 DEF ConsState
    <3> QED
      BY <3>3 DEF Slots, WorkInv
  <2>2. CASE cons.slot # BATCH_SIZE
    <3>1. cons' = [cons EXCEPT !.slot = @ + 1, !.count = cons.count + 1]
      BY <2>2, <1>7
    <3>2. cons'.pc = "collect" /\ cons'.slot = cons.slot + 1 /\ cons'.count = cons.count + 1
      BY <3>1, <1>1 DEF ConsState
    <3>3. cons'.slot - 1 = cons.slot /\ cons'.count = cons'.slot - 1
      BY <3>2, <1>1
    <3> QED
      BY <3>2, <3>3 DEF Slots, WorkInv
  <2> QED
    BY <2>1, <2>2
<1>11. /\ rings'[r] = Tail(rings[r])
       /\ \A q \in 1 .. Rings : q # r => rings'[q] = rings[q]
  BY <1>1, <1>2, <1>8
<1>12. /\ Len(rings'[r]) = Len(rings[r]) - 1
       /\ \A i \in 1 .. Len(rings'[r]) : rings'[r][i] = rings[r][i + 1]
  BY <1>3, <1>11
<1>13. /\ batch'[cons.slot] = u0 /\ cons.slot \in Slots'
       /\ \A i \in Slots : batch'[i] = batch[i] /\ i \in Slots'
       /\ \A i \in Slots' : i = cons.slot \/ i \in Slots
  <2>1. batch \in [1 .. BATCH_SIZE -> FastUpdate] /\ BATCH_SIZE \in Nat
    BY ProcessorAssumption DEF IInv, TypeOK
  <2> QED
    BY <2>1, <1>1, <1>6, <1>9, <1>10
<1>14. ASSUME NEW u, u \in Waiting PROVE u \in Waiting'
  <2>1. u # NoUpdate
    BY <1>14, WaitingIs
  <2>2. ASSUME NEW q \in 1 .. Rings, NEW i \in 1 .. Len(rings[q]), u = rings[q][i] PROVE u \in Waiting'
    <3>1. CASE q # r
      <4>1. i \in 1 .. Len(rings'[q]) /\ u = rings'[q][i]
        BY <3>1, <2>2, <1>11
      <4> QED
        BY <4>1, <2>1, WaitingIsNext
    <3>2. CASE q = r /\ i = 1
      <4>1. u = batch'[cons.slot]
        BY <3>2, <2>2, <1>3, <1>13
      <4> QED
        BY <4>1, <2>1, <1>13, WaitingIsNext
    <3>3. CASE q = r /\ i # 1
      <4>1. i - 1 \in 1 .. Len(rings'[r]) /\ u = rings'[r][i - 1]
        <5>1. i - 1 \in 1 .. Len(rings'[r]) /\ (i - 1) + 1 = i
          BY <3>3, <1>3, <1>12
        <5>2. rings'[r][i - 1] = rings[r][(i - 1) + 1]
          BY <5>1, <1>12
        <5> QED
          BY <5>1, <5>2, <3>3, <2>2
      <4> QED
        BY <4>1, <2>1, <1>1, WaitingIsNext
    <3> QED
      BY <3>1, <3>2, <3>3
  <2>3. ASSUME NEW i \in Slots, u = batch[i] PROVE u \in Waiting'
    BY <2>1, <2>3, <1>13, WaitingIsNext
  <2> QED
    BY <2>2, <2>3, <1>14, WaitingIs
<1>15. ASSUME NEW u, u \in Waiting' PROVE u \in Waiting
  <2>1. u # NoUpdate
    BY <1>15, WaitingIsNext
  <2>2. ASSUME NEW q \in 1 .. Rings, NEW i \in 1 .. Len(rings'[q]), u = rings'[q][i] PROVE u \in Waiting
    <3>1. CASE q # r
      <4>1. i \in 1 .. Len(rings[q]) /\ u = rings[q][i]
        BY <3>1, <2>2, <1>11
      <4> QED
        BY <4>1, <2>1, WaitingIs
    <3>2. CASE q = r
      <4>1. i + 1 \in 1 .. Len(rings[r]) /\ u = rings[r][i + 1]
        BY <3>2, <2>2, <1>3, <1>12
      <4> QED
        BY <4>1, <2>1, <1>1, WaitingIs
    <3> QED
      BY <3>1, <3>2
  <2>3. ASSUME NEW i \in Slots', u = batch'[i] PROVE u \in Waiting
    <3>1. CASE i = cons.slot
      BY <3>1, <2>1, <2>3, <1>1, <1>3, <1>13, WaitingIs
    <3>2. CASE i # cons.slot
      BY <3>2, <2>1, <2>3, <1>13, WaitingIs
    <3> QED
      BY <3>1, <3>2
  <2> QED
    BY <2>2, <2>3, <1>15, WaitingIsNext
<1> QED
  BY <1>10, <1>14, <1>15

\* The end of a collection takes nothing away.
LEMMA CollectEndWaiting ==
    ASSUME IInv, WorkInv, CollectEnd
    PROVE  (\A u : u \in Waiting <=> u \in Waiting') /\ WorkInv'
<1>1. /\ cons \in ConsState /\ cons.pc = "collect" /\ cons.count = cons.slot - 1
      /\ cons.slot \in 1 .. BATCH_SIZE /\ cons.count \in Nat
  BY ProcessorAssumption DEF IInv, Placed, ConsState, CollectEnd, WorkInv
<1>2. Slots = 1 .. cons.count
  BY <1>1 DEF Slots
<1>3. cons' = Collected(cons.count) /\ rings' = rings
  BY DEF CollectEnd
<1>4. Slots' = 1 .. cons.count /\ WorkInv'
  <2>1. CASE cons.count = 0
    <3>1. cons' = StartRing(NextRing(cons.ring))
      BY <1>3, <2>1 DEF Collected
    <3>2. cons'.pc = "collect" /\ cons'.slot = 1 /\ cons'.count = 0
      BY <3>1 DEF StartRing
    <3> QED
      BY <3>2, <2>1 DEF Slots, WorkInv
  <2>2. CASE cons.count # 0
    <3>1. cons' = [cons EXCEPT !.pc = "check", !.slot = 1, !.count = cons.count]
      BY <1>3, <2>2 DEF Collected
    <3>2. cons'.pc = "check" /\ cons'.slot = 1 /\ cons'.count = cons.count
      BY <3>1, <1>1 DEF ConsState
    <3> QED
      BY <3>2 DEF Slots, WorkInv
  <2> QED
    BY <2>1, <2>2
<1>5. \A i \in Slots : batch'[i] = batch[i]
  <2>1. batch' = [batch EXCEPT ![cons.slot] = NoUpdate] /\ batch \in [1 .. BATCH_SIZE -> FastUpdate]
    BY DEF CollectEnd, IInv, TypeOK
  <2>2. \A i \in Slots : i # cons.slot /\ i \in 1 .. BATCH_SIZE
    BY <1>1, <1>2, ProcessorAssumption
  <2> QED
    BY <2>1, <2>2
<1> QED
  BY <1>2, <1>3, <1>4, <1>5, SameWaiting

\* When the current update is dealt with it waits no longer, unless elsewhere too.
LEMMA DoneWaiting ==
    ASSUME IInv, cons.pc # "collect", cons' = DoneWith, UNCHANGED <<rings, batch>>
    PROVE  /\ Waiting' \subseteq Waiting
           /\ \A u \in Waiting : u \in Waiting' \/ u = Current
           /\ cons'.pc \in {"collect", "check"}
           /\ cons'.pc = "collect" => cons'.count = cons'.slot - 1
           /\ Current # NoUpdate => Current \in Waiting
<1>1. cons \in ConsState /\ cons.slot \in Nat /\ cons.count \in Nat /\ cons.slot <= cons.count
  BY ProcessorAssumption DEF IInv, Placed, ConsState
<1>2. Slots = cons.slot .. cons.count
  BY DEF Slots
<1>3. /\ Slots' = cons.slot + 1 .. cons.count
      /\ cons'.pc \in {"collect", "check"}
      /\ cons'.pc = "collect" => cons'.count = cons'.slot - 1
  <2>1. CASE cons.slot = cons.count
    <3>1. cons' = StartRing(NextRing(cons.ring))
      BY <2>1 DEF DoneWith
    <3>2. cons'.pc = "collect" /\ cons'.slot = 1 /\ cons'.count = 0
      BY <3>1 DEF StartRing
    <3> QED
      BY <3>2, <2>1, <1>1 DEF Slots
  <2>2. CASE cons.slot # cons.count
    <3>1. cons' = [cons EXCEPT !.pc = "check", !.slot = @ + 1, !.applied = 0]
      BY <2>2 DEF DoneWith
    <3>2. cons'.pc = "check" /\ cons'.slot = cons.slot + 1 /\ cons'.count = cons.count
      BY <3>1, <1>1 DEF ConsState
    <3> QED
      BY <3>2 DEF Slots
  <2> QED
    BY <2>1, <2>2
<1>4. ASSUME NEW u \in Waiting PROVE u \in Waiting' \/ u = Current
  <2>1. ASSUME NEW i \in Slots, u = batch[i] PROVE u \in Waiting' \/ u = Current
    <3>1. i = cons.slot \/ i \in Slots'
      BY <1>1, <1>2, <1>3
    <3> QED
      BY <2>1, <3>1, WaitingIs, WaitingIsNext DEF Current
  <2> QED
    BY <2>1, WaitingIs, WaitingIsNext
<1>5. ASSUME NEW u \in Waiting' PROVE u \in Waiting
  <2>1. Slots' \subseteq Slots
    BY <1>1, <1>2, <1>3
  <2> QED
    BY <2>1, WaitingIs, WaitingIsNext
<1>6. Current # NoUpdate => Current \in Waiting
  <2>1. cons.slot \in Slots
    BY <1>1, <1>2
  <2> QED
    BY <2>1, WaitingIs DEF Current
<1> QED
  BY <1>3, <1>4, <1>5, <1>6

-----------------------------------------------------------------------------
(* The invariant is inductive.                                             *)

\* Nothing is pushed or applied at the start.
LEMMA DeliveryInit == Init => DInv
<1> SUFFICES ASSUME Init PROVE DInv
  OBVIOUS
<1>1. IInv
  BY InvInit
<1>2. /\ registered = <<>> /\ books = [s \in SymbolIds |-> NewBook]
      /\ view = [f \in Readers |-> NoView] /\ newest = [f \in Feeds |-> 0]
      /\ cons.pc = "collect" /\ cons.slot = 1 /\ cons.count = 0
      /\ \A r \in 1 .. Rings : rings[r] = <<>>
  BY DEF Init
<1>3. Waiting = {}
  <2> SUFFICES ASSUME NEW u \in Waiting PROVE FALSE
    OBVIOUS
  <2>1. Slots = {}
    BY <1>2 DEF Slots
  <2> QED
    BY <2>1, <1>2, WaitingIs
<1>4. \A f \in Feeds : ~Registered(LookedUpAs[f]) /\ ~HasBook(f)
  BY <1>2 DEF Registered, HasBook
<1>5. NamesInv
  BY <1>2, <1>3 DEF NamesInv
<1>6. WorkInv /\ BoundInv /\ OwedInv
  BY <1>2, <1>4 DEF WorkInv, BoundInv, OwedInv
<1>7. ViewInv
  BY <1>2, <1>4, ProcessorAssumption DEF ViewInv
<1> QED
  BY <1>1, <1>5, <1>6, <1>7 DEF DInv

\* A step of the processing thread that only moves updates about, or writes the
\* id of one to its book.
LEMMA Kept ==
    ASSUME DInv, IInv', registered' = registered, newest' = newest,
           Waiting' \subseteq Waiting,
           \A s \in SymbolIds : s >= Len(registered) => books'[s] = books[s],
           \A s \in SymbolIds :
             \/ books'[s].last_update_id = books[s].last_update_id
             \/ /\ books'[s].last_update_id >= books[s].last_update_id
                /\ \E u \in Waiting : u.symbol_id = s /\ u.update_id = books'[s].last_update_id,
           \A u \in Waiting : u \in Waiting' \/ u.update_id <= books'[u.symbol_id].last_update_id
    PROVE  NamesInv' /\ BoundInv' /\ OwedInv'
<1>1. IInv /\ NamesInv /\ BoundInv /\ OwedInv
  BY DEF DInv
<1>2. \A f \in Feeds : /\ Registered(LookedUpAs[f])' <=> Registered(LookedUpAs[f])
                       /\ HasBook(f)' <=> HasBook(f)
                       /\ BookOf(f)' = BookOf(f)
  BY DEF Registered, HasBook, BookOf, IdOf
<1>3. NamesInv'
  BY <1>1, <1>2 DEF NamesInv, SymbolIds
<1>4. ASSUME NEW f \in Feeds, NEW id PROVE Reached(f, id)' <=> Reached(f, id)
  BY DEF Reached
<1>5. ASSUME NEW f \in Feeds, HasBook(f) PROVE BookOf(f) \in SymbolIds
  BY <1>5 DEF HasBook, BookOf
<1>6. BoundInv'
  <2> SUFFICES ASSUME NEW f \in Feeds, HasBook(f)
               PROVE  /\ Reached(f, books'[BookOf(f)].last_update_id)
                      /\ \A u \in Waiting' : u.symbol_id = BookOf(f) => Reached(f, u.update_id)
    BY <1>2, <1>4 DEF BoundInv
  <2>1. /\ Reached(f, books[BookOf(f)].last_update_id)
        /\ \A u \in Waiting : u.symbol_id = BookOf(f) => Reached(f, u.update_id)
    BY <1>1 DEF BoundInv
  <2>2. \/ books'[BookOf(f)].last_update_id = books[BookOf(f)].last_update_id
        \/ \E u \in Waiting : u.symbol_id = BookOf(f) /\ u.update_id = books'[BookOf(f)].last_update_id
    BY <1>5
  <2> QED
    BY <2>1, <2>2
<1>7. OwedInv'
  <2> SUFFICES ASSUME NEW f \in Feeds, HasBook(f)
               PROVE  \/ newest[f] <= books'[BookOf(f)].last_update_id
                      \/ \E u \in Waiting' : u.symbol_id = BookOf(f) /\ newest[f] <= u.update_id
    BY <1>2 DEF OwedInv
  <2>1. BookOf(f) \in SymbolIds
    BY <1>5
  <2>2. newest[f] \in Nat /\ books[BookOf(f)].last_update_id \in Nat /\ books'[BookOf(f)].last_update_id \in Nat
    <3>1. books[BookOf(f)] \in Book /\ books'[BookOf(f)] \in Book
      BY <2>1, <1>1 DEF IInv, TypeOK, SymbolIds, Book
    <3> QED
      BY <3>1, <1>1 DEF Book, IInv, TypeOK
  <2>3. books'[BookOf(f)].last_update_id >= books[BookOf(f)].last_update_id
    BY <2>1, <2>2
  <2>4. CASE newest[f] <= books[BookOf(f)].last_update_id
    BY <2>2, <2>3, <2>4
  <2>5. CASE \E u \in Waiting : u.symbol_id = BookOf(f) /\ newest[f] <= u.update_id
    <3>1. PICK u \in Waiting : u.symbol_id = BookOf(f) /\ newest[f] <= u.update_id
      BY <2>5
    <3>2. u.update_id \in Nat
      BY <1>1, WaitingType
    <3>3. u \in Waiting' \/ u.update_id <= books'[BookOf(f)].last_update_id
      BY <3>1
    <3> QED
      BY <3>1, <3>2, <3>3, <2>2
  <2> QED
    BY <2>4, <2>5, <1>1 DEF OwedInv
<1> QED
  BY <1>3, <1>6, <1>7

\* What readers have seen stays behind the books.
LEMMA ViewKept ==
    ASSUME DInv, registered' = registered, view' = view, books' = books,
           \A s \in SymbolIds : Applying(s) => Applying(s)'
    PROVE  ViewInv'
<1>1. ViewInv
  BY DEF DInv
<1>2. \A f \in Feeds : /\ Registered(LookedUpAs[f])' <=> Registered(LookedUpAs[f])
                       /\ HasBook(f)' <=> HasBook(f)
                       /\ BookOf(f)' = BookOf(f)
  BY DEF Registered, HasBook, BookOf, IdOf
<1>3. \A f \in Feeds : HasBook(f) => BookOf(f) \in SymbolIds
  BY DEF HasBook, BookOf
<1>4. \A s \in SymbolIds : Snapshot(s)' = Snapshot(s)
  BY DEF Snapshot
<1> SUFFICES ASSUME NEW f \in Readers
             PROVE  /\ ~Registered(LookedUpAs[f]) => view[f] = NoView
                    /\ HasBook(f) =>
                         /\ view[f].last_update_id <= books[BookOf(f)].last_update_id
                         /\ view[f].last_update_id = books[BookOf(f)].last_update_id /\ ~Applying(BookOf(f))'
                              => view[f] = Snapshot(BookOf(f))
  <2>1. \A f \in Readers : f \in Feeds
    BY ProcessorAssumption
  <2> QED
    BY <2>1, <1>2, <1>3, <1>4 DEF ViewInv
<1>5. f \in Feeds
  BY ProcessorAssumption
<1>6. HasBook(f) /\ Applying(BookOf(f)) => Applying(BookOf(f))'
  BY <1>2, <1>3, <1>5 DEF Applying
<1> QED
  BY <1>1, <1>3, <1>5, <1>6 DEF ViewInv

\* What is collected still waits.
LEMMA CollectDelivery == ASSUME DInv, Collect \/ CollectEnd PROVE DInv'
<1>1. IInv' /\ IInv /\ WorkInv
  BY CollectInv, CollectEndInv DEF DInv
<1>2. (\A u : u \in Waiting <=> u \in Waiting') /\ WorkInv'
  BY <1>1, CollectWaiting, CollectEndWaiting
<1>3. UNCHANGED <<registered, books, view, newest>> /\ cons.pc = "collect"
  BY DEF Collect, CollectEnd
<1>4. NamesInv' /\ BoundInv' /\ OwedInv'
  BY <1>1, <1>2, <1>3, Kept
<1>5. ViewInv'
  <2>1. \A s \in SymbolIds : ~Applying(s)
    BY <1>3 DEF Applying
  <2> QED
    BY <2>1, <1>1, <1>3, ViewKept
<1> QED
  BY <1>1, <1>2, <1>4, <1>5 DEF DInv

\* The check of an update moves it nowhere.
LEMMA CheckDelivery == ASSUME DInv, CheckUpdate PROVE DInv'
<1>1. IInv' /\ IInv /\ WorkInv
  BY CheckUpdateInv DEF DInv
<1>2. cons.pc = "check" /\ cons \in ConsState /\ UNCHANGED <<registered, rings, batch, books, view, newest>>
  BY <1>1 DEF CheckUpdate, IInv, Placed
<1>3. CASE Current = NoUpdate \/ Current.update_id <= books[Current.symbol_id].last_update_id
  <2>1. cons' = DoneWith
    BY <1>3 DEF CheckUpdate
  <2>2. /\ Waiting' \subseteq Waiting
        /\ \A u \in Waiting : u \in Waiting' \/ u = Current
        /\ cons'.pc \in {"collect", "check"}
        /\ cons'.pc = "collect" => cons'.count = cons'.slot - 1
    BY <2>1, <1>1, <1>2, DoneWaiting
  <2>3. ASSUME NEW u \in Waiting PROVE u \in Waiting' \/ u.update_id <= books'[u.symbol_id].last_update_id
    <3>1. u # NoUpdate
      BY WaitingIs
    <3> QED
      BY <3>1, <2>2, <1>2, <1>3
  <2>4. NamesInv' /\ BoundInv' /\ OwedInv'
    BY <2>2, <2>3, <1>1, <1>2, Kept
  <2>5. WorkInv'
    BY <2>2 DEF WorkInv
  <2>6. ViewInv'
    <3>1. \A s \in SymbolIds : ~Applying(s)
      BY <1>2 DEF Applying
    <3> QED
      BY <3>1, <1>2, ViewKept
  <2> QED
    BY <2>4, <2>5, <2>6, <1>1 DEF DInv
<1>4. CASE ~(Current = NoUpdate \/ Current.update_id <= books[Current.symbol_id].last_update_id)
  <2>1. cons' = [cons EXCEPT !.pc = "levels", !.applied = 0]
    BY <1>4 DEF CheckUpdate
  <2>2. cons'.pc = "levels" /\ cons'.slot = cons.slot /\ cons'.count = cons.count
    BY <2>1, <1>2 DEF ConsState
  <2>3. Slots' = Slots /\ Current' = Current
    BY <2>2, <1>2 DEF Slots, Current
  <2>4. \A u : u \in Waiting <=> u \in Waiting'
    BY <2>3, <1>2, SameWaiting
  <2>5. NamesInv' /\ BoundInv' /\ OwedInv'
    BY <2>4, <1>1, <1>2, Kept
  <2>6. WorkInv'
    <3>1. Current.update_id \in Nat /\ Current.symbol_id \in SymbolIds
      BY <1>1, CurrentType DEF FastUpdate
    <3>2. books[Current.symbol_id].last_update_id \in Nat
      BY <3>1, <1>1 DEF IInv, TypeOK, Book
    <3>3. Current.update_id > books[Current.symbol_id].last_update_id
      BY <3>1, <3>2, <1>4
    <3> QED
      BY <3>3, <2>2, <2>3, <1>2, <1>4 DEF WorkInv
  <2>7. ViewInv'
    <3>1. \A s \in SymbolIds : ~Applying(s)
      BY <1>2 DEF Applying
    <3> QED
      BY <3>1, <1>2, ViewKept
  <2> QED
    BY <2>5, <2>6, <2>7, <1>1 DEF DInv
<1> QED
  BY <1>3, <1>4

\* A change of a level leaves the ids, and exempts its book from what readers see.
LEMMA ChangeDelivery == ASSUME DInv, ApplyChange PROVE DInv'
<1> DEFINE s == Current.symbol_id
           c == Changes(Current)[cons.applied + 1]
<1>1. IInv' /\ IInv /\ WorkInv /\ ViewInv
  BY ApplyChangeInv DEF DInv
<1>2. /\ cons.pc = "levels" /\ cons \in ConsState
      /\ UNCHANGED <<registered, rings, batch, view, newest>>
  BY <1>1 DEF ApplyChange, IInv, Placed
<1>3. cons' = [cons EXCEPT !.applied = @ + 1]
  BY DEF ApplyChange
<1>4. cons'.pc = "levels" /\ cons'.slot = cons.slot /\ cons'.count = cons.count
  BY <1>2, <1>3 DEF ConsState
<1>5. Slots' = Slots /\ Current' = Current
  BY <1>2, <1>4 DEF Slots, Current
<1>6. \A u : u \in Waiting <=> u \in Waiting'
  BY <1>2, <1>5, SameWaiting
<1>7. Current \in FastUpdate /\ s \in SymbolIds
  BY <1>1, CurrentType
<1>8. c.side \in Sides
  <2>1. cons.applied \in Nat /\ cons.applied < Len(Changes(Current))
    BY <1>2 DEF ApplyChange, ConsState
  <2>2. Changes(Current) \in Seq(Change)
    BY <1>7, ChangesType
  <2>3. c \in Change
    BY <2>1, <2>2
  <2> QED
    BY <2>3 DEF Change
<1>9. \E new : books' = [books EXCEPT ![s][c.side] = new]
  BY Zenon DEF ApplyChange
<1> HIDE DEF s, c
<1>10. PICK new : books' = [books EXCEPT ![s][c.side] = new]
  BY <1>9
<1>11. \A b \in Book, side \in Sides :
         /\ [b EXCEPT ![side] = new].last_update_id = b.last_update_id
  BY DEF Book, Sides
<1>12. books \in [SymbolIds -> Book]
  BY <1>1 DEF IInv, TypeOK
<1>13. \A t \in SymbolIds : /\ books'[t].last_update_id = books[t].last_update_id
                            /\ t # s => books'[t] = books[t]
  <2>1. books' = [books EXCEPT ![s] = [books[s] EXCEPT ![c.side] = new]]
    BY <1>7, <1>10, <1>12 DEF s
  <2>2. books[s] \in Book
    BY <1>7, <1>12
  <2> QED
    BY <2>1, <2>2, <1>7, <1>8, <1>11, <1>12
<1>14. Current \in Waiting
  <2>1. cons.slot \in Slots /\ Current # NoUpdate
    BY <1>1, <1>2, ProcessorAssumption DEF IInv, Placed, ConsState, Slots, WorkInv
  <2> QED
    BY <2>1, WaitingIs DEF Current
<1>15. NamesInv' /\ BoundInv' /\ OwedInv'
  <2>1. s < Len(registered)
    BY <1>14 DEF DInv, NamesInv, s
  <2>2. Len(registered) \in Nat /\ s \in Nat
    BY <1>1, <1>7, ProcessorAssumption DEF IInv, TypeOK, SymbolIds
  <2>3. \A t \in SymbolIds : t >= Len(registered) => books'[t] = books[t]
    BY <2>1, <2>2, <1>13, ProcessorAssumption DEF SymbolIds
  <2> QED
    BY <2>3, <1>1, <1>2, <1>6, <1>13, Kept
<1>16. WorkInv'
  BY <1>1, <1>2, <1>4, <1>5, <1>7, <1>13 DEF WorkInv, s
<1>17. ViewInv'
  <2>1. \A f \in Feeds : /\ Registered(LookedUpAs[f])' <=> Registered(LookedUpAs[f])
                         /\ HasBook(f)' <=> HasBook(f)
                         /\ BookOf(f)' = BookOf(f)
                         /\ HasBook(f) => BookOf(f) \in SymbolIds
    BY <1>2 DEF Registered, HasBook, BookOf, IdOf
  <2>2. \A f \in Readers : f \in Feeds
    BY ProcessorAssumption
  <2>3. ASSUME NEW f \in Readers, HasBook(f), ~Applying(BookOf(f))'
        PROVE  ~Applying(BookOf(f)) /\ Snapshot(BookOf(f))' = Snapshot(BookOf(f))
    <3>1. BookOf(f) # s
      BY <2>1, <2>2, <2>3, <1>4, <1>5 DEF Applying, s
    <3>2. books'[BookOf(f)] = books[BookOf(f)]
      BY <3>1, <2>1, <2>2, <2>3, <1>13
    <3> QED
      BY <3>1, <3>2, <2>1, <2>2 DEF Applying, Snapshot, s
  <2>4. ASSUME NEW f \in Readers, HasBook(f)
        PROVE  books'[BookOf(f)].last_update_id = books[BookOf(f)].last_update_id
    BY <2>1, <2>2, <2>4, <1>13
  <2>5. ASSUME NEW f \in Readers
        PROVE  /\ ~Registered(LookedUpAs[f]) => view[f] = NoView
               /\ HasBook(f) =>
                    /\ view[f].last_update_id <= books'[BookOf(f)].last_update_id
                    /\ view[f].last_update_id = books'[BookOf(f)].last_update_id /\ ~Applying(BookOf(f))'
                         => view[f] = Snapshot(BookOf(f))'
    BY <2>3, <2>4, <1>1 DEF ViewInv
  <2> QED
    BY <2>1, <2>2, <2>5, <1>2 DEF ViewInv
<1> QED
  BY <1>1, <1>15, <1>16, <1>17 DEF DInv

\* The book takes the id of an update that waited, which is newer.
LEMMA FinishDelivery == ASSUME DInv, FinishUpdate PROVE DInv'
<1> DEFINE s == Current.symbol_id
<1>1. IInv' /\ IInv /\ WorkInv /\ ViewInv
  BY FinishUpdateInv DEF DInv
<1>2. /\ cons.pc = "levels" /\ cons' = DoneWith
      /\ UNCHANGED <<registered, rings, batch, view, newest>>
  BY DEF FinishUpdate
<1>3. s \in SymbolIds /\ Current.update_id \in Nat
  BY <1>1, CurrentType DEF FastUpdate
<1>4. Current # NoUpdate /\ Current.update_id > books[s].last_update_id
  BY <1>1, <1>2 DEF WorkInv
<1>5. books \in [SymbolIds -> Book] /\ books' \in [SymbolIds -> Book]
  BY <1>1 DEF IInv, TypeOK, SymbolIds, Book
<1>6. books'[s].last_update_id = Current.update_id /\ \A t \in SymbolIds : t # s => books'[t] = books[t]
  <2>1. books' = [books EXCEPT ![s] = [books[s] EXCEPT !.last_update_id = Current.update_id,
                                                       !.update_count = @ + 1]]
    BY <1>3, <1>5 DEF FinishUpdate, Book
  <2>2. ASSUME NEW b \in Book, NEW id \in Nat
        PROVE  [b EXCEPT !.last_update_id = id, !.update_count = @ + 1].last_update_id = id
    <3> DEFINE b1 == [b EXCEPT !.last_update_id = id]
               b2 == [b1 EXCEPT !.update_count = b.update_count + 1]
    <3>1. b1 \in Book /\ b1.last_update_id = id
      BY DEF Book
    <3> HIDE DEF b1
    <3>2. b2.last_update_id = b1.last_update_id
      BY <3>1 DEF Book
    <3> QED
      BY <3>1, <3>2 DEF b1
  <2>3. books[s] \in Book
    BY <1>3, <1>5
  <2> HIDE DEF s
  <2>4. [books[s] EXCEPT !.last_update_id = Current.update_id, !.update_count = @ + 1].last_update_id
           = Current.update_id
    BY <2>2, <2>3, <1>3
  <2> QED
    BY <2>1, <2>4, <1>3, <1>5
<1>7. /\ Waiting' \subseteq Waiting
      /\ \A u \in Waiting : u \in Waiting' \/ u = Current
      /\ cons'.pc \in {"collect", "check"}
      /\ cons'.pc = "collect" => cons'.count = cons'.slot - 1
      /\ Current \in Waiting
  BY <1>1, <1>2, <1>4, DoneWaiting
<1> HIDE DEF s
<1>8. books[s].last_update_id \in Nat /\ books'[s].last_update_id > books[s].last_update_id
  <2>1. books[s] \in Book
    BY <1>3, <1>5
  <2> QED
    BY <2>1, <1>3, <1>4, <1>6 DEF Book
<1>9. s < Len(registered) /\ Len(registered) \in Nat /\ s \in Nat
  <2>1. s < Len(registered)
    BY <1>7 DEF DInv, NamesInv, s
  <2> QED
    BY <2>1, <1>1, <1>3, ProcessorAssumption DEF IInv, TypeOK, SymbolIds
<1>10. NamesInv' /\ BoundInv' /\ OwedInv'
  <2>1. \A t \in SymbolIds : t >= Len(registered) => books'[t] = books[t]
    BY <1>6, <1>9, ProcessorAssumption DEF SymbolIds
  <2>2. ASSUME NEW t \in SymbolIds
        PROVE  \/ books'[t].last_update_id = books[t].last_update_id
               \/ /\ books'[t].last_update_id >= books[t].last_update_id
                  /\ \E u \in Waiting : u.symbol_id = t /\ u.update_id = books'[t].last_update_id
    <3>1. CASE t = s
      <4>1. books'[t].last_update_id >= books[t].last_update_id
        BY <3>1, <1>3, <1>6, <1>8
      <4>2. Current.symbol_id = t /\ Current.update_id = books'[t].last_update_id
        BY <3>1, <1>6 DEF s
      <4> QED
        BY <4>1, <4>2, <1>7
    <3>2. CASE t # s
      BY <3>2, <1>6
    <3> QED
      BY <3>1, <3>2
  <2>3. ASSUME NEW u \in Waiting PROVE u \in Waiting' \/ u.update_id <= books'[u.symbol_id].last_update_id
    <3>1. Current.update_id <= books'[Current.symbol_id].last_update_id
      BY <1>3, <1>6 DEF s
    <3> QED
      BY <3>1, <1>7
  <2> QED
    BY <2>1, <2>2, <2>3, <1>1, <1>2, <1>7, Kept
<1>11. WorkInv'
  BY <1>7 DEF WorkInv
<1>12. ViewInv'
  <2>1. \A f \in Feeds : /\ Registered(LookedUpAs[f])' <=> Registered(LookedUpAs[f])
                         /\ HasBook(f)' <=> HasBook(f)
                         /\ BookOf(f)' = BookOf(f)
                         /\ HasBook(f) => BookOf(f) \in SymbolIds
    BY <1>2 DEF Registered, HasBook, BookOf, IdOf
  <2>2. \A f \in Readers : f \in Feeds
    BY ProcessorAssumption
  <2>3. ASSUME NEW f \in Readers, HasBook(f)
        PROVE  /\ view[f].last_update_id <= books'[BookOf(f)].last_update_id
               /\ view[f].last_update_id = books'[BookOf(f)].last_update_id => view[f] = Snapshot(BookOf(f))'
    <3>1. BookOf(f) \in SymbolIds /\ view[f].last_update_id <= books[BookOf(f)].last_update_id
      BY <2>1, <2>2, <2>3, <1>1 DEF ViewInv
    <3>2. view[f].last_update_id \in Nat
      BY <1>1 DEF IInv, TypeOK
    <3>3. CASE BookOf(f) = s
      BY <3>1, <3>2, <3>3, <1>3, <1>6, <1>8
    <3>4. CASE BookOf(f) # s
      <4>1. books'[BookOf(f)] = books[BookOf(f)]
        BY <3>1, <3>4, <1>6
      <4>2. ~Applying(BookOf(f))
        BY <3>4 DEF Applying, s
      <4>3. Snapshot(BookOf(f))' = Snapshot(BookOf(f))
        BY <4>1, <2>1, <2>2 DEF Snapshot
      <4> QED
        BY <4>1, <4>2, <4>3, <2>2, <2>3, <1>1 DEF ViewInv
    <3> QED
      BY <3>3, <3>4
  <2>4. ASSUME NEW f \in Readers PROVE ~Registered(LookedUpAs[f]) => view[f] = NoView
    BY <1>1 DEF ViewInv
  <2> QED
    BY <2>1, <2>2, <2>3, <2>4, <1>2 DEF ViewInv
<1> QED
  BY <1>1, <1>10, <1>11, <1>12 DEF DInv

\* A new name has the next id: its book is empty and nothing is on its way there.
LEMMA RegisterDelivery == ASSUME DInv, NEW f \in Feeds, Register(f) PROVE DInv'
<1>1. IInv' /\ IInv /\ NamesInv /\ WorkInv /\ BoundInv /\ OwedInv /\ ViewInv
  BY RegisterInv DEF DInv
<1> DEFINE name == RegisteredAs[f]
           n == Len(registered)
<1>2. /\ registered' = Append(registered, name) /\ ~Registered(name)
      /\ UNCHANGED <<rings, batch, cons, books, view, newest>>
  BY DEF Register
<1>3. n \in Nat /\ registered \in Seq({RegisteredAs[g] : g \in Feeds})
  BY <1>1 DEF IInv, TypeOK
<1>4. /\ Len(registered') = n + 1 /\ registered'[n + 1] = name
      /\ \A k \in 1 .. n : registered'[k] = registered[k]
  BY <1>2, <1>3
<1>5. \A k \in 1 .. n : registered[k] # name
  BY <1>2 DEF Registered
<1> HIDE DEF name, n
<1>6. \A i, j \in 1 .. Len(registered') : registered'[i] = registered'[j] => i = j
  <2> SUFFICES ASSUME NEW i \in 1 .. n + 1, NEW j \in 1 .. n + 1, registered'[i] = registered'[j] PROVE i = j
    BY <1>4
  <2>1. CASE i \in 1 .. n /\ j \in 1 .. n
    BY <2>1, <1>1, <1>4 DEF NamesInv, n
  <2>2. CASE i = n + 1 /\ j \in 1 .. n
    BY <2>2, <1>4, <1>5
  <2>3. CASE i \in 1 .. n /\ j = n + 1
    BY <2>3, <1>4, <1>5
  <2>4. CASE i = n + 1 /\ j = n + 1
    BY <2>4
  <2> QED
    BY <2>1, <2>2, <2>3, <2>4, <1>3
<1>7. \A u : u \in Waiting <=> u \in Waiting'
  <2>1. Slots' = Slots
    BY <1>2 DEF Slots
  <2> QED
    BY <2>1, <1>2, SameWaiting
\* The names known before keep their ids.
<1>8. ASSUME NEW x, Registered(x) PROVE Registered(x)' /\ IdOf(x)' = IdOf(x)
  <2>1. /\ IdOf(x) \in Nat /\ IdOf(x) + 1 \in 1 .. n /\ registered[IdOf(x) + 1] = x
    BY <1>1, <1>8, NameAt DEF n
  <2> DEFINE k == IdOf(x) + 1
             c == CHOOSE j \in 1 .. Len(registered') : registered'[j] = x
  <2>2. k \in 1 .. Len(registered') /\ registered'[k] = x
    BY <2>1, <1>3, <1>4
  <2>3. c \in 1 .. Len(registered') /\ registered'[c] = x
    BY <2>2
  <2>4. c = k
    BY <2>2, <2>3, <1>6
  <2>5. IdOf(x)' = c - 1
    BY DEF IdOf
  <2>6. Registered(x)'
    BY <2>2 DEF Registered
  <2> HIDE DEF c
  <2>7. IdOf(x)' = IdOf(x)
    BY <2>1, <2>4, <2>5
  <2> QED
    BY <2>6, <2>7
\* The new one has the next.
<1>9. Registered(name)' /\ IdOf(name)' = n
  <2> DEFINE c == CHOOSE j \in 1 .. Len(registered') : registered'[j] = name
  <2>1. n + 1 \in 1 .. Len(registered') /\ registered'[n + 1] = name
    BY <1>3, <1>4
  <2>2. c \in 1 .. Len(registered') /\ registered'[c] = name
    BY <2>1
  <2>3. c = n + 1
    BY <2>1, <2>2, <1>6
  <2>4. IdOf(name)' = c - 1
    BY DEF IdOf
  <2>5. Registered(name)'
    BY <2>1 DEF Registered
  <2> HIDE DEF c
  <2>6. IdOf(name)' = n
    BY <2>3, <2>4, <1>3
  <2> QED
    BY <2>5, <2>6
<1>10. ASSUME NEW x, Registered(x)', x # name PROVE Registered(x)
  <2>1. PICK k \in 1 .. Len(registered') : registered'[k] = x
    BY <1>10 DEF Registered
  <2>2. k \in 1 .. n /\ registered[k] = x
    BY <2>1, <1>3, <1>4, <1>10
  <2> QED
    BY <2>2 DEF Registered, n
<1>11. NamesInv'
  <2>1. \A u \in Waiting' : u.symbol_id < Len(registered')
    <3> SUFFICES ASSUME NEW u \in Waiting PROVE u.symbol_id < n + 1
      BY <1>4, <1>7
    <3>1. u.symbol_id < n /\ u.symbol_id \in SymbolIds
      BY <1>1, WaitingType DEF NamesInv, n
    <3> QED
      BY <3>1, <1>3, ProcessorAssumption DEF SymbolIds
  <2>2. \A s \in SymbolIds : s >= Len(registered') => books'[s] = NewBook
    <3> SUFFICES ASSUME NEW s \in SymbolIds, s >= n + 1 PROVE books[s] = NewBook
      BY <1>2, <1>4
    <3>1. s >= n
      BY <1>3, ProcessorAssumption DEF SymbolIds
    <3> QED
      BY <3>1, <1>1 DEF NamesInv, n
  <2>3. \A g \in Feeds : ~Registered(LookedUpAs[g])' => newest'[g] = 0
    BY <1>1, <1>2, <1>8 DEF NamesInv
  <2> QED
    BY <1>6, <2>1, <2>2, <2>3 DEF NamesInv, SymbolIds
\* A feed that has a book now and had none has a new one.
<1>12. ASSUME NEW g \in Feeds, HasBook(g)'
       PROVE  \/ HasBook(g) /\ BookOf(g)' = BookOf(g)
              \/ /\ BookOf(g)' \in SymbolIds /\ books[BookOf(g)'] = NewBook
                 /\ newest[g] = 0 /\ ~Registered(LookedUpAs[g])
                 /\ \A u \in Waiting : u.symbol_id # BookOf(g)'
  <2>1. Registered(LookedUpAs[g])' /\ IdOf(LookedUpAs[g])' \in SymbolIds
    BY <1>12 DEF HasBook, SymbolIds
  <2>2. CASE Registered(LookedUpAs[g])
    BY <2>1, <2>2, <1>8 DEF HasBook, BookOf
  <2>3. CASE ~Registered(LookedUpAs[g])
    <3>1. LookedUpAs[g] = name
      BY <2>1, <2>3, <1>10
    <3>2. BookOf(g)' = n /\ n \in SymbolIds
      BY <3>1, <2>1, <1>9 DEF BookOf
    <3>3. books[n] = NewBook
      BY <3>2, <1>1, <1>3 DEF NamesInv, n
    <3>4. \A u \in Waiting : u.symbol_id # n
      <4> SUFFICES ASSUME NEW u \in Waiting, u.symbol_id = n PROVE FALSE
        OBVIOUS
      <4>1. u.symbol_id < n
        BY <1>1 DEF NamesInv, n
      <4> QED
        BY <4>1, <1>3
    <3>5. newest[g] = 0
      BY <2>3, <1>1 DEF NamesInv
    <3> QED
      BY <2>3, <3>2, <3>3, <3>4, <3>5
  <2> QED
    BY <2>2, <2>3
<1>13. newest \in [Feeds -> Nat] /\ \A g \in Feeds : Reached(g, 0)
  BY <1>1 DEF IInv, TypeOK, Reached
<1>14. BoundInv'
  <2> SUFFICES ASSUME NEW g \in Feeds, HasBook(g)'
               PROVE  /\ Reached(g, books[BookOf(g)'].last_update_id)
                      /\ \A u \in Waiting : u.symbol_id = BookOf(g)' => Reached(g, u.update_id)
    BY <1>2, <1>7 DEF BoundInv, Reached
  <2>1. CASE HasBook(g) /\ BookOf(g)' = BookOf(g)
    BY <2>1, <1>1 DEF BoundInv
  <2>2. CASE books[BookOf(g)'] = NewBook /\ \A u \in Waiting : u.symbol_id # BookOf(g)'
    BY <2>2, <1>13 DEF NewBook
  <2> QED
    BY <2>1, <2>2, <1>12
<1>15. OwedInv'
  <2> SUFFICES ASSUME NEW g \in Feeds, HasBook(g)'
               PROVE  \/ newest[g] <= books[BookOf(g)'].last_update_id
                      \/ \E u \in Waiting : u.symbol_id = BookOf(g)' /\ newest[g] <= u.update_id
    BY <1>2, <1>7 DEF OwedInv
  <2>1. CASE HasBook(g) /\ BookOf(g)' = BookOf(g)
    BY <2>1, <1>1 DEF OwedInv
  <2>2. CASE books[BookOf(g)'] = NewBook /\ newest[g] = 0
    BY <2>2 DEF NewBook
  <2> QED
    BY <2>1, <2>2, <1>12
<1>16. ViewInv'
  <2>1. \A g \in Readers : g \in Feeds
    BY ProcessorAssumption
  <2>2. \A g \in Readers : Applying(BookOf(g))' <=> cons.pc = "levels" /\ Current.symbol_id = BookOf(g)'
    BY <1>2 DEF Applying, Current
  <2>3. ASSUME NEW g \in Readers
        PROVE  /\ ~Registered(LookedUpAs[g])' => view[g] = NoView
               /\ HasBook(g)' =>
                    /\ view[g].last_update_id <= books[BookOf(g)'].last_update_id
                    /\ view[g].last_update_id = books[BookOf(g)'].last_update_id /\ ~Applying(BookOf(g))'
                         => view[g] = Snapshot(BookOf(g))'
    <3>1. ~Registered(LookedUpAs[g])' => view[g] = NoView
      BY <1>1, <1>8 DEF ViewInv
    <3>2. CASE HasBook(g) /\ BookOf(g)' = BookOf(g)
      <4>1. Snapshot(BookOf(g))' = Snapshot(BookOf(g))
        BY <3>2, <1>2 DEF Snapshot
      <4>2. Applying(BookOf(g))' <=> Applying(BookOf(g))
        BY <3>2, <2>2 DEF Applying
      <4> QED
        BY <3>1, <3>2, <4>1, <4>2, <1>1 DEF ViewInv
    <3>3. CASE books[BookOf(g)'] = NewBook /\ ~Registered(LookedUpAs[g])
      <4>1. view[g] = NoView
        BY <3>3, <1>1 DEF ViewInv
      <4>2. Snapshot(BookOf(g))' = NoView
        BY <3>3, <1>2 DEF Snapshot, NewBook, NoView
      <4> QED
        BY <3>1, <3>3, <4>1, <4>2 DEF NoView, NewBook
    <3>4. CASE ~HasBook(g)'
      BY <3>1, <3>4
    <3> QED
      BY <3>2, <3>3, <3>4, <2>1, <1>12
  <2> QED
    BY <2>3, <1>2 DEF ViewInv
<1>17. WorkInv'
  BY <1>1, <1>2 DEF WorkInv, Current
<1> QED
  BY <1>1, <1>11, <1>14, <1>15, <1>16, <1>17 DEF DInv

\* What is pushed waits; the id is among those accepted for its symbol.
LEMMA PushDelivery ==
    ASSUME DInv, NEW f \in Feeds, NEW id \in Ids, NEW payload \in Payloads, Push(f, id, payload)
    PROVE  DInv'
<1> DEFINE new == Convert(f, id, payload)
<1>1. IInv' /\ IInv /\ NamesInv /\ WorkInv /\ BoundInv /\ OwedInv /\ ViewInv
  BY PushInv DEF DInv
<1>2. /\ Waiting \subseteq Waiting'
      /\ \A u \in Waiting' : u \in Waiting \/ u = new
      /\ new # NoUpdate => new \in Waiting'
  BY <1>1, PushWaiting
<1>3. new.symbol_id = BookOf(f) /\ new.update_id = id
  BY DEF Convert, BookOf
<1>4. NoUpdate.update_id = 0
  BY DEF NoUpdate
<1> HIDE DEF new
<1>5. UNCHANGED <<registered, panicked, batch, cons, books, view>> /\ Registered(LookedUpAs[f])
  BY DEF Push
<1>6. id \in Nat /\ newest \in [Feeds -> Nat]
  BY <1>1, ProcessorAssumption DEF IInv, TypeOK
<1>7. newest' = [newest EXCEPT ![f] = IF id > newest[f] THEN id ELSE newest[f]]
  BY DEF Push
<1>8. /\ newest'[f] = IF id > newest[f] THEN id ELSE newest[f]
      /\ \A g \in Feeds : g # f => newest'[g] = newest[g]
      /\ \A g \in Feeds : newest'[g] \in Nat /\ newest'[g] >= newest[g]
  BY <1>6, <1>7
<1>9. \A g \in Feeds : /\ Registered(LookedUpAs[g])' <=> Registered(LookedUpAs[g])
                       /\ HasBook(g)' <=> HasBook(g)
                       /\ BookOf(g)' = BookOf(g)
                       /\ HasBook(g) => BookOf(g) \in SymbolIds
  BY <1>5 DEF Registered, HasBook, BookOf, IdOf
<1>10. NamesInv'
  <2>1. BookOf(f) < Len(registered)
    BY <1>1, <1>5, NameAt DEF BookOf
  <2>2. \A u \in Waiting' : u.symbol_id < Len(registered)
    BY <2>1, <1>1, <1>2, <1>3 DEF NamesInv
  <2>3. \A g \in Feeds : ~Registered(LookedUpAs[g]) => newest'[g] = 0
    BY <1>1, <1>5, <1>8 DEF NamesInv
  <2> QED
    BY <2>2, <2>3, <1>1, <1>5, <1>9 DEF NamesInv, SymbolIds
<1>11. \A g \in Feeds, i \in Nat : Reached(g, i) => Reached(g, i)'
  <2> SUFFICES ASSUME NEW g \in Feeds, NEW i \in Nat, NEW h \in Feeds,
                      LookedUpAs[h] = LookedUpAs[g], i <= newest[h]
               PROVE  Reached(g, i)'
    BY DEF Reached
  <2>1. i <= newest'[h]
    BY <1>6, <1>8
  <2> QED
    BY <2>1 DEF Reached
<1>12. BoundInv'
  <2> SUFFICES ASSUME NEW g \in Feeds, HasBook(g)
               PROVE  /\ Reached(g, books[BookOf(g)].last_update_id)'
                      /\ \A u \in Waiting' : u.symbol_id = BookOf(g) => Reached(g, u.update_id)'
    BY <1>5, <1>9 DEF BoundInv
  <2>1. Reached(g, books[BookOf(g)].last_update_id)'
    <3>1. books[BookOf(g)].last_update_id \in Nat
      <4>1. books[BookOf(g)] \in Book
        BY <1>1, <1>9 DEF IInv, TypeOK
      <4> QED
        BY <4>1 DEF Book
    <3>2. Reached(g, books[BookOf(g)].last_update_id)
      BY <1>1 DEF BoundInv
    <3>3. PICK h \in Feeds : LookedUpAs[h] = LookedUpAs[g] /\ books[BookOf(g)].last_update_id <= newest[h]
      BY <3>2 DEF Reached
    <3>4. books[BookOf(g)].last_update_id <= newest'[h]
      BY <3>1, <3>3, <1>6, <1>8
    <3> QED
      BY <3>3, <3>4, <1>5, <1>9 DEF Reached
  <2>2. ASSUME NEW u \in Waiting', u.symbol_id = BookOf(g) PROVE Reached(g, u.update_id)'
    <3>1. CASE u \in Waiting
      <4>1. u.update_id \in Nat /\ Reached(g, u.update_id)
        BY <3>1, <2>2, <1>1, WaitingType DEF BoundInv
      <4> QED
        BY <4>1, <1>11
    <3>2. CASE u = new
      <4>1. IdOf(LookedUpAs[g]) = IdOf(LookedUpAs[f]) /\ Registered(LookedUpAs[g])
        BY <3>2, <2>2, <1>3 DEF BookOf, HasBook
      <4>2. LookedUpAs[g] = LookedUpAs[f]
        <5>1. registered[IdOf(LookedUpAs[g]) + 1] = LookedUpAs[g]
          BY <4>1, <1>1, NameAt
        <5>2. registered[IdOf(LookedUpAs[f]) + 1] = LookedUpAs[f]
          BY <1>1, <1>5, NameAt
        <5> QED
          BY <4>1, <5>1, <5>2
      <4>3. u.update_id <= newest'[f]
        BY <3>2, <1>3, <1>6, <1>8
      <4> QED
        BY <4>2, <4>3 DEF Reached
    <3> QED
      BY <3>1, <3>2, <1>2
  <2> QED
    BY <2>1, <2>2
<1>13. OwedInv'
  <2> SUFFICES ASSUME NEW g \in Feeds, HasBook(g)
               PROVE  \/ newest'[g] <= books[BookOf(g)].last_update_id
                      \/ \E u \in Waiting' : u.symbol_id = BookOf(g) /\ newest'[g] <= u.update_id
    BY <1>5, <1>9 DEF OwedInv
  <2>1. CASE newest'[g] = newest[g]
    BY <2>1, <1>1, <1>2 DEF OwedInv
  <2>2. CASE newest'[g] # newest[g]
    <3>1. g = f /\ newest'[f] = id /\ id > newest[f]
      BY <2>2, <1>8
    <3>2. id # 0
      BY <3>1, <1>6
    <3>3. new \in Waiting'
      BY <3>2, <1>2, <1>3, <1>4
    <3> QED
      BY <3>1, <3>3, <1>3, <1>6
  <2> QED
    BY <2>1, <2>2
<1>14. WorkInv'
  BY <1>1, <1>5 DEF WorkInv, Current
<1>15. ViewInv'
  <2>1. \A s \in SymbolIds : Applying(s) => Applying(s)'
    BY <1>5 DEF Applying, Current
  <2> QED
    BY <2>1, <1>5, ViewKept
<1> QED
  BY <1>1, <1>10, <1>12, <1>13, <1>14, <1>15 DEF DInv

\* A read under the lock sees a book that no update is being applied to.
LEMMA ReadDelivery == ASSUME DInv, NEW f \in Readers, Read(f) PROVE DInv'
<1>1. IInv' /\ IInv /\ NamesInv /\ WorkInv /\ BoundInv /\ OwedInv /\ ViewInv
  BY ReadInv DEF DInv
<1>2. /\ UNCHANGED <<registered, panicked, rings, batch, cons, books, newest>>
      /\ Registered(LookedUpAs[f]) /\ cons.pc # "levels"
      /\ view' = [view EXCEPT ![f] = Snapshot(BookOf(f))]
  BY DEF Read, Locked, BookOf
<1>3. \A u : u \in Waiting <=> u \in Waiting'
  <2>1. Slots' = Slots
    BY <1>2 DEF Slots
  <2> QED
    BY <2>1, <1>2, SameWaiting
<1>4. NamesInv' /\ BoundInv' /\ OwedInv'
  BY <1>1, <1>2, <1>3, Kept
<1>5. WorkInv'
  BY <1>1, <1>2 DEF WorkInv, Current
<1>6. \A g \in Feeds : /\ Registered(LookedUpAs[g])' <=> Registered(LookedUpAs[g])
                       /\ HasBook(g)' <=> HasBook(g)
                       /\ BookOf(g)' = BookOf(g)
                       /\ HasBook(g) => BookOf(g) \in SymbolIds
  BY <1>2 DEF Registered, HasBook, BookOf, IdOf
<1>7. f \in Feeds /\ \A g \in Readers : g \in Feeds
  BY ProcessorAssumption
<1>8. \A g \in Readers : /\ Snapshot(BookOf(g))' = Snapshot(BookOf(g))
                         /\ view'[g] = IF g = f THEN Snapshot(BookOf(f)) ELSE view[g]
  <2>1. view \in [Readers -> [last_update_id : Nat, bid : Seq(Level), ask : Seq(Level)]]
    BY <1>1 DEF IInv, TypeOK
  <2> QED
    BY <2>1, <1>2, <1>6, <1>7 DEF Snapshot
<1>9. ViewInv'
  <2> SUFFICES ASSUME NEW g \in Readers
               PROVE  /\ ~Registered(LookedUpAs[g]) => view'[g] = NoView
                      /\ HasBook(g) =>
                           /\ view'[g].last_update_id <= books[BookOf(g)].last_update_id
                           /\ view'[g].last_update_id = books[BookOf(g)].last_update_id
                                => view'[g] = Snapshot(BookOf(g))
    BY <1>2, <1>6, <1>7, <1>8 DEF ViewInv
  <2>1. CASE g = f
    <3>1. view'[g] = Snapshot(BookOf(g)) /\ Snapshot(BookOf(g)).last_update_id = books[BookOf(g)].last_update_id
      BY <2>1, <1>8 DEF Snapshot
    <3>2. HasBook(g) => books[BookOf(g)].last_update_id \in Nat
      <4> HAVE HasBook(g)
      <4>1. books[BookOf(g)] \in Book
        BY <1>1, <1>6, <1>7 DEF IInv, TypeOK
      <4> QED
        BY <4>1 DEF Book
    <3> QED
      BY <2>1, <3>1, <3>2, <1>2
  <2>2. CASE g # f
    <3>1. view'[g] = view[g] /\ ~Applying(BookOf(g))
      BY <2>2, <1>2, <1>8 DEF Applying
    <3> QED
      BY <3>1, <1>1 DEF ViewInv
  <2> QED
    BY <2>1, <2>2
<1> QED
  BY <1>1, <1>4, <1>5, <1>9 DEF DInv

\* Every step keeps the invariant.
LEMMA DeliveryStep == DInv /\ [Next]_vars => DInv'
<1> SUFFICES ASSUME DInv, [Next]_vars PROVE DInv'
  OBVIOUS
<1>1. CASE UNCHANGED vars
  <2>1. IInv'
    BY <1>1, InvStep DEF DInv
  <2>2. UNCHANGED <<registered, rings, batch, cons, books, view, newest>>
    BY <1>1 DEF vars
  <2>3. Slots' = Slots /\ WorkInv' /\ \A s \in SymbolIds : Applying(s) => Applying(s)'
    BY <2>2 DEF Slots, DInv, WorkInv, Current, Applying
  <2>4. \A u : u \in Waiting <=> u \in Waiting'
    BY <2>2, <2>3, SameWaiting
  <2>5. NamesInv' /\ BoundInv' /\ OwedInv' /\ ViewInv'
    BY <2>1, <2>2, <2>3, <2>4, Kept, ViewKept
  <2> QED
    BY <2>1, <2>3, <2>5 DEF DInv
<1>2. ASSUME NEW f \in Feeds, Register(f) PROVE DInv'
  BY <1>2, RegisterDelivery
<1>3. ASSUME NEW f \in Feeds, NEW id \in Ids, NEW payload \in Payloads, Push(f, id, payload) PROVE DInv'
  BY <1>3, PushDelivery
<1>4. ASSUME NEW f \in Readers, Read(f) PROVE DInv'
  BY <1>4, ReadDelivery
<1>5. CASE Process
  BY <1>5, CollectDelivery, CheckDelivery, ChangeDelivery, FinishDelivery DEF Process
<1> QED
  BY <1>1, <1>2, <1>3, <1>4, <1>5 DEF Next

-----------------------------------------------------------------------------
(* The theorems.                                                           *)

\* Nothing that was accepted is overlooked: when no update of a symbol is on its
\* way its book carries the greatest id accepted for it, through full batches,
\* late registrations and updates that are skipped.
THEOREM AlwaysDrained == Spec => []Drained
<1>1. DInv => Drained
  <2> SUFFICES ASSUME DInv, NEW f \in Feeds, HasBook(f),
                      \A u \in InRings \cup InBatch : u.symbol_id = BookOf(f) => u = NoUpdate
               PROVE  LET ids == {newest[g] : g \in {h \in Feeds : LookedUpAs[h] = LookedUpAs[f]}}
                      IN  AppliedId(f) \in ids /\ \A id \in ids : id <= AppliedId(f)
    BY DEF Drained, BookOf
  <2> DEFINE applied == books[BookOf(f)].last_update_id
  <2>1. AppliedId(f) = applied
    BY DEF AppliedId, BookOf
  <2>2. \A u \in Waiting : u.symbol_id # BookOf(f)
    BY DEF Waiting
  <2>3. ASSUME NEW g \in Feeds, LookedUpAs[g] = LookedUpAs[f] PROVE newest[g] <= applied
    <3>1. HasBook(g) /\ BookOf(g) = BookOf(f)
      BY <2>3 DEF HasBook, BookOf
    <3> QED
      BY <3>1, <2>2 DEF DInv, OwedInv
  <2>4. PICK g \in Feeds : LookedUpAs[g] = LookedUpAs[f] /\ applied <= newest[g]
    BY DEF DInv, BoundInv, Reached
  <2>5. applied \in Nat /\ newest[g] \in Nat
    <3>1. books[BookOf(f)] \in Book
      BY DEF DInv, IInv, TypeOK, HasBook, BookOf
    <3> QED
      BY <3>1 DEF Book, DInv, IInv, TypeOK
  <2> HIDE DEF applied
  <2>6. newest[g] = applied
    BY <2>3, <2>4, <2>5
  <2> QED
    BY <2>1, <2>3, <2>4, <2>6
<1> QED
  BY <1>1, DeliveryInit, DeliveryStep, PTL DEF Spec

\* get_orderbook copies under the read lock: the id of what a reader sees never
\* goes back, and the same id means the same book.
THEOREM SnapshotsAreVersions == Spec => SnapshotsVersioned
<1>1. DInv /\ [Next]_vars =>
        [\A f \in Readers :
           /\ view'[f].last_update_id >= view[f].last_update_id
           /\ view'[f].last_update_id = view[f].last_update_id => view'[f] = view[f]]_vars
  <2> SUFFICES ASSUME DInv, Next, NEW f \in Readers
               PROVE  /\ view'[f].last_update_id >= view[f].last_update_id
                      /\ view'[f].last_update_id = view[f].last_update_id => view'[f] = view[f]
    OBVIOUS
  <2>1. IInv /\ ViewInv /\ f \in Feeds
    BY ProcessorAssumption DEF DInv
  <2>2. view[f].last_update_id \in Nat
    BY <2>1 DEF IInv, TypeOK
  <2>3. ASSUME NEW g \in Readers, Read(g)
        PROVE  /\ view'[f].last_update_id >= view[f].last_update_id
               /\ view'[f].last_update_id = view[f].last_update_id => view'[f] = view[f]
    <3>1. /\ Registered(LookedUpAs[g]) /\ ~panicked /\ cons.pc # "levels"
          /\ view' = [view EXCEPT ![g] = Snapshot(BookOf(g))]
      BY <2>3 DEF Read, Locked, BookOf
    <3>2. CASE g # f
      <4>1. view'[f] = view[f]
        BY <3>1, <3>2, <2>1 DEF IInv, TypeOK
      <4> QED
        BY <4>1, <2>2
    <3>3. CASE g = f
      <4>1. HasBook(f) /\ BookOf(f) \in SymbolIds
        BY <3>1, <3>3, <2>1, IdValid DEF IInv, TypeOK, RegistrationInv, HasBook, BookOf
      <4>2. view'[f] = Snapshot(BookOf(f)) /\ Snapshot(BookOf(f)).last_update_id = books[BookOf(f)].last_update_id
        BY <3>1, <3>3, <2>1 DEF IInv, TypeOK, Snapshot
      <4>3. books[BookOf(f)].last_update_id \in Nat
        <5>1. books[BookOf(f)] \in Book
          BY <4>1, <2>1 DEF IInv, TypeOK
        <5> QED
          BY <5>1 DEF Book
      <4>4. ~Applying(BookOf(f))
        BY <3>1 DEF Applying
      <4> QED
        BY <4>1, <4>2, <4>3, <4>4, <2>1, <2>2 DEF ViewInv
    <3> QED
      BY <3>2, <3>3
  <2>4. ASSUME view' = view
        PROVE  /\ view'[f].last_update_id >= view[f].last_update_id
               /\ view'[f].last_update_id = view[f].last_update_id => view'[f] = view[f]
    BY <2>2, <2>4
  <2>5. view' = view \/ \E g \in Readers : Read(g)
    BY DEF Next, Register, Push, Process, Collect, CollectEnd, CheckUpdate, ApplyChange, FinishUpdate
  <2> QED
    BY <2>3, <2>4, <2>5
<1> QED
  BY <1>1, DeliveryInit, DeliveryStep, PTL DEF Spec, SnapshotsVersioned

================================================================================
