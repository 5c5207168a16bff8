--------------------------- MODULE MarketDataProofs ----------------------------
(***************************************************************************)
(* Theorems about the components MCMarketData runs: the sequence locks of  *)
(* the market data cache, the engine that makes L3 events of L2 books,     *)
(* NBBO, the limits of connections and retries; and about all of them      *)
(* together, with the feeds and their messages (FeedProofs).               *)
(***************************************************************************)
EXTENDS MCMarketData, FeedProofs

CacheSpec == CacheInit /\ [][CacheNext]_cvars

Accesses == Fields \cup {"odd", "even", "s1", "s2"}

\* What is left of program p when n of its accesses are: its last n.
Suffix(p, n) == [i \in 1 .. n |-> p[i + Len(p) - n]]

Marks(p) == p = update_orderbook_with_seq

\* A writer's call is in the middle of a program, and has loaded the sequence
\* number if the program has marks.
AtWork(w) ==
    \E p \in Updates : \E n \in 1 .. Len(p) :
      /\ writer[w].todo = Suffix(p, n)
      /\ IF Marks(p) THEN writer[w].seq > 0 ELSE writer[w].seq = 0

WriterOK == \A w \in Writers : Busy(w) => AtWork(w)

ReaderOK ==
    \A r \in Readers :
      \/ reader[r] = NotReading
      \/ \E n \in 1 .. Len(read_snapshot) :
           /\ reader[r].todo = Suffix(read_snapshot, n)
           /\ n >= 8 => reader[r].got = <<>>

\* Both values of the sequence number are accounted for: if it is odd somebody
\* has yet to make it even.
Closing(w) == Busy(w) /\ writer[w].todo[Len(writer[w].todo)] = "even"
OddIsClosed == seq % 2 = 1 => \E w \in Writers : Closing(w)

TypeInv ==
    /\ slot \in [Fields -> 0 .. MaxCalls]
    /\ seq \in Nat
    /\ calls \in 0 .. MaxCalls
    /\ raced \in BOOLEAN
    /\ writer \in [Writers -> [call : 0 .. calls, seq : Nat, todo : Seq(Accesses)]]
    /\ reader \in [Readers -> [s1 : Nat, todo : Seq(Accesses), got : Seq(0 .. MaxCalls)]]

BaseInv == TypeInv /\ WriterOK /\ ReaderOK /\ OddIsClosed

-----------------------------------------------------------------------------
(* The programs.                                                           *)

\* A program with marks has them at its ends; every other access is of a field.
LEMMA Programs ==
    ASSUME NEW p \in Updates
    PROVE  /\ p \in Seq(Accesses) /\ Len(p) \in 3 .. 8
           /\ Fast(p) <=> ~Marks(p)
           /\ Marks(p) => /\ Len(p) = 8 /\ p[1] = "odd" /\ p[8] = "even"
                          /\ \A i \in 2 .. 7 : p[i] \in Fields
           /\ ~Marks(p) => \A i \in 1 .. Len(p) : p[i] \in Fields
<1> DEFINE u == update_orderbook_with_seq
<1>1. u \in Seq(Accesses) /\ Len(u) = 8
  BY DEF update_orderbook_with_seq, Accesses, Fields
<1>2. u[1] = "odd" /\ u[8] = "even"
  BY DEF update_orderbook_with_seq
<1>3. \A i \in 2 .. 7 : u[i] \in Fields
  <2>1. u[2] \in Fields /\ u[3] \in Fields /\ u[4] \in Fields
    BY DEF update_orderbook_with_seq, Fields
  <2>2. u[5] \in Fields /\ u[6] \in Fields /\ u[7] \in Fields
    BY DEF update_orderbook_with_seq, Fields
  <2> HIDE DEF u
  <2> QED
    BY <2>1, <2>2
<1>4. CASE p = update_bid_fast
  <2>1. p \in Seq(Accesses) /\ Len(p) = 4
    BY <1>4 DEF update_bid_fast, Accesses, Fields
  <2>2. p[1] \in Fields /\ p[2] \in Fields /\ p[3] \in Fields /\ p[4] \in Fields
    BY <1>4 DEF update_bid_fast, Fields
  <2>3. \A i \in 1 .. Len(p) : p[i] \in Fields
    BY <2>1, <2>2
  <2>4. Len(p) # Len(u)
    BY <1>1, <2>1
  <2>5. p # update_orderbook_with_seq
    BY <2>4, Zenon
  <2> QED
    BY <2>1, <2>3, <2>5 DEF Fast, Marks
<1>5. CASE p = update_ask_fast
  <2>1. p \in Seq(Accesses) /\ Len(p) = 4
    BY <1>5 DEF update_ask_fast, Accesses, Fields
  <2>2. p[1] \in Fields /\ p[2] \in Fields /\ p[3] \in Fields /\ p[4] \in Fields
    BY <1>5 DEF update_ask_fast, Fields
  <2>3. \A i \in 1 .. Len(p) : p[i] \in Fields
    BY <2>1, <2>2
  <2>4. Len(p) # Len(u)
    BY <1>1, <2>1
  <2>5. p # update_orderbook_with_seq
    BY <2>4, Zenon
  <2> QED
    BY <2>1, <2>3, <2>5 DEF Fast, Marks
<1>6. CASE p = update_trade_fast
  <2>1. p \in Seq(Accesses) /\ Len(p) = 3
    BY <1>6 DEF update_trade_fast, Accesses, Fields
  <2>2. p[1] \in Fields /\ p[2] \in Fields /\ p[3] \in Fields
    BY <1>6 DEF update_trade_fast, Fields
  <2>3. \A i \in 1 .. Len(p) : p[i] \in Fields
    BY <2>1, <2>2
  <2>4. Len(p) # Len(u)
    BY <1>1, <2>1
  <2>5. p # update_orderbook_with_seq
    BY <2>4, Zenon
  <2> QED
    BY <2>1, <2>3, <2>5 DEF Fast, Marks
<1>7. CASE p = u
  <2>1. p \in Seq(Accesses) /\ Len(p) = 8
    BY <1>1, <1>7
  <2>2. p[1] = "odd" /\ p[8] = "even" /\ \A i \in 2 .. 7 : p[i] \in Fields
    BY <1>2, <1>3, <1>7
  <2>3. Marks(p) /\ ~Fast(p)
    BY <1>7 DEF Marks, Fast
  <2> QED
    BY <2>1, <2>2, <2>3
<1> QED
  BY <1>4, <1>5, <1>6, <1>7 DEF Updates

\* A read loads the sequence, the seven words and the sequence again.
LEMMA Reads ==
    /\ read_snapshot \in Seq(Accesses) /\ Len(read_snapshot) = 9
    /\ read_snapshot[1] = "s1" /\ read_snapshot[9] = "s2"
    /\ \A i \in 2 .. 8 : read_snapshot[i] \in Fields
<1>1. read_snapshot \in Seq(Accesses) /\ Len(read_snapshot) = 9
  BY DEF read_snapshot, Accesses, Fields
<1>2. read_snapshot[1] = "s1" /\ read_snapshot[9] = "s2"
  BY DEF read_snapshot
<1>3. /\ read_snapshot[2] \in Fields /\ read_snapshot[3] \in Fields
      /\ read_snapshot[4] \in Fields /\ read_snapshot[5] \in Fields
  BY DEF read_snapshot, Fields
<1>4. read_snapshot[6] \in Fields /\ read_snapshot[7] \in Fields /\ read_snapshot[8] \in Fields
  BY DEF read_snapshot, Fields
<1> QED
  BY <1>1, <1>2, <1>3, <1>4

\* The accesses of fields are none of the marks, and no load of the number.
LEMMA FieldNames ==
    /\ "odd" \notin Fields /\ "even" \notin Fields
    /\ "s1" \notin Fields /\ "s2" \notin Fields
  BY DEF Fields

\* The next access of a suffix, its last, and what is left after the next.
LEMMA SuffixSeq ==
    ASSUME NEW p \in Seq(Accesses), NEW n \in 1 .. Len(p)
    PROVE  /\ Suffix(p, n) \in Seq(Accesses)
           /\ Len(Suffix(p, n)) = n
           /\ Suffix(p, n) # <<>>
           /\ Head(Suffix(p, n)) = p[1 + Len(p) - n]
           /\ Suffix(p, n)[n] = p[Len(p)]
<1>1. Suffix(p, n) \in Seq(Accesses) /\ Len(Suffix(p, n)) = n
  BY DEF Suffix
<1>2. Suffix(p, n) # <<>> /\ Head(Suffix(p, n)) = p[1 + Len(p) - n] /\ Suffix(p, n)[n] = p[Len(p)]
  BY <1>1 DEF Suffix
<1> QED
  BY <1>1, <1>2

\* A sequence of one element has nothing behind it,
LEMMA ShortTail == ASSUME NEW S, NEW s \in Seq(S), Len(s) = 1 PROVE Tail(s) = <<>>
<1>1. s # <<>>
  BY EmptySeq
<1>2. Tail(s) \in Seq(S) /\ Len(Tail(s)) = 0
  BY <1>1, HeadTailProperties
<1> QED
  BY <1>2, EmptySeq

\* and a suffix one element less.
LEMMA SuffixTail ==
    ASSUME NEW p \in Seq(Accesses), NEW n \in 1 .. Len(p)
    PROVE  IF n = 1 THEN Tail(Suffix(p, n)) = <<>> ELSE Tail(Suffix(p, n)) = Suffix(p, n - 1)
<1>1. Suffix(p, n) \in Seq(Accesses) /\ Len(Suffix(p, n)) = n /\ Suffix(p, n) # <<>>
  BY SuffixSeq
<1>2. n = 1 => Tail(Suffix(p, n)) = <<>>
  BY <1>1, ShortTail
<1>3. CASE n > 1
  <2>1. Tail(Suffix(p, n)) \in Seq(Accesses) /\ Len(Tail(Suffix(p, n))) = n - 1
    BY <1>1
  <2>2. Suffix(p, n - 1) \in Seq(Accesses) /\ Len(Suffix(p, n - 1)) = n - 1
    BY <1>3 DEF Suffix
  <2>3. \A i \in 1 .. n - 1 : Tail(Suffix(p, n))[i] = Suffix(p, n - 1)[i]
    BY <1>1, <1>3 DEF Suffix
  <2>4. Tail(Suffix(p, n)) = Suffix(p, n - 1)
    BY <2>1, <2>2, <2>3
  <2> QED
    BY <2>4, <1>3
<1> QED
  BY <1>2, <1>3

\* The whole program is a suffix.
LEMMA WholeSuffix == ASSUME NEW p \in Seq(Accesses) PROVE Suffix(p, Len(p)) = p
  BY DEF Suffix

-----------------------------------------------------------------------------
(* The base invariant is inductive.                                        *)

LEMMA BaseInit == CacheInit => BaseInv
<1> SUFFICES ASSUME CacheInit PROVE BaseInv
  OBVIOUS
<1>1. TypeInv
  <2>1. /\ Returned \in [call : 0 .. 0, seq : Nat, todo : Seq(Accesses)]
        /\ NotReading \in [s1 : Nat, todo : Seq(Accesses), got : Seq(0 .. MaxCalls)]
    BY DEF Returned, NotReading
  <2>2. calls = 0 /\ seq = 0 /\ 0 \in 0 .. MaxCalls
    BY CacheAssumption DEF CacheInit
  <2>6. raced \in BOOLEAN
    BY DEF CacheInit
  <2>3. slot \in [Fields -> 0 .. MaxCalls]
    BY <2>2 DEF CacheInit
  <2>4. writer \in [Writers -> [call : 0 .. calls, seq : Nat, todo : Seq(Accesses)]]
    BY <2>1, <2>2 DEF CacheInit
  <2>5. reader \in [Readers -> [s1 : Nat, todo : Seq(Accesses), got : Seq(0 .. MaxCalls)]]
    BY <2>1 DEF CacheInit
  <2> QED
    BY <2>2, <2>3, <2>4, <2>5, <2>6 DEF TypeInv
<1>2. WriterOK /\ ReaderOK
  BY DEF CacheInit, WriterOK, ReaderOK, Busy, Returned
<1>3. OddIsClosed
  BY DEF CacheInit, OddIsClosed
<1> QED
  BY <1>1, <1>2, <1>3 DEF BaseInv

\* A writer begins an update.
LEMMA StartUpdateBase ==
    ASSUME BaseInv, NEW w \in Writers, NEW program \in Updates, StartUpdate(w, program)
    PROVE  BaseInv'
<1> USE DEF BaseInv
<1>1. program \in Seq(Accesses) /\ Len(program) \in 3 .. 8 /\ (Fast(program) <=> ~Marks(program))
  BY Programs
<1>2. program # <<>> /\ Suffix(program, Len(program)) = program /\ Len(program) \in 1 .. Len(program)
  <2>1. Suffix(program, Len(program)) = program
    BY <1>1, WholeSuffix
  <2> DEFINE n == Len(program)
  <2>2. n \in 3 .. 8
    BY <1>1
  <2> HIDE DEF n
  <2>3. n # 0 /\ n \in 1 .. n
    BY <2>2
  <2>4. program # <<>>
    <3>1. Len(<<>>) = 0
      OBVIOUS
    <3> QED
      BY <2>3, <3>1 DEF n
  <2> QED
    BY <2>1, <2>3, <2>4 DEF n
<1> DEFINE begun == [call |-> calls', seq |-> IF Fast(program) THEN 0 ELSE seq + 1, todo |-> program]
<1>3. /\ writer' = [writer EXCEPT ![w] = begun] /\ calls' = calls + 1 /\ calls' \in 0 .. MaxCalls
      /\ seq' = seq /\ slot' = slot /\ reader' = reader /\ raced' \in BOOLEAN
  BY CacheAssumption DEF StartUpdate, TypeInv
<1>4. begun \in [call : 0 .. calls', seq : Nat, todo : Seq(Accesses)]
  BY <1>1, <1>3 DEF TypeInv
<1>5. writer' \in [Writers -> [call : 0 .. calls', seq : Nat, todo : Seq(Accesses)]]
  <2>1. \A v \in Writers : writer[v] \in [call : 0 .. calls', seq : Nat, todo : Seq(Accesses)]
    BY <1>3 DEF TypeInv
  <2> QED
    BY <2>1, <1>3, <1>4 DEF TypeInv
<1>6. TypeInv'
  BY <1>3, <1>5 DEF TypeInv
<1>7. writer'[w] = begun /\ \A v \in Writers \ {w} : writer'[v] = writer[v]
  BY <1>3 DEF TypeInv
<1>8. WriterOK'
  <2> SUFFICES ASSUME NEW v \in Writers, Busy(v)' PROVE AtWork(v)'
    BY DEF WriterOK
  <2>1. CASE v = w
    <3>1. writer'[w].todo = Suffix(program, Len(program))
      BY <1>2, <1>7
    <3>2. IF Marks(program) THEN writer'[w].seq > 0 ELSE writer'[w].seq = 0
      BY <1>1, <1>7 DEF TypeInv
    <3> QED
      BY <2>1, <3>1, <3>2, <1>2 DEF AtWork
  <2>2. CASE v # w
    <3>1. writer'[v] = writer[v] /\ AtWork(v)
      BY <2>2, <1>7 DEF WriterOK, Busy
    <3> QED
      BY <3>1 DEF AtWork
  <2> QED
    BY <2>1, <2>2
<1>9. ReaderOK'
  BY <1>3 DEF ReaderOK
<1>10. OddIsClosed'
  <2> SUFFICES ASSUME seq % 2 = 1 PROVE \E v \in Writers : Closing(v)'
    BY <1>3 DEF OddIsClosed
  <2>1. PICK v \in Writers : Closing(v)
    BY DEF OddIsClosed
  <2>2. v # w
    BY <2>1 DEF StartUpdate, Closing
  <2> QED
    BY <2>1, <2>2, <1>7 DEF Closing, Busy
<1> QED
  BY <1>6, <1>8, <1>9, <1>10

\* What a store does to its writer, and where in its program it was.
LEMMA StoreAccess ==
    ASSUME BaseInv, NEW w \in Writers, Store(w),
           NEW p \in Updates, NEW n \in 1 .. Len(p), writer[w].todo = Suffix(p, n)
    PROVE  /\ Len(p) \in 3 .. 8
           /\ Marks(p) => Len(p) = 8
           /\ Head(writer[w].todo) = p[1 + Len(p) - n]
           /\ Marks(p) => /\ n = 8 => Head(writer[w].todo) = "odd"
                          /\ n = 1 => Head(writer[w].todo) = "even"
                          /\ n \in 2 .. 7 => Head(writer[w].todo) \in Fields
           /\ ~Marks(p) => Head(writer[w].todo) \in Fields
           /\ Len(writer[w].todo) = n
           /\ n = 1 => writer'[w] = Returned
           /\ n > 1 => writer'[w].todo = Suffix(p, n - 1) /\ writer'[w].seq = writer[w].seq
           /\ writer' \in [Writers -> [call : 0 .. calls, seq : Nat, todo : Seq(Accesses)]]
           /\ \A v \in Writers \ {w} : writer'[v] = writer[v]
<1>1. /\ p \in Seq(Accesses) /\ Len(p) \in 3 .. 8
      /\ Marks(p) => /\ Len(p) = 8 /\ p[1] = "odd" /\ p[8] = "even"
                     /\ \A i \in 2 .. 7 : p[i] \in Fields
      /\ ~Marks(p) => \A i \in 1 .. Len(p) : p[i] \in Fields
  BY Programs
<1>2. Head(writer[w].todo) = p[1 + Len(p) - n] /\ Len(writer[w].todo) = n
  BY <1>1, SuffixSeq
<1>3. Marks(p) => /\ n = 8 => Head(writer[w].todo) = "odd"
                  /\ n = 1 => Head(writer[w].todo) = "even"
                  /\ n \in 2 .. 7 => Head(writer[w].todo) \in Fields
  <2> HAVE Marks(p)
  <2>1. Len(p) = 8 /\ p[1] = "odd" /\ p[8] = "even" /\ \A i \in 2 .. 7 : p[i] \in Fields
    BY <1>1
  <2>2. n \in 1 .. 8 /\ Head(writer[w].todo) = p[9 - n]
    BY <1>2, <2>1
  <2>3. n = 8 => Head(writer[w].todo) = "odd"
    BY <2>1, <2>2
  <2>4. n = 1 => Head(writer[w].todo) = "even"
    BY <2>1, <2>2
  <2>5. n \in 2 .. 7 => Head(writer[w].todo) \in Fields
    BY <2>1, <2>2
  <2> QED
    BY <2>3, <2>4, <2>5
<1>4. ~Marks(p) => Head(writer[w].todo) \in Fields
  <2>1. 1 + Len(p) - n \in 1 .. Len(p)
    BY <1>1
  <2> QED
    BY <2>1, <1>1, <1>2
<1>5. writer' = [writer EXCEPT ![w] = WithoutNext(writer[w])]
  BY DEF Store
<1>6. writer'[w] = IF n = 1 THEN Returned ELSE [writer[w] EXCEPT !.todo = Tail(writer[w].todo)]
  BY <1>2, <1>5 DEF BaseInv, TypeInv, WithoutNext
<1>7. n > 1 => Tail(writer[w].todo) = Suffix(p, n - 1)
  BY <1>1, SuffixTail
<1>8. \A v \in Writers \ {w} : writer'[v] = writer[v]
  BY <1>5 DEF BaseInv, TypeInv
<1>9. n > 1 => writer'[w].todo = Suffix(p, n - 1) /\ writer'[w].seq = writer[w].seq
  <2> HAVE n > 1
  <2>1. writer[w] \in [call : 0 .. calls, seq : Nat, todo : Seq(Accesses)]
    BY DEF BaseInv, TypeInv
  <2>2. writer'[w] = [writer[w] EXCEPT !.todo = Tail(writer[w].todo)]
    BY <1>6
  <2>3. writer'[w].todo = Tail(writer[w].todo) /\ writer'[w].seq = writer[w].seq
    BY <2>1, <2>2
  <2> QED
    BY <2>3, <1>7
<1>12. writer' \in [Writers -> [call : 0 .. calls, seq : Nat, todo : Seq(Accesses)]]
  <2>1. writer[w] \in [call : 0 .. calls, seq : Nat, todo : Seq(Accesses)] /\ calls \in Nat
    BY CacheAssumption DEF BaseInv, TypeInv
  <2>2. Returned \in [call : 0 .. calls, seq : Nat, todo : Seq(Accesses)]
    BY <2>1 DEF Returned
  <2>3. Len(writer[w].todo) # 1 => Tail(writer[w].todo) \in Seq(Accesses)
    <3> HAVE Len(writer[w].todo) # 1
    <3>1. writer[w].todo # <<>> /\ writer[w].todo \in Seq(Accesses)
      BY <2>1 DEF Store, Busy
    <3> QED
      BY <3>1, HeadTailProperties
  <2>4. WithoutNext(writer[w]) \in [call : 0 .. calls, seq : Nat, todo : Seq(Accesses)]
    BY <2>1, <2>2, <2>3 DEF WithoutNext
  <2> QED
    BY <2>4, <1>5 DEF BaseInv, TypeInv
<1>10. n = 1 => writer'[w] = Returned
  BY <1>6
<1>11. Len(p) \in 3 .. 8 /\ (Marks(p) => Len(p) = 8)
  BY <1>1
<1> QED
  BY <1>2, <1>3, <1>4, <1>8, <1>9, <1>10, <1>11, <1>12

\* The marks: whatever number is marked, it becomes even or odd.
LEMMA MarksOf ==
    ASSUME NEW n \in Nat
    PROVE  /\ MarkOdd(n) \in Nat /\ MarkOdd(n) % 2 = 1
           /\ MarkEven(n) \in Nat /\ MarkEven(n) % 2 = 0
           /\ n % 2 = 1 => MarkOdd(n) = n /\ MarkEven(n) = n + 1
           /\ n % 2 \in {0, 1}
           /\ n % 2 = 0 <=> (n + 1) % 2 = 1
  BY DEF MarkOdd, MarkEven

\* It makes one of its stores.
LEMMA StoreBase ==
    ASSUME BaseInv, NEW w \in Writers, Store(w)
    PROVE  BaseInv'
<1> DEFINE access == Head(writer[w].todo)
<1>0. PICK p \in Updates : \E n \in 1 .. Len(p) :
        /\ writer[w].todo = Suffix(p, n)
        /\ IF Marks(p) THEN writer[w].seq > 0 ELSE writer[w].seq = 0
  BY DEF BaseInv, WriterOK, AtWork, Store
<1>1. PICK n \in 1 .. Len(p) :
        /\ writer[w].todo = Suffix(p, n)
        /\ IF Marks(p) THEN writer[w].seq > 0 ELSE writer[w].seq = 0
  BY <1>0
<1>2. /\ Len(p) \in 3 .. 8
      /\ Marks(p) => Len(p) = 8
      /\ Marks(p) => /\ n = 8 => access = "odd"
                     /\ n = 1 => access = "even"
                     /\ n \in 2 .. 7 => access \in Fields
      /\ ~Marks(p) => access \in Fields
      /\ n = 1 => writer'[w] = Returned
      /\ n > 1 => writer'[w].todo = Suffix(p, n - 1) /\ writer'[w].seq = writer[w].seq
      /\ writer' \in [Writers -> [call : 0 .. calls, seq : Nat, todo : Seq(Accesses)]]
      /\ \A v \in Writers \ {w} : writer'[v] = writer[v]
  BY <1>1, StoreAccess
<1>3. /\ seq' = CASE access = "odd" -> MarkOdd(writer[w].seq)
                  [] access = "even" -> MarkEven(writer[w].seq)
                  [] OTHER -> seq
      /\ slot' = IF access \in Fields THEN [slot EXCEPT ![access] = writer[w].call] ELSE slot
      /\ reader' = reader /\ calls' = calls /\ raced' = raced
  BY DEF Store
<1>4. writer[w].seq \in Nat /\ writer[w].call \in 0 .. MaxCalls /\ seq \in Nat
  BY CacheAssumption DEF BaseInv, TypeInv
<1>5. MarkOdd(writer[w].seq) \in Nat /\ MarkEven(writer[w].seq) \in Nat /\ MarkEven(writer[w].seq) % 2 = 0
  BY <1>4, MarksOf
<1> HIDE DEF access
<1>6. TypeInv'
  <2>1. seq' \in Nat
    BY <1>3, <1>4, <1>5
  <2>2. slot' \in [Fields -> 0 .. MaxCalls]
    BY <1>3, <1>4 DEF BaseInv, TypeInv
  <2> QED
    BY <2>1, <2>2, <1>2, <1>3 DEF BaseInv, TypeInv
<1>7. WriterOK'
  <2> SUFFICES ASSUME NEW v \in Writers, Busy(v)' PROVE AtWork(v)'
    BY DEF WriterOK
  <2>1. CASE v = w
    <3>1. n > 1
      BY <2>1, <1>2 DEF Busy, Returned
    <3>2. n - 1 \in 1 .. Len(p)
      BY <3>1, <1>2
    <3>3. writer'[w].todo = Suffix(p, n - 1) /\ writer'[w].seq = writer[w].seq
      BY <3>1, <1>2
    <3> QED
      BY <2>1, <3>2, <3>3, <1>1 DEF AtWork
  <2>2. CASE v # w
    <3>1. writer'[v] = writer[v] /\ AtWork(v)
      BY <2>2, <1>2 DEF BaseInv, WriterOK, Busy
    <3> QED
      BY <3>1 DEF AtWork
  <2> QED
    BY <2>1, <2>2
<1>8. ReaderOK'
  BY <1>3 DEF BaseInv, ReaderOK
<1>9. OddIsClosed'
  <2> SUFFICES ASSUME seq' % 2 = 1 PROVE \E v \in Writers : Closing(v)'
    BY DEF OddIsClosed
  <2>1. CASE Marks(p)
    <3>1. n # 1
      <4>1. SUFFICES ASSUME n = 1 PROVE FALSE
        OBVIOUS
      <4>2. access = "even"
        BY <4>1, <2>1, <1>2
      <4>3. seq' = MarkEven(writer[w].seq)
        BY <4>2, <1>3
      <4> QED
        BY <4>3, <1>5
    <3>7. Len(p) = 8 /\ n > 1
      BY <3>1, <2>1, <1>2
    <3>2. writer'[w].todo = Suffix(p, n - 1) /\ n - 1 \in 1 .. Len(p) /\ n - 1 \in 1 .. 7
      BY <3>7, <1>2
    <3>3. p \in Seq(Accesses) /\ Len(p) = 8 /\ p[8] = "even"
      BY <2>1, Programs
    <3>4. /\ Suffix(p, n - 1) # <<>> /\ Len(Suffix(p, n - 1)) = n - 1
          /\ Suffix(p, n - 1)[n - 1] = p[Len(p)]
      BY <3>2, <3>3, SuffixSeq
    <3>5. Suffix(p, n - 1)[n - 1] = "even"
      BY <3>3, <3>4
    <3>6. writer'[w].todo # <<>> /\ writer'[w].todo[Len(writer'[w].todo)] = "even"
      BY <3>2, <3>4, <3>5
    <3> QED
      BY <3>6 DEF Closing, Busy
  <2>2. CASE ~Marks(p)
    <3>1. access \in Fields /\ access # "odd" /\ access # "even"
      BY <2>2, <1>2, FieldNames
    <3>2. seq' = seq
      BY <3>1, <1>3
    <3>3. PICK v \in Writers : Closing(v)
      BY <3>2 DEF BaseInv, OddIsClosed
    <3>4. p \in Seq(Accesses) /\ p[Len(p)] \in Fields
      BY <2>2, Programs
    <3>5. ~Closing(w)
      <4>1. Len(Suffix(p, n)) = n /\ Suffix(p, n)[n] = p[Len(p)]
        BY <3>4, SuffixSeq
      <4>2. Suffix(p, n)[Len(Suffix(p, n))] \in Fields
        BY <4>1, <3>4
      <4> QED
        BY <4>2, <1>1, FieldNames DEF Closing
    <3>6. writer'[v] = writer[v]
      <4>1. v # w
        BY <3>3, <3>5
      <4> QED
        BY <4>1, <1>2
    <3> QED
      BY <3>3, <3>6 DEF Closing, Busy
  <2> QED
    BY <2>1, <2>2
<1> QED
  BY <1>6, <1>7, <1>8, <1>9 DEF BaseInv

\* What a reader has left to load.
LEMMA ReadSuffix ==
    ASSUME NEW n \in 1 .. 9
    PROVE  /\ Suffix(read_snapshot, n) \in Seq(Accesses)
           /\ Len(Suffix(read_snapshot, n)) = n
           /\ Head(Suffix(read_snapshot, n)) = read_snapshot[10 - n]
           /\ n = 1 => Tail(Suffix(read_snapshot, n)) = <<>>
           /\ n > 1 => Tail(Suffix(read_snapshot, n)) = Suffix(read_snapshot, n - 1)
           /\ Suffix(read_snapshot, 9) = read_snapshot
<1>1. read_snapshot \in Seq(Accesses) /\ Len(read_snapshot) = 9
  BY Reads
<1>2. n \in 1 .. Len(read_snapshot) /\ 1 + Len(read_snapshot) - n = 10 - n
  BY <1>1
<1>3. /\ Suffix(read_snapshot, n) \in Seq(Accesses) /\ Len(Suffix(read_snapshot, n)) = n
      /\ Head(Suffix(read_snapshot, n)) = read_snapshot[1 + Len(read_snapshot) - n]
  BY <1>1, <1>2, SuffixSeq, Zenon
<1>4. IF n = 1 THEN Tail(Suffix(read_snapshot, n)) = <<>>
      ELSE Tail(Suffix(read_snapshot, n)) = Suffix(read_snapshot, n - 1)
  BY <1>1, <1>2, SuffixTail, Zenon
<1>5. Suffix(read_snapshot, Len(read_snapshot)) = read_snapshot
  BY <1>1, WholeSuffix, Zenon
<1>6. Suffix(read_snapshot, 9) = read_snapshot
  BY <1>1, <1>5
<1> QED
  BY <1>2, <1>3, <1>4, <1>6

\* A reader begins a read,
LEMMA StartReadBase ==
    ASSUME BaseInv, NEW r \in Readers, StartRead(r)
    PROVE  BaseInv'
<1>1. /\ reader' = [reader EXCEPT ![r].todo = read_snapshot]
      /\ slot' = slot /\ seq' = seq /\ writer' = writer /\ calls' = calls /\ raced' \in BOOLEAN
  BY DEF StartRead, BaseInv, TypeInv
<1>2. read_snapshot \in Seq(Accesses) /\ Len(read_snapshot) = 9
  BY Reads
<1>3. reader[r] \in [s1 : Nat, todo : Seq(Accesses), got : Seq(0 .. MaxCalls)]
  BY DEF BaseInv, TypeInv
<1>4. /\ reader'[r] = [reader[r] EXCEPT !.todo = read_snapshot]
      /\ \A q \in Readers \ {r} : reader'[q] = reader[q]
      /\ reader' \in [Readers -> [s1 : Nat, todo : Seq(Accesses), got : Seq(0 .. MaxCalls)]]
  BY <1>1, <1>2, <1>3 DEF BaseInv, TypeInv
<1>5. TypeInv'
  BY <1>1, <1>4 DEF BaseInv, TypeInv
<1>6. reader[r] = NotReading
  <2>1. ASSUME NEW n \in 1 .. Len(read_snapshot), reader[r].todo = Suffix(read_snapshot, n) PROVE FALSE
    BY <2>1, <1>2, SuffixSeq DEF StartRead, Reading
  <2> QED
    BY <2>1 DEF BaseInv, ReaderOK
<1>7. ReaderOK'
  <2> SUFFICES ASSUME NEW q \in Readers
               PROVE  \/ reader'[q] = NotReading
                      \/ \E n \in 1 .. Len(read_snapshot) :
                           /\ reader'[q].todo = Suffix(read_snapshot, n)
                           /\ n >= 8 => reader'[q].got = <<>>
    BY DEF ReaderOK
  <2>1. CASE q = r
    <3>1. reader'[r].todo = Suffix(read_snapshot, 9)
      <4>1. Suffix(read_snapshot, 9) = read_snapshot
        BY ReadSuffix
      <4> QED
        BY <4>1, <1>3, <1>4
    <3>2. reader'[r].got = <<>>
      <4>1. reader[r].got = <<>>
        BY <1>6 DEF NotReading
      <4> QED
        BY <4>1, <1>3, <1>4
    <3> QED
      BY <2>1, <3>1, <3>2, <1>2
  <2>2. CASE q # r
    BY <2>2, <1>4 DEF BaseInv, ReaderOK
  <2> QED
    BY <2>1, <2>2
<1>8. WriterOK' /\ OddIsClosed'
  BY <1>1 DEF BaseInv, WriterOK, AtWork, Busy, OddIsClosed, Closing
<1> QED
  BY <1>5, <1>7, <1>8 DEF BaseInv

\* What a load does to its reader, and where in read_snapshot it was.
LEMMA LoadAccess ==
    ASSUME BaseInv, NEW r \in Readers, Load(r)
    PROVE  \E n \in 1 .. 9 :
             /\ reader[r].todo = Suffix(read_snapshot, n)
             /\ Len(reader[r].todo) = n
             /\ n >= 8 => reader[r].got = <<>>
             /\ n = 9 => /\ reader'[r].todo = Suffix(read_snapshot, 8)
                         /\ reader'[r].s1 = seq /\ reader'[r].got = reader[r].got
             /\ n = 1 => IF Valid(reader[r].s1, seq) THEN reader'[r] = NotReading
                         ELSE reader'[r].todo = Suffix(read_snapshot, 9) /\ reader'[r].got = <<>>
             /\ n \in 2 .. 8 =>
                  /\ reader'[r].todo = Suffix(read_snapshot, n - 1) /\ reader'[r].s1 = reader[r].s1
                  /\ read_snapshot[10 - n] \in Fields
                  /\ reader'[r].got = IF raced THEN reader[r].got
                                      ELSE Append(reader[r].got, slot[read_snapshot[10 - n]])
             /\ reader'[r] \in [s1 : Nat, todo : Seq(Accesses), got : Seq(0 .. MaxCalls)]
             /\ \A q \in Readers \ {r} : reader'[q] = reader[q]
<1> DEFINE access == Head(reader[r].todo)
           ReaderState == [s1 : Nat, todo : Seq(Accesses), got : Seq(0 .. MaxCalls)]
<1>1. /\ read_snapshot \in Seq(Accesses) /\ Len(read_snapshot) = 9
      /\ read_snapshot[1] = "s1" /\ read_snapshot[9] = "s2"
      /\ \A i \in 2 .. 8 : read_snapshot[i] \in Fields
  BY Reads
<1>2. PICK n \in 1 .. 9 : reader[r].todo = Suffix(read_snapshot, n) /\ (n >= 8 => reader[r].got = <<>>)
  <2>1. reader[r] # NotReading
    BY DEF Load, Reading, NotReading
  <2> QED
    BY <2>1, <1>1 DEF BaseInv, ReaderOK
<1>3. Len(reader[r].todo) = n /\ access = read_snapshot[10 - n]
  BY <1>2, ReadSuffix
<1>4. n > 1 => Tail(reader[r].todo) = Suffix(read_snapshot, n - 1)
  BY <1>2, ReadSuffix
<1>5. reader \in [Readers -> ReaderState] /\ seq \in Nat /\ slot \in [Fields -> 0 .. MaxCalls]
  BY DEF BaseInv, TypeInv
<1>6. reader' = CASE access = "s1" -> [reader EXCEPT ![r].todo = Tail(@), ![r].s1 = seq]
                  [] access = "s2" -> [reader EXCEPT ![r] = IF Valid(@.s1, seq) THEN NotReading
                                                            ELSE [NotReading EXCEPT !.todo = read_snapshot]]
                  [] OTHER -> [reader EXCEPT ![r].todo = Tail(@),
                                             ![r].got = IF raced THEN @ ELSE Append(@, slot[access])]
  BY DEF Load
<1> HIDE DEF access
<1>7. CASE n = 9
  <2>1. access = "s1"
    BY <1>1, <1>3, <1>7
  <2>2. reader' = [reader EXCEPT ![r].todo = Tail(@), ![r].s1 = seq]
    BY <2>1, <1>6
  <2>3. Tail(reader[r].todo) = Suffix(read_snapshot, 8) /\ Suffix(read_snapshot, 8) \in Seq(Accesses)
    <3>1. Tail(reader[r].todo) = Suffix(read_snapshot, 9 - 1)
      BY <1>4, <1>7
    <3>2. 9 - 1 = 8 /\ 8 \in 1 .. 9
      OBVIOUS
    <3> QED
      BY <3>1, <3>2, ReadSuffix
  <2>4. /\ reader'[r].todo = Suffix(read_snapshot, 8) /\ reader'[r].s1 = seq
        /\ reader'[r].got = reader[r].got /\ reader'[r] \in ReaderState
        /\ \A q \in Readers \ {r} : reader'[q] = reader[q]
    BY <2>2, <2>3, <1>5
  <2> QED
    BY <2>4, <1>2, <1>3, <1>7
<1>8. CASE n = 1
  <2>1. access = "s2"
    BY <1>1, <1>3, <1>8
  <2>2. reader' = [reader EXCEPT ![r] = IF Valid(reader[r].s1, seq) THEN NotReading
                                        ELSE [NotReading EXCEPT !.todo = read_snapshot]]
    BY <2>1, <1>6
  <2>3. reader'[r] = IF Valid(reader[r].s1, seq) THEN NotReading ELSE [NotReading EXCEPT !.todo = read_snapshot]
    BY <2>2, <1>5
  <2>4. NotReading \in ReaderState /\ [NotReading EXCEPT !.todo = read_snapshot] \in ReaderState
    <3>1. NotReading \in ReaderState
      BY DEF NotReading
    <3> QED
      BY <3>1, <1>1
  <2>5. [NotReading EXCEPT !.todo = read_snapshot].todo = read_snapshot /\ [NotReading EXCEPT !.todo = read_snapshot].got = <<>>
    BY DEF NotReading
  <2>6. Suffix(read_snapshot, 9) = read_snapshot
    BY ReadSuffix
  <2>7. \A q \in Readers \ {r} : reader'[q] = reader[q]
    BY <2>2, <1>5
  <2>8. reader'[r] \in ReaderState
    BY <2>3, <2>4
  <2>9. IF Valid(reader[r].s1, seq) THEN reader'[r] = NotReading
        ELSE reader'[r].todo = Suffix(read_snapshot, 9) /\ reader'[r].got = <<>>
    BY <2>3, <2>5, <2>6
  <2> QED
    BY <2>7, <2>8, <2>9, <1>2, <1>3, <1>8
<1>9. CASE n \in 2 .. 8
  <2>1. access \in Fields /\ read_snapshot[10 - n] \in Fields /\ access # "s1" /\ access # "s2"
    BY <1>1, <1>3, <1>9, FieldNames
  <2>2. reader' = [reader EXCEPT ![r].todo = Tail(@), ![r].got = IF raced THEN @ ELSE Append(@, slot[access])]
    BY <2>1, <1>6
  <2>3. Tail(reader[r].todo) = Suffix(read_snapshot, n - 1) /\ Suffix(read_snapshot, n - 1) \in Seq(Accesses)
    <3>1. n - 1 \in 1 .. 9 /\ n > 1
      BY <1>9
    <3> QED
      BY <3>1, <1>4, ReadSuffix
  <2>4. slot[access] \in 0 .. MaxCalls /\ Append(reader[r].got, slot[access]) \in Seq(0 .. MaxCalls)
    BY <2>1, <1>5
  <2>5. /\ reader'[r].todo = Suffix(read_snapshot, n - 1) /\ reader'[r].s1 = reader[r].s1
        /\ reader'[r].got = IF raced THEN reader[r].got ELSE Append(reader[r].got, slot[access])
        /\ \A q \in Readers \ {r} : reader'[q] = reader[q]
    BY <2>2, <2>3, <1>5
  <2>6. reader'[r] \in ReaderState
    BY <2>2, <2>3, <2>4, <1>5
  <2> QED
    BY <2>1, <2>5, <2>6, <1>2, <1>3, <1>9
<1> QED
  BY <1>7, <1>8, <1>9

\* and loads one word.
LEMMA LoadBase ==
    ASSUME BaseInv, NEW r \in Readers, Load(r)
    PROVE  BaseInv'
<1>1. /\ \A q \in Readers \ {r} : reader'[q] = reader[q]
      /\ reader'[r] \in [s1 : Nat, todo : Seq(Accesses), got : Seq(0 .. MaxCalls)]
  BY LoadAccess
<1>2. slot' = slot /\ seq' = seq /\ writer' = writer /\ calls' = calls /\ raced' = raced
  BY DEF Load
<1>3. reader' \in [Readers -> [s1 : Nat, todo : Seq(Accesses), got : Seq(0 .. MaxCalls)]]
  <2>1. \E f : reader' = [reader EXCEPT ![r] = f]
    BY Zenon DEF Load
  <2>2. reader' = [reader EXCEPT ![r] = reader'[r]]
    BY <2>1 DEF BaseInv, TypeInv
  <2> QED
    BY <2>2, <1>1 DEF BaseInv, TypeInv
<1>4. TypeInv'
  BY <1>2, <1>3 DEF BaseInv, TypeInv
<1>5. PICK n \in 1 .. 9 :
        /\ n >= 8 => reader[r].got = <<>>
        /\ n = 9 => reader'[r].todo = Suffix(read_snapshot, 8) /\ reader'[r].got = reader[r].got
        /\ n = 1 => IF Valid(reader[r].s1, seq) THEN reader'[r] = NotReading
                    ELSE reader'[r].todo = Suffix(read_snapshot, 9) /\ reader'[r].got = <<>>
        /\ n \in 2 .. 8 => reader'[r].todo = Suffix(read_snapshot, n - 1)
  BY LoadAccess
<1>6. ReaderOK'
  <2> SUFFICES ASSUME NEW q \in Readers
               PROVE  \/ reader'[q] = NotReading
                      \/ \E k \in 1 .. Len(read_snapshot) :
                           /\ reader'[q].todo = Suffix(read_snapshot, k)
                           /\ k >= 8 => reader'[q].got = <<>>
    BY DEF ReaderOK
  <2>1. Len(read_snapshot) = 9
    BY Reads
  <2>2. CASE q # r
    BY <2>2, <1>1 DEF BaseInv, ReaderOK
  <2>3. CASE q = r /\ n = 9
    BY <2>1, <2>3, <1>5
  <2>4. CASE q = r /\ n = 1
    BY <2>1, <2>4, <1>5
  <2>5. CASE q = r /\ n \in 2 .. 8
    <3>1. n - 1 \in 1 .. 9 /\ ~(n - 1 >= 8)
      BY <2>5
    <3> QED
      BY <3>1, <2>1, <2>5, <1>5
  <2> QED
    BY <2>2, <2>3, <2>4, <2>5
<1>7. WriterOK' /\ OddIsClosed'
  BY <1>2 DEF BaseInv, WriterOK, AtWork, Busy, OddIsClosed, Closing
<1> QED
  BY <1>4, <1>6, <1>7 DEF BaseInv

LEMMA BaseStutter == BaseInv /\ UNCHANGED cvars => BaseInv'
  BY DEF BaseInv, TypeInv, WriterOK, ReaderOK, OddIsClosed, AtWork, Busy, Closing, cvars

\* Every step of the cache keeps the invariant.
LEMMA BaseStep == BaseInv /\ [CacheNext]_cvars => BaseInv'
<1> SUFFICES ASSUME BaseInv, [CacheNext]_cvars PROVE BaseInv'
  OBVIOUS
<1>1. ASSUME NEW w \in Writers, NEW program \in Updates, StartUpdate(w, program) PROVE BaseInv'
  BY <1>1, StartUpdateBase
<1>2. ASSUME NEW w \in Writers, Store(w) PROVE BaseInv'
  BY <1>2, StoreBase
<1>3. ASSUME NEW r \in Readers, StartRead(r) PROVE BaseInv'
  BY <1>3, StartReadBase
<1>4. ASSUME NEW r \in Readers, Load(r) PROVE BaseInv'
  BY <1>4, LoadBase
<1>5. CASE UNCHANGED cvars
  BY <1>5, BaseStutter
<1> QED
  BY <1>1, <1>2, <1>3, <1>4, <1>5 DEF CacheNext

\* Every variable of the slot, its writers and its readers keeps its type.
THEOREM CacheTypeCorrect == CacheSpec => []CacheTypeOK
<1>1. BaseInv => CacheTypeOK
  BY DEF BaseInv, TypeInv, CacheTypeOK
<1> QED
  BY <1>1, BaseInit, BaseStep, PTL DEF CacheSpec

\* When no update is going on the sequence number is even, so that a reader of a
\* slot that rests always gets its snapshot: whatever two writers of
\* update_orderbook_with_seq did to each other's marks.
THEOREM RestIsEven == CacheSpec => []EvenAtRest
<1>1. BaseInv => EvenAtRest
  <2> SUFFICES ASSUME BaseInv, \A w \in Writers : ~Busy(w) PROVE seq % 2 = 0
    BY DEF EvenAtRest
  <2>1. seq \in Nat /\ seq % 2 # 1
    BY DEF BaseInv, TypeInv, OddIsClosed, Closing
  <2> QED
    BY <2>1, MarksOf
<1> QED
  BY <1>1, BaseInit, BaseStep, PTL DEF CacheSpec

-----------------------------------------------------------------------------
(* A snapshot that is returned is whole.  While no two calls have          *)
(* overlapped, one update is going on at most; between its marks the       *)
(* number is odd, and it is greater than every reader's first load after.  *)

NoTwoBusy == \A v, w \in Writers : Busy(v) /\ Busy(w) => v = w

\* Where the sequence number is, by what is left of the one update.
Phase(w) ==
    /\ writer[w].seq = 0 => seq % 2 = 0 /\ \A r \in Readers : ~Reading(r)
    /\ writer[w].seq > 0 => IF Len(writer[w].todo) = 8 THEN seq % 2 = 0 /\ writer[w].seq = seq + 1
                            ELSE seq % 2 = 1 /\ writer[w].seq = seq

\* The first k fields that a reader loads, as they are in the slot.
Shown(r, k) ==
    /\ Len(reader[r].got) = k
    /\ \A i \in 1 .. k : reader[r].got[i] = slot[read_snapshot[i + 1]]

\* As long as the number is the one a reader began with, what it has is current.
ReadClean(r) ==
    Reading(r) /\ Len(reader[r].todo) <= 8 =>
      /\ reader[r].s1 <= seq
      /\ reader[r].s1 = seq /\ seq % 2 = 0 => Shown(r, 8 - Len(reader[r].todo))

Quiet ==
    /\ NoTwoBusy
    /\ \A w \in Writers : Busy(w) => Phase(w)
    /\ \A r \in Readers : ReadClean(r)

QuietInv == raced \/ Quiet

\* Nobody is at work at the start.
LEMMA QuietInit == CacheInit => QuietInv
  BY DEF CacheInit, QuietInv, Quiet, NoTwoBusy, Phase, ReadClean, Busy, Reading, Returned, NotReading

\* A writer begins while no other is at work.
LEMMA StartUpdateQuiet ==
    ASSUME BaseInv, QuietInv, NEW w \in Writers, NEW program \in Updates, StartUpdate(w, program)
    PROVE  QuietInv'
<1> SUFFICES ASSUME ~raced' PROVE Quiet'
  BY DEF QuietInv
<1> DEFINE begun == [call |-> calls', seq |-> IF Fast(program) THEN 0 ELSE seq + 1, todo |-> program]
<1>1. /\ Quiet /\ \A v \in Writers : ~Busy(v)
      /\ Fast(program) => \A r \in Readers : ~Reading(r)
  BY DEF StartUpdate, QuietInv
<1>2. /\ writer' = [writer EXCEPT ![w] = begun]
      /\ seq' = seq /\ slot' = slot /\ reader' = reader
  BY DEF StartUpdate
<1>3. writer'[w] = begun /\ \A v \in Writers \ {w} : writer'[v] = writer[v]
  BY <1>2 DEF BaseInv, TypeInv
<1>4. \A v \in Writers \ {w} : ~Busy(v)'
  BY <1>1, <1>3 DEF Busy
<1>5. NoTwoBusy'
  BY <1>4 DEF NoTwoBusy
<1>6. seq \in Nat /\ seq % 2 = 0
  <2>1. seq \in Nat /\ seq % 2 # 1
    BY <1>1 DEF BaseInv, TypeInv, OddIsClosed, Closing
  <2> QED
    BY <2>1, MarksOf
<1>7. ASSUME NEW v \in Writers, Busy(v)' PROVE Phase(v)'
  <2>1. v = w
    BY <1>4, <1>7
  <2>2. CASE Fast(program)
    <3>1. writer'[w].seq = 0
      BY <1>3, <2>2
    <3> QED
      BY <2>1, <2>2, <3>1, <1>1, <1>2, <1>6 DEF Phase, Reading
  <2>3. CASE ~Fast(program)
    <3>1. writer'[w].seq = seq + 1 /\ writer'[w].todo = program
      BY <1>3, <2>3
    <3>2. Len(program) = 8
      BY <2>3, Programs
    <3> QED
      BY <2>1, <3>1, <3>2, <1>2, <1>6 DEF Phase
  <2> QED
    BY <2>2, <2>3
<1>8. \A r \in Readers : ReadClean(r)'
  BY <1>1, <1>2 DEF Quiet, ReadClean, Reading, Shown
<1> QED
  BY <1>5, <1>7, <1>8 DEF Quiet

\* A reader begins.
LEMMA StartReadQuiet ==
    ASSUME BaseInv, QuietInv, NEW r \in Readers, StartRead(r)
    PROVE  QuietInv'
<1> SUFFICES ASSUME ~raced' PROVE Quiet'
  BY DEF QuietInv
<1>1. Quiet /\ \A w \in Writers : Busy(w) => writer[w].seq # 0
  BY DEF StartRead, QuietInv
<1>2. /\ reader' = [reader EXCEPT ![r].todo = read_snapshot]
      /\ slot' = slot /\ seq' = seq /\ writer' = writer
  BY DEF StartRead
<1>3. /\ reader'[r] = [reader[r] EXCEPT !.todo = read_snapshot]
      /\ reader[r] \in [s1 : Nat, todo : Seq(Accesses), got : Seq(0 .. MaxCalls)]
      /\ \A q \in Readers \ {r} : reader'[q] = reader[q]
  BY <1>2 DEF BaseInv, TypeInv
<1>4. NoTwoBusy'
  BY <1>1, <1>2 DEF Quiet, NoTwoBusy, Busy
<1>5. ASSUME NEW w \in Writers, Busy(w)' PROVE Phase(w)'
  BY <1>1, <1>2, <1>5 DEF Quiet, Phase, Busy
<1>6. ReadClean(r)'
  <2>1. Len(reader'[r].todo) = 9
    BY <1>3, Reads
  <2> QED
    BY <2>1 DEF ReadClean
<1>7. ASSUME NEW q \in Readers \ {r} PROVE ReadClean(q)'
  <2>1. reader'[q] = reader[q] /\ seq' = seq /\ slot' = slot
    BY <1>2, <1>3
  <2>2. ReadClean(q)
    BY <1>1 DEF Quiet
  <2> QED
    BY <2>1, <2>2 DEF ReadClean, Reading, Shown
<1> QED
  BY <1>4, <1>5, <1>6, <1>7 DEF Quiet

\* A store of a writer changes what readers may take.
LEMMA StoreQuiet ==
    ASSUME BaseInv, QuietInv, NEW w \in Writers, Store(w)
    PROVE  QuietInv'
<1> DEFINE access == Head(writer[w].todo)
<1>1. raced' = raced /\ reader' = reader /\ Busy(w)
  BY DEF Store
<1> SUFFICES ASSUME ~raced, Quiet PROVE Quiet'
  BY <1>1 DEF QuietInv
<1>2. PICK p \in Updates : \E n \in 1 .. Len(p) :
        /\ writer[w].todo = Suffix(p, n)
        /\ IF Marks(p) THEN writer[w].seq > 0 ELSE writer[w].seq = 0
  BY <1>1 DEF BaseInv, WriterOK, AtWork
<1>3. PICK n \in 1 .. Len(p) :
        /\ writer[w].todo = Suffix(p, n)
        /\ IF Marks(p) THEN writer[w].seq > 0 ELSE writer[w].seq = 0
  BY <1>2
<1>4. /\ Len(p) \in 3 .. 8 /\ (Marks(p) => Len(p) = 8)
      /\ Marks(p) => /\ n = 8 => access = "odd"
                     /\ n = 1 => access = "even"
                     /\ n \in 2 .. 7 => access \in Fields
      /\ ~Marks(p) => access \in Fields
      /\ Len(writer[w].todo) = n
      /\ n = 1 => writer'[w] = Returned
      /\ n > 1 => writer'[w].todo = Suffix(p, n - 1) /\ writer'[w].seq = writer[w].seq
      /\ \A v \in Writers \ {w} : writer'[v] = writer[v]
  BY <1>3, StoreAccess
<1>5. /\ seq' = CASE access = "odd" -> MarkOdd(writer[w].seq)
                  [] access = "even" -> MarkEven(writer[w].seq)
                  [] OTHER -> seq
      /\ slot' = IF access \in Fields THEN [slot EXCEPT ![access] = writer[w].call] ELSE slot
  BY DEF Store
<1> HIDE DEF access
<1>6. /\ seq \in Nat /\ writer[w].seq \in Nat
      /\ \A r \in Readers : reader[r].s1 \in Nat
  BY DEF BaseInv, TypeInv
<1>7. Phase(w) /\ \A v \in Writers \ {w} : ~Busy(v)
  BY <1>1 DEF Quiet, NoTwoBusy
<1>8. \A v \in Writers \ {w} : ~Busy(v)'
  BY <1>4, <1>7 DEF Busy
<1>9. NoTwoBusy'
  BY <1>8 DEF NoTwoBusy
<1>10. n > 1 => Len(writer'[w].todo) = n - 1
  <2> HAVE n > 1
  <2>1. p \in Seq(Accesses) /\ n - 1 \in 1 .. Len(p)
    BY <1>4, Programs
  <2>2. Len(Suffix(p, n - 1)) = n - 1
    BY <2>1, SuffixSeq
  <2> QED
    BY <2>2, <1>4
<1>11. n = 1 => ~Busy(w)'
  BY <1>4 DEF Busy, Returned
\* An update that leaves the number alone: nobody reads.
<1>12. CASE ~Marks(p)
  <2>1. writer[w].seq = 0 /\ seq % 2 = 0 /\ \A r \in Readers : ~Reading(r)
    BY <1>3, <1>7, <1>12 DEF Phase
  <2>2. access # "odd" /\ access # "even"
    BY <1>4, <1>12, FieldNames
  <2>3. seq' = seq
    BY <1>5, <2>2
  <2>4. \A r \in Readers : ~Reading(r)'
    BY <1>1, <2>1 DEF Reading
  <2>5. \A r \in Readers : ReadClean(r)'
    BY <2>4 DEF ReadClean
  <2>6. Busy(w)' => Phase(w)'
    <3> HAVE Busy(w)'
    <3>1. writer'[w].seq = 0
      BY <1>4, <1>11, <2>1
    <3> QED
      BY <3>1, <2>1, <2>3, <2>4 DEF Phase
  <2> QED
    BY <1>8, <1>9, <2>5, <2>6 DEF Quiet
\* The number becomes odd: greater than what any reader began with.
<1>13. CASE Marks(p) /\ n = 8
  <2>1. writer[w].seq > 0 /\ seq % 2 = 0 /\ writer[w].seq = seq + 1
    BY <1>3, <1>4, <1>7, <1>13 DEF Phase
  <2>2. access = "odd"
    BY <1>4, <1>13
  <2>3. seq' = MarkOdd(seq + 1)
    BY <1>5, <2>1, <2>2
  <2>4. seq' = seq + 1 /\ seq' % 2 = 1
    <3>1. seq + 1 \in Nat /\ (seq + 1) % 2 = 1
      BY <1>6, <2>1, MarksOf
    <3> QED
      BY <2>3, <3>1, MarksOf
  <2>5. Phase(w)'
    <3>1. writer'[w].seq = seq' /\ Len(writer'[w].todo) = 7
      BY <1>4, <1>10, <1>13, <2>1, <2>4
    <3>2. writer'[w].seq # 0
      BY <3>1, <2>4, <1>6
    <3> QED
      BY <3>1, <3>2, <2>4 DEF Phase
  <2>6. ASSUME NEW r \in Readers PROVE ReadClean(r)'
    <3>1. ReadClean(r) /\ reader'[r] = reader[r]
      BY <1>1 DEF Quiet
    <3>2. ~(seq' % 2 = 0)
      BY <2>4
    <3>3. reader[r].s1 <= seq => reader[r].s1 <= seq'
      BY <1>6, <2>4
    <3> QED
      BY <3>1, <3>2, <3>3 DEF ReadClean, Reading
  <2> QED
    BY <1>8, <1>9, <2>5, <2>6 DEF Quiet
\* A field is stored while the number is odd.
<1>14. CASE Marks(p) /\ n \in 2 .. 7
  <2>1. writer[w].seq > 0 /\ seq % 2 = 1 /\ writer[w].seq = seq
    BY <1>3, <1>4, <1>7, <1>14 DEF Phase
  <2>2. access \in Fields /\ access # "odd" /\ access # "even"
    BY <1>4, <1>14, FieldNames
  <2>3. seq' = seq
    BY <1>5, <2>2
  <2>4. Phase(w)'
    <3>1. writer'[w].seq = seq /\ Len(writer'[w].todo) # 8
      BY <1>4, <1>10, <1>14, <2>1
    <3> QED
      BY <3>1, <2>1, <2>3 DEF Phase
  <2>5. ASSUME NEW r \in Readers PROVE ReadClean(r)'
    <3>1. ReadClean(r) /\ reader'[r] = reader[r]
      BY <1>1 DEF Quiet
    <3>2. ~(seq' % 2 = 0)
      BY <2>1, <2>3
    <3> QED
      BY <3>1, <3>2, <2>3 DEF ReadClean, Reading
  <2> QED
    BY <1>8, <1>9, <2>4, <2>5 DEF Quiet
\* The number becomes even, and greater again.
<1>15. CASE Marks(p) /\ n = 1
  <2>1. writer[w].seq > 0 /\ seq % 2 = 1 /\ writer[w].seq = seq
    BY <1>3, <1>4, <1>7, <1>15 DEF Phase
  <2>2. access = "even"
    BY <1>4, <1>15
  <2>3. seq' = MarkEven(seq)
    BY <1>5, <2>1, <2>2, FieldNames
  <2>4. seq' = seq + 1
    BY <1>6, <2>1, <2>3, MarksOf
  <2>5. ASSUME NEW r \in Readers PROVE ReadClean(r)'
    <3>1. ReadClean(r) /\ reader'[r] = reader[r]
      BY <1>1 DEF Quiet
    <3>2. reader[r].s1 <= seq => reader[r].s1 <= seq' /\ reader[r].s1 # seq'
      BY <1>6, <2>4
    <3> QED
      BY <3>1, <3>2 DEF ReadClean, Reading
  <2> QED
    BY <1>8, <1>9, <1>11, <1>15, <2>5 DEF Quiet
<1>16. Marks(p) => n = 8 \/ n \in 2 .. 7 \/ n = 1
  <2> HAVE Marks(p)
  <2>1. Len(p) = 8
    BY <1>4
  <2> QED
    BY <2>1
<1> QED
  BY <1>12, <1>13, <1>14, <1>15, <1>16

\* A reader loads a word, or returns what it has.
LEMMA LoadQuiet ==
    ASSUME BaseInv, QuietInv, NEW r \in Readers, Load(r)
    PROVE  QuietInv'
<1>1. raced' = raced /\ slot' = slot /\ seq' = seq /\ writer' = writer /\ Reading(r)
  BY DEF Load
<1> SUFFICES ASSUME ~raced, Quiet PROVE Quiet'
  BY <1>1 DEF QuietInv
<1>2. PICK n \in 1 .. 9 :
        /\ Len(reader[r].todo) = n
        /\ n >= 8 => reader[r].got = <<>>
        /\ n = 9 => /\ reader'[r].todo = Suffix(read_snapshot, 8)
                    /\ reader'[r].s1 = seq /\ reader'[r].got = reader[r].got
        /\ n = 1 => IF Valid(reader[r].s1, seq) THEN reader'[r] = NotReading
                    ELSE reader'[r].todo = Suffix(read_snapshot, 9) /\ reader'[r].got = <<>>
        /\ n \in 2 .. 8 =>
             /\ reader'[r].todo = Suffix(read_snapshot, n - 1) /\ reader'[r].s1 = reader[r].s1
             /\ read_snapshot[10 - n] \in Fields
             /\ reader'[r].got = Append(reader[r].got, slot[read_snapshot[10 - n]])
        /\ \A q \in Readers \ {r} : reader'[q] = reader[q]
  BY LoadAccess
<1>3. NoTwoBusy'
  BY <1>1 DEF Quiet, NoTwoBusy, Busy
<1>4. ASSUME NEW w \in Writers, Busy(w)' PROVE Phase(w)'
  <2>1. Busy(w) /\ Phase(w) /\ writer'[w] = writer[w]
    BY <1>1, <1>4 DEF Quiet, Busy
  <2>2. writer[w].seq # 0
    BY <2>1, <1>1 DEF Phase
  <2> QED
    BY <2>1, <2>2, <1>1 DEF Phase
<1>5. ASSUME NEW q \in Readers \ {r} PROVE ReadClean(q)'
  <2>1. reader'[q] = reader[q] /\ seq' = seq /\ slot' = slot
    BY <1>1, <1>2
  <2>2. ReadClean(q)
    BY DEF Quiet
  <2> QED
    BY <2>1, <2>2 DEF ReadClean, Reading, Shown
<1>6. ReadClean(r)'
  <2>1. CASE n = 9
    <3>4. 8 \in 1 .. 9 /\ 9 >= 8
      OBVIOUS
    <3>5. Len(Suffix(read_snapshot, 8)) = 8
      BY <3>4, ReadSuffix
    <3>1. Len(reader'[r].todo) = 8 /\ reader'[r].s1 = seq /\ reader'[r].got = <<>>
      BY <1>2, <2>1, <3>4, <3>5
    <3>2. Shown(r, 8 - 8)'
      BY <3>1 DEF Shown
    <3>3. seq \in Nat /\ reader'[r].s1 <= seq'
      BY <1>1, <3>1 DEF BaseInv, TypeInv
    <3> QED
      BY <3>1, <3>2, <3>3 DEF ReadClean
  <2>2. CASE n = 1
    <3>1. 9 \in 1 .. 9
      OBVIOUS
    <3>2. Len(Suffix(read_snapshot, 9)) = 9
      BY <3>1, ReadSuffix
    <3>3. reader'[r] = NotReading \/ Len(reader'[r].todo) = 9
      BY <1>2, <2>2, <3>2
    <3>4. CASE reader'[r] = NotReading
      BY <3>4 DEF ReadClean, Reading, NotReading
    <3>5. CASE Len(reader'[r].todo) = 9
      BY <3>5 DEF ReadClean
    <3> QED
      BY <3>3, <3>4, <3>5
  <2>3. CASE n \in 2 .. 8
    <3>1. /\ reader[r].s1 <= seq
          /\ reader[r].s1 = seq /\ seq % 2 = 0 => Shown(r, 8 - n)
      BY <1>1, <1>2, <2>3 DEF Quiet, ReadClean
    <3>2. n - 1 \in 1 .. 9 /\ 8 - n \in Nat /\ (8 - n) + 1 = 8 - (n - 1) /\ 10 - n = (8 - n) + 1 + 1
      BY <2>3
    <3>3. Len(reader'[r].todo) = n - 1
      BY <1>2, <2>3, <3>2, ReadSuffix
    <3>4. reader[r].got \in Seq(0 .. MaxCalls) /\ slot[read_snapshot[10 - n]] \in 0 .. MaxCalls
      BY <1>2, <2>3 DEF BaseInv, TypeInv
    <3>5. ASSUME Shown(r, 8 - n) PROVE Shown(r, 8 - (n - 1))'
      <4> DEFINE k == 8 - n
      <4>1. /\ Len(reader[r].got) = k
            /\ \A i \in 1 .. k : reader[r].got[i] = slot[read_snapshot[i + 1]]
        BY <3>5 DEF Shown
      <4>2. reader'[r].got = Append(reader[r].got, slot[read_snapshot[k + 1 + 1]])
        BY <1>2, <2>3, <3>2
      <4>3. slot[read_snapshot[k + 1 + 1]] \in 0 .. MaxCalls /\ k \in Nat
        BY <3>2, <3>4
      <4> HIDE DEF k
      <4>4. /\ Len(reader'[r].got) = k + 1
            /\ \A i \in 1 .. k : reader'[r].got[i] = reader[r].got[i]
            /\ reader'[r].got[k + 1] = slot[read_snapshot[k + 1 + 1]]
        BY <4>1, <4>2, <4>3, <3>4
      <4>5. \A i \in 1 .. k + 1 : reader'[r].got[i] = slot[read_snapshot[i + 1]]
        BY <4>1, <4>3, <4>4
      <4>6. Shown(r, k + 1)'
        BY <4>4, <4>5, <1>1 DEF Shown
      <4> QED
        BY <4>6, <3>2 DEF k
    <3>6. reader'[r].s1 = reader[r].s1
      BY <1>2, <2>3
    <3> QED
      BY <3>1, <3>3, <3>5, <3>6, <1>1 DEF ReadClean
  <2> QED
    BY <2>1, <2>2, <2>3
<1> QED
  BY <1>3, <1>4, <1>5, <1>6 DEF Quiet

\* Every step keeps it.
LEMMA QuietStep == BaseInv /\ QuietInv /\ [CacheNext]_cvars => QuietInv'
<1> SUFFICES ASSUME BaseInv, QuietInv, [CacheNext]_cvars PROVE QuietInv'
  OBVIOUS
<1>1. ASSUME NEW w \in Writers, NEW program \in Updates, StartUpdate(w, program) PROVE QuietInv'
  BY <1>1, StartUpdateQuiet
<1>2. ASSUME NEW w \in Writers, Store(w) PROVE QuietInv'
  BY <1>2, StoreQuiet
<1>3. ASSUME NEW r \in Readers, StartRead(r) PROVE QuietInv'
  BY <1>3, StartReadQuiet
<1>4. ASSUME NEW r \in Readers, Load(r) PROVE QuietInv'
  BY <1>4, LoadQuiet
<1>5. CASE UNCHANGED cvars
  BY <1>5 DEF QuietInv, Quiet, NoTwoBusy, Phase, ReadClean, Shown, Busy, Reading, cvars
<1> QED
  BY <1>1, <1>2, <1>3, <1>4, <1>5 DEF CacheNext

\* Only the last load of a reader ends its call, and it looks at the number.
LEMMA WholeSnapshot ==
    ASSUME BaseInv, QuietInv, [CacheNext]_cvars, NEW r \in Readers, Reading(r), ~Reading(r)', ~raced
    PROVE  reader[r].got = [i \in 1 .. 7 |-> slot[read_snapshot[i + 1]]]
<1>1. reader'[r].todo # reader[r].todo
  BY DEF Reading
<1>2. Load(r)
  <2>1. ASSUME NEW w \in Writers, NEW program \in Updates, StartUpdate(w, program) PROVE FALSE
    BY <1>1, <2>1 DEF StartUpdate
  <2>2. ASSUME NEW w \in Writers, Store(w) PROVE FALSE
    BY <1>1, <2>2 DEF Store
  <2>3. ASSUME NEW q \in Readers, StartRead(q) PROVE FALSE
    <3>1. q # r /\ reader'[r] = reader[r]
      BY <2>3 DEF StartRead, Reading, BaseInv, TypeInv
    <3> QED
      BY <3>1, <1>1
  <2>4. ASSUME NEW q \in Readers, Load(q), q # r PROVE FALSE
    <3>1. \A x \in Readers \ {q} : reader'[x] = reader[x]
      BY <2>4, LoadAccess
    <3> QED
      BY <3>1, <2>4, <1>1
  <2>5. ~UNCHANGED cvars
    BY <1>1 DEF cvars
  <2> QED
    BY <2>1, <2>2, <2>3, <2>4, <2>5 DEF CacheNext
<1>3. PICK n \in 1 .. 9 :
        /\ Len(reader[r].todo) = n
        /\ n = 9 => reader'[r].todo = Suffix(read_snapshot, 8)
        /\ n = 1 => IF Valid(reader[r].s1, seq) THEN reader'[r] = NotReading
                    ELSE reader'[r].todo = Suffix(read_snapshot, 9) /\ reader'[r].got = <<>>
        /\ n \in 2 .. 8 => reader'[r].todo = Suffix(read_snapshot, n - 1)
  BY <1>2, LoadAccess
<1>4. reader'[r].todo = <<>>
  BY DEF Reading
<1>5. ASSUME NEW k \in 1 .. 9 PROVE reader'[r].todo # Suffix(read_snapshot, k)
  <2>4. Len(Suffix(read_snapshot, k)) = k
    BY ReadSuffix, Zenon
  <2>1. Len(Suffix(read_snapshot, k)) = k /\ k # 0
    BY <2>4
  <2>2. Len(reader'[r].todo) = 0
    BY <1>4
  <2>3. Len(reader'[r].todo) # Len(Suffix(read_snapshot, k))
    BY <2>1, <2>2
  <2> QED
    BY <2>3, Zenon
<1>6. n = 1 /\ Valid(reader[r].s1, seq)
  <2>1. n # 9
    BY <1>3, <1>5
  <2>2. n \notin 2 .. 8
    <3> SUFFICES ASSUME n \in 2 .. 8 PROVE FALSE
      OBVIOUS
    <3>1. n - 1 \in 1 .. 9
      OBVIOUS
    <3> QED
      BY <3>1, <1>3, <1>5
  <2>3. n = 1
    BY <2>1, <2>2
  <2> QED
    BY <2>3, <1>3, <1>5
<1>7. Shown(r, 7)
  <2>1. Len(reader[r].todo) = 1 /\ ReadClean(r)
    BY <1>3, <1>6 DEF QuietInv, Quiet
  <2>2. reader[r].s1 = seq /\ seq % 2 = 0
    BY <1>6 DEF Valid
  <2>3. Shown(r, 8 - 1)
    BY <2>1, <2>2 DEF ReadClean
  <2> QED
    BY <2>3
<1>8. reader[r].got \in Seq(0 .. MaxCalls)
  BY DEF BaseInv, TypeInv
<1>9. reader[r].got = [i \in 1 .. 7 |-> reader[r].got[i]]
  <2> DEFINE got == reader[r].got
  <2>1. got \in Seq(0 .. MaxCalls) /\ Len(got) = 7
    BY <1>7, <1>8 DEF Shown
  <2> HIDE DEF got
  <2>2. got \in [1 .. 7 -> 0 .. MaxCalls]
    BY <2>1, LenProperties
  <2>3. got = [i \in 1 .. 7 |-> got[i]]
    BY <2>2
  <2> QED
    BY <2>3 DEF got
<1>10. \A i \in 1 .. 7 : reader[r].got[i] = slot[read_snapshot[i + 1]]
  BY <1>7 DEF Shown
<1> QED
  BY <1>9, <1>10

\* A snapshot that read_snapshot returns shows the seven fields as they are
\* together in the slot at that moment, for any number of writers and readers, as
\* long as no two calls overlapped and no fast update ran beside a read.
THEOREM SnapshotsWhole == CacheSpec => SnapshotsAtomic
<1>1. BaseInv /\ QuietInv /\ [CacheNext]_cvars =>
        [\A r \in Readers :
           (Reading(r) /\ ~Reading(r)' /\ ~raced) =>
             reader[r].got = [i \in 1 .. 7 |-> slot[read_snapshot[i + 1]]]]_cvars
  BY WholeSnapshot
<1> QED
  BY <1>1, BaseInit, BaseStep, QuietInit, QuietStep, PTL DEF CacheSpec, SnapshotsAtomic

--------------------------------------------------------------------------------
(* NBBO.                                                                   *)

\* NBBO on its own.
NbboSpec == NbboInit /\ [][NbboNext]_nvars

\* The types of a book of an exchange, of the best bid and offer, and of a call under way.
Quote == [bid : Nat, ask : Nat, at : Nat]
NbboFound == [bid : Nat, bid_exchange : Venues \cup {"none"}, ask : Nat, ask_exchange : Venues \cup {"none"},
              exchanges : Nat, at : Nat]
Call == [doing : {"nothing", "compute", "cleanup"}, left : SUBSET Venues, found : NbboFound]

\* n is the best bid and offer of the books of the exchanges in F.
BestOf(n, F) ==
    /\ n.exchanges = Cardinality(F)
    /\ \A e \in F : venue_books[e].bid <= n.bid
    /\ n.bid # 0 => n.bid_exchange \in F /\ venue_books[n.bid_exchange].bid = n.bid
    /\ \A e \in F : venue_books[e].ask # 0 => n.ask # 0 /\ n.ask <= venue_books[e].ask
    /\ n.ask # 0 => n.ask_exchange \in F /\ venue_books[n.ask_exchange].ask = n.ask

\* The exchanges of D whose books count at an instant.
FreshOf(D, instant) == {e \in D : ~IsStale(instant, e)}
\* The books that count now, and whether they have a bid and an ask.
Fresh == FreshOf(DOMAIN venue_books, settled)
TwoSided == (\E e \in Fresh : venue_books[e].bid # 0) /\ (\E e \in Fresh : venue_books[e].ask # 0)

\* The types of the variables.
NbboShape ==
    /\ DOMAIN venue_books \subseteq Venues /\ \A e \in DOMAIN venue_books : venue_books[e] \in Quote
    /\ caller \in [NbboTasks -> Call]
    /\ nbbo_cache \in NbboFound
    /\ settled \in Int

\* The walk of the only call has the best of the books that it has looked at.
WalkIsBest(t) ==
    /\ caller[t].doing = "compute" /\ caller[t].found.at = settled
    /\ BestOf(caller[t].found, FreshOf(DOMAIN venue_books \ caller[t].left, settled))
    /\ Alone(t)

\* At rest, and in the walk of a call that nothing has disturbed: the cached best bid
\* and offer, or what the walk has found so far, is the best of the books looked at.
NbboInv ==
    /\ NbboShape
    /\ settled >= 0 =>
         /\ \A t \in NbboTasks : caller[t] # Free => WalkIsBest(t)
         /\ (\A t \in NbboTasks : caller[t] = Free) /\ TwoSided =>
              nbbo_cache.at = settled /\ nbbo_cache.bid # 0 /\ nbbo_cache.ask # 0 /\ BestOf(nbbo_cache, Fresh)

\* The constants of the model have their types.
LEMMA FreeTypes == NoNbbo \in NbboFound /\ Free \in Call
BY DEF NoNbbo, Free, NbboFound, Call

\* The invariant holds at the start.
LEMMA NbboStarts == NbboInit => NbboInv
<1> SUFFICES ASSUME NbboInit PROVE NbboInv
  OBVIOUS
<1>1. NbboShape
  BY FreeTypes DEF NbboInit, NbboShape
<1>2. ~(settled >= 0)
  BY DEF NbboInit
<1> QED
  BY <1>1, <1>2 DEF NbboInv

\* A book that is not stale, looked at.
LEMMA BetterIsBest ==
    ASSUME NEW n \in NbboFound, NEW F \in SUBSET Venues, BestOf(n, F), NEW e \in Venues, e \notin F,
           venue_books[e] \in Quote, \A x \in F : venue_books[x] \in Quote, ~IsStale(n.at, e)
    PROVE  Better(n, e) \in NbboFound /\ Better(n, e).at = n.at /\ BestOf(Better(n, e), F \cup {e})
<1> DEFINE b == venue_books[e]
           bids == b.bid > n.bid
           asks == b.ask > 0 /\ (n.ask = 0 \/ b.ask < n.ask)
           m == Better(n, e)
<1>1. b.bid \in Nat /\ b.ask \in Nat /\ n.bid \in Nat /\ n.ask \in Nat /\ n.exchanges \in Nat
      /\ \A x \in F : venue_books[x].bid \in Nat /\ venue_books[x].ask \in Nat
  BY DEF Quote, NbboFound
<1>2. m = [n EXCEPT !.bid = IF bids THEN b.bid ELSE n.bid, !.bid_exchange = IF bids THEN e ELSE n.bid_exchange,
                    !.ask = IF asks THEN b.ask ELSE n.ask, !.ask_exchange = IF asks THEN e ELSE n.ask_exchange,
                    !.exchanges = n.exchanges + 1]
  BY Zenon DEF Better
<1> DEFINE nb == IF bids THEN b.bid ELSE n.bid
           nbe == IF bids THEN e ELSE n.bid_exchange
           na == IF asks THEN b.ask ELSE n.ask
           nae == IF asks THEN e ELSE n.ask_exchange
           k == n.exchanges + 1
<1>3. nb \in Nat /\ na \in Nat /\ k \in Nat
  BY <1>1
<1>4. nbe \in Venues \cup {"none"} /\ nae \in Venues \cup {"none"}
  BY DEF NbboFound
<1>5. n = [bid |-> n.bid, bid_exchange |-> n.bid_exchange, ask |-> n.ask, ask_exchange |-> n.ask_exchange,
           exchanges |-> n.exchanges, at |-> n.at] /\ n.at \in Nat
  BY DEF NbboFound
<1>6. m = [bid |-> nb, bid_exchange |-> nbe, ask |-> na, ask_exchange |-> nae, exchanges |-> k, at |-> n.at]
  <2> HIDE DEF nb, nbe, na, nae, k, m
  <2>1. m = [n EXCEPT !.bid = nb, !.bid_exchange = nbe, !.ask = na, !.ask_exchange = nae, !.exchanges = k]
    BY <1>2 DEF nb, nbe, na, nae, k
  <2> QED
    BY <1>5, <2>1
<1>7. m \in NbboFound /\ m.at = n.at
  <2> HIDE DEF nb, nbe, na, nae, k, m
  <2> QED
    BY <1>3, <1>4, <1>5, <1>6 DEF NbboFound
<1>8. k = Cardinality(F \cup {e})
  <2>1. IsFiniteSet(F)
    BY NbboAssumption, FS_Subset
  <2> QED
    BY <2>1, FS_AddElement DEF BestOf
<1>9. (\A x \in F \cup {e} : venue_books[x].bid <= nb)
      /\ (nb # 0 => nbe \in F \cup {e} /\ venue_books[nbe].bid = nb)
  BY <1>1 DEF BestOf
<1>10. (\A x \in F \cup {e} : venue_books[x].ask # 0 => na # 0 /\ na <= venue_books[x].ask)
       /\ (na # 0 => nae \in F \cup {e} /\ venue_books[nae].ask = na)
  BY <1>1 DEF BestOf
<1>11. BestOf(m, F \cup {e})
  <2> HIDE DEF nb, nbe, na, nae, k, m
  <2> QED
    BY <1>6, <1>8, <1>9, <1>10 DEF BestOf
<1> QED
  BY <1>7, <1>11

\* A book that changes unsettles the cache (settled < 0).
LEMMA update_order_bookKeeps ==
    ASSUME NbboInv, NEW t \in NbboTasks, NEW e \in Venues, NEW bid \in BidPrices \cup {0}, NEW ask \in AskPrices \cup {0},
           NEW ts \in QuoteTimes, update_order_book(t, e, bid, ask, ts)
    PROVE  NbboInv'
<1> DEFINE start == [NoNbbo EXCEPT !.at = ts]
           call == [doing |-> "compute", left |-> Venues, found |-> start]
           q == [bid |-> bid, ask |-> ask, at |-> ts]
<1>1. ts \in Nat /\ q \in Quote
  BY NbboAssumption DEF Quote
<1>2. start = [bid |-> 0, bid_exchange |-> "none", ask |-> 0, ask_exchange |-> "none", exchanges |-> 0, at |-> ts]
  BY DEF NoNbbo
<1>3. start \in NbboFound /\ start.at = ts
  <2> HIDE DEF start
  <2> QED
    BY <1>1, <1>2 DEF NbboFound
<1> HIDE DEF start, q
<1>4. call \in Call /\ call # Free
  BY <1>3 DEF Call, Free
<1>5. caller' = [caller EXCEPT ![t] = call] /\ settled' = (IF Alone(t) THEN ts ELSE -1)
      /\ venue_books' = [x \in DOMAIN venue_books \cup {e} |-> IF x = e THEN q ELSE venue_books[x]]
      /\ nbbo_cache' = nbbo_cache
  BY DEF update_order_book, start, q
<1>6. NbboShape'
  <2>1. DOMAIN venue_books' \subseteq Venues /\ \A x \in DOMAIN venue_books' : venue_books'[x] \in Quote
    BY <1>1, <1>5 DEF NbboInv, NbboShape
  <2>2. caller' \in [NbboTasks -> Call]
    BY <1>4, <1>5 DEF NbboInv, NbboShape
  <2>3. settled' \in Int
    BY <1>1, <1>5
  <2> QED
    BY <2>1, <2>2, <2>3, <1>5 DEF NbboInv, NbboShape
<1>7. ASSUME settled' >= 0
      PROVE  /\ \A u \in NbboTasks : caller'[u] # Free => WalkIsBest(u)'
             /\ \E u \in NbboTasks : caller'[u] # Free
  <2>1. Alone(t) /\ settled' = ts
    BY <1>5, <1>7
  <2>2. caller'[t] = call /\ \A u \in NbboTasks \ {t} : caller'[u] = Free
    BY <1>5, <2>1 DEF Alone, NbboInv, NbboShape
  <2>3. FreshOf(DOMAIN venue_books \ caller[t].left, settled)' = {}
    <3>1. DOMAIN venue_books' \ caller'[t].left = {}
      BY <2>2, <1>6 DEF NbboShape
    <3> QED
      BY <3>1 DEF FreshOf
  <2>4. BestOf(caller[t].found, {})'
    <3>1. caller'[t].found = start
      BY <2>2
    <3>2. start.bid = 0 /\ start.ask = 0 /\ start.exchanges = 0 /\ Cardinality({}) = 0
      BY <1>2, FS_EmptySet
    <3> QED
      BY <3>1, <3>2 DEF BestOf
  <2>5. WalkIsBest(t)'
    <3>1. caller'[t].doing = "compute" /\ caller'[t].found.at = settled'
      BY <2>1, <2>2, <1>3
    <3>2. Alone(t)'
      BY <2>2 DEF Alone
    <3> QED
      BY <2>3, <2>4, <3>1, <3>2 DEF WalkIsBest
  <2> QED
    BY <1>4, <2>2, <2>5
<1> QED
  BY <1>6, <1>7 DEF NbboInv

\* A step of the walk keeps the best of what it has looked at.
LEMMA LookAtKeeps ==
    ASSUME NbboInv, NEW t \in NbboTasks, NEW e \in Venues, LookAt(t, e) PROVE NbboInv'
<1> DEFINE c == caller[t]
           found == IF e \in DOMAIN venue_books THEN Better(c.found, e) ELSE c.found
           d == [c EXCEPT !.left = c.left \ {e}, !.found = found]
           L == DOMAIN venue_books \ c.left
           M == DOMAIN venue_books \ (c.left \ {e})
<1>1. c \in Call /\ c.doing = "compute" /\ e \in c.left /\ caller' = [caller EXCEPT ![t] = d]
      /\ UNCHANGED <<venue_books, nbbo_cache, settled>>
  BY DEF LookAt, NbboInv, NbboShape
<1> HIDE DEF c
<1>2. c = [doing |-> "compute", left |-> c.left, found |-> c.found] /\ c.left \in SUBSET Venues /\ c.found \in NbboFound
  BY <1>1 DEF Call
<1>3. d = [doing |-> "compute", left |-> c.left \ {e}, found |-> found]
  <2> DEFINE left == c.left \ {e}
  <2> HIDE DEF found, left
  <2>1. d = [[doing |-> "compute", left |-> c.left, found |-> c.found] EXCEPT !.left = left, !.found = found]
    BY <1>2, Zenon DEF left
  <2> HIDE DEF d
  <2>2. d = [doing |-> "compute", left |-> left, found |-> found]
    BY <2>1
  <2> QED
    BY <2>2 DEF left
<1>4. found \in NbboFound
  <2>1. CASE e \notin DOMAIN venue_books
    BY <1>2, <2>1
  <2>2. CASE e \in DOMAIN venue_books
    <3> DEFINE n == c.found
               b == venue_books[e]
    <3>1. n \in NbboFound /\ b \in Quote
      BY <1>2, <2>2 DEF NbboInv, NbboShape
    <3>2. Better(n, e) = IF IsStale(n.at, e) THEN n
             ELSE [n EXCEPT !.bid = IF b.bid > n.bid THEN b.bid ELSE n.bid,
                            !.bid_exchange = IF b.bid > n.bid THEN e ELSE n.bid_exchange,
                            !.ask = IF b.ask > 0 /\ (n.ask = 0 \/ b.ask < n.ask) THEN b.ask ELSE n.ask,
                            !.ask_exchange = IF b.ask > 0 /\ (n.ask = 0 \/ b.ask < n.ask) THEN e ELSE n.ask_exchange,
                            !.exchanges = n.exchanges + 1]
      BY Zenon DEF Better
    <3> HIDE DEF n, b
    <3>3. b.bid \in Nat /\ b.ask \in Nat /\ n.exchanges + 1 \in Nat
      BY <3>1 DEF Quote, NbboFound
    <3>4. Better(n, e) \in NbboFound
      BY <3>1, <3>2, <3>3 DEF NbboFound
    <3> QED
      BY <2>2, <3>4 DEF n
  <2> QED
    BY <2>1, <2>2
<1>5. d \in Call /\ d # Free /\ d.left = c.left \ {e} /\ d.found = found /\ d.doing = "compute"
  <2> HIDE DEF found, d
  <2> QED
    BY <1>2, <1>3, <1>4 DEF Call, Free
<1>6. NbboShape'
  <2> HIDE DEF d
  <2> QED
    BY <1>1, <1>5 DEF NbboInv, NbboShape
<1>7. ASSUME settled >= 0 PROVE WalkIsBest(t)' /\ \A u \in NbboTasks \ {t} : caller'[u] = Free
  <2>1. WalkIsBest(t)
    <3>1. caller[t] # Free
      BY <1>1 DEF Free, c
    <3> QED
      BY <3>1, <1>7 DEF NbboInv
  <2>2. c.found.at = settled /\ BestOf(c.found, FreshOf(L, settled)) /\ Alone(t)
    BY <2>1 DEF WalkIsBest, c
  <2>3. \A u \in NbboTasks \ {t} : caller'[u] = Free
    BY <1>1, <2>2 DEF Alone, NbboInv, NbboShape
  <2>4. found.at = settled /\ BestOf(found, FreshOf(M, settled))
    <3>1. CASE e \notin DOMAIN venue_books
      <4>1. M = L
        BY <3>1
      <4> QED
        BY <2>2, <3>1, <4>1
    <3>2. CASE e \in DOMAIN venue_books /\ IsStale(settled, e)
      <4>1. FreshOf(M, settled) = FreshOf(L, settled)
        BY <3>2, <1>1 DEF FreshOf
      <4>2. found = c.found
        BY <2>2, <3>2 DEF Better
      <4> QED
        BY <2>2, <4>1, <4>2
    <3>3. CASE e \in DOMAIN venue_books /\ ~IsStale(settled, e)
      <4> DEFINE F == FreshOf(L, settled)
      <4>1. FreshOf(M, settled) = F \cup {e} /\ e \notin F /\ F \in SUBSET Venues
            /\ (\A x \in F : venue_books[x] \in Quote) /\ venue_books[e] \in Quote
        BY <3>3, <1>1 DEF FreshOf, NbboInv, NbboShape
      <4>2. found = Better(c.found, e)
        BY <3>3
      <4> HIDE DEF F, L, M, found
      <4>3. Better(c.found, e).at = c.found.at /\ BestOf(Better(c.found, e), F \cup {e})
        BY <1>2, <2>2, <3>3, <4>1, BetterIsBest DEF F
      <4> QED
        BY <2>2, <4>1, <4>2, <4>3
    <3> QED
      BY <3>1, <3>2, <3>3
  <2>5. caller'[t] = d
    <3> HIDE DEF d
    <3> QED
      BY <1>1 DEF NbboInv, NbboShape
  <2>6. caller'[t].doing = "compute" /\ caller'[t].found = found /\ caller'[t].left = c.left \ {e}
    <3> HIDE DEF d, found
    <3> QED
      BY <1>5, <2>5
  <2> HIDE DEF d, found
  <2>7. BestOf(caller[t].found, FreshOf(DOMAIN venue_books \ caller[t].left, settled))'
    BY <1>1, <2>4, <2>6 DEF BestOf, FreshOf, IsStale
  <2>8. Alone(t)'
    BY <2>3 DEF Alone
  <2> QED
    BY <1>1, <2>3, <2>4, <2>6, <2>7, <2>8 DEF WalkIsBest
<1>8. caller'[t] # Free
  <2> HIDE DEF d
  <2> QED
    BY <1>1, <1>5 DEF NbboInv, NbboShape
<1> QED
  BY <1>1, <1>6, <1>7, <1>8 DEF NbboInv

\* The end of the walk writes the cache.
LEMMA CacheNbboKeeps == ASSUME NbboInv, NEW t \in NbboTasks, CacheNbbo(t) PROVE NbboInv'
<1> DEFINE n == caller[t].found
<1>1. caller' = [caller EXCEPT ![t] = Free] /\ UNCHANGED <<venue_books, settled>> /\ caller[t].doing = "compute"
      /\ caller[t].left = {} /\ nbbo_cache' = IF n.bid = 0 \/ n.ask = 0 THEN nbbo_cache ELSE n
  BY DEF CacheNbbo
<1>2. n \in NbboFound
  BY DEF NbboInv, NbboShape, Call
<1> HIDE DEF n
<1>3. NbboShape'
  BY <1>1, <1>2, FreeTypes DEF NbboInv, NbboShape
<1>4. ASSUME settled >= 0
      PROVE  /\ \A u \in NbboTasks : caller'[u] = Free
             /\ TwoSided' => nbbo_cache'.at = settled /\ nbbo_cache'.bid # 0 /\ nbbo_cache'.ask # 0 /\ BestOf(nbbo_cache, Fresh)'
  <2>1. WalkIsBest(t)
    BY <1>1, <1>4 DEF NbboInv, Free
  <2>2. \A u \in NbboTasks : caller'[u] = Free
    BY <1>1, <2>1 DEF WalkIsBest, Alone, NbboInv, NbboShape
  <2>3. n.at = settled /\ BestOf(n, Fresh)
    <3>1. DOMAIN venue_books \ caller[t].left = DOMAIN venue_books
      BY <1>1
    <3> QED
      BY <2>1, <3>1 DEF WalkIsBest, Fresh, n
  <2>4. ASSUME TwoSided' PROVE n.bid # 0 /\ n.ask # 0
    <3>1. TwoSided
      BY <1>1, <2>4 DEF TwoSided, Fresh, FreshOf, IsStale
    <3>2. PICK x \in Fresh : venue_books[x].bid # 0
      BY <3>1 DEF TwoSided
    <3>3. PICK y \in Fresh : venue_books[y].ask # 0
      BY <3>1 DEF TwoSided
    <3>4. n.bid \in Nat /\ venue_books[x].bid \in Nat
      BY <1>2 DEF NbboInv, NbboShape, NbboFound, Quote, Fresh, FreshOf
    <3> QED
      BY <2>3, <3>2, <3>3, <3>4 DEF BestOf
  <2>5. ASSUME TwoSided' PROVE nbbo_cache' = n /\ BestOf(nbbo_cache, Fresh)'
    <3>1. nbbo_cache' = n
      BY <1>1, <2>4, <2>5
    <3>2. BestOf(n, Fresh)
      BY <2>3
    <3> QED
      BY <1>1, <3>1, <3>2 DEF BestOf, Fresh, FreshOf, IsStale
  <2> QED
    BY <2>2, <2>3, <2>4, <2>5
<1> QED
  BY <1>1, <1>3, <1>4 DEF NbboInv

\* cleanup_stale_data drops books only.
LEMMA CleanupKeeps ==
    ASSUME NbboInv, NEW t \in NbboTasks,
           RemoveBooks(t) \/ \E instant \in QuoteTimes : cleanup_stale(t, instant)
    PROVE  NbboInv'
<1>1. settled' = -1 /\ nbbo_cache' = nbbo_cache
  BY DEF RemoveBooks, cleanup_stale
<1>2. NbboShape'
  <2>1. CASE RemoveBooks(t)
    BY <1>1, <2>1, FreeTypes DEF RemoveBooks, NbboInv, NbboShape
  <2>2. ASSUME NEW instant \in QuoteTimes, cleanup_stale(t, instant) PROVE NbboShape'
    <3> DEFINE stale == {e \in DOMAIN venue_books : IsStale(instant, e)}
               call == [Free EXCEPT !.doing = "cleanup", !.left = stale]
    <3>1. stale \in SUBSET Venues
      BY DEF NbboInv, NbboShape
    <3>2. call \in Call
      <4> HIDE DEF stale
      <4> QED
        BY <3>1, FreeTypes DEF Free, Call
    <3>3. caller' = [caller EXCEPT ![t] = call] /\ venue_books' = venue_books
      BY <2>2 DEF cleanup_stale
    <3> HIDE DEF call
    <3> QED
      BY <1>1, <3>2, <3>3 DEF NbboInv, NbboShape
  <2> QED
    BY <2>1, <2>2
<1> QED
  BY <1>1, <1>2 DEF NbboInv

\* Every step of NBBO keeps the invariant.
LEMMA NbboSteps == NbboInv /\ [NbboNext]_nvars => NbboInv'
<1> SUFFICES ASSUME NbboInv, [NbboNext]_nvars PROVE NbboInv'
  OBVIOUS
<1>1. CASE UNCHANGED nvars
  <2>1. UNCHANGED <<venue_books, nbbo_cache, caller, settled>>
    BY <1>1 DEF nvars
  <2> QED
    BY <2>1 DEF NbboInv, NbboShape, WalkIsBest, BestOf, FreshOf, Fresh, TwoSided, IsStale, Alone
<1> QED
  BY <1>1, update_order_bookKeeps, LookAtKeeps, CacheNbboKeeps, CleanupKeeps DEF NbboNext

\* CachedIsBest as the invariant has it: BestOf says what the maximum and the minimum are.
LEMMA NbboInvImplies == NbboInv => CachedIsBest
<1> DEFINE fresh == {e \in DOMAIN venue_books : ~IsStale(settled, e)}
           bids == {venue_books[e].bid : e \in fresh} \ {0}
           asks == {venue_books[e].ask : e \in fresh} \ {0}
           n == nbbo_cache
<1> SUFFICES ASSUME NbboInv, settled >= 0, \A t \in NbboTasks : caller[t] = Free, bids # {}, asks # {}
             PROVE  /\ n.bid = Max(bids) /\ n.ask = Min(asks)
                    /\ n.exchanges = Cardinality(fresh) /\ n.at = settled
                    /\ n.bid_exchange \in fresh /\ venue_books[n.bid_exchange].bid = n.bid
                    /\ n.ask_exchange \in fresh /\ venue_books[n.ask_exchange].ask = n.ask
  BY DEF CachedIsBest
<1>1. fresh = Fresh
  BY DEF Fresh, FreshOf
<1>2. TwoSided
  BY <1>1 DEF TwoSided
<1>3. n.at = settled /\ n.bid # 0 /\ n.ask # 0 /\ BestOf(n, fresh)
  BY <1>1, <1>2 DEF NbboInv
<1>4. n.bid \in bids /\ n.ask \in asks
  BY <1>3 DEF BestOf
<1>5. bids \subseteq Nat /\ asks \subseteq Nat
  BY DEF NbboInv, NbboShape, Quote
<1>6. \A x \in bids : x <= n.bid
  BY <1>3 DEF BestOf
<1>7. \A x \in asks : n.ask <= x
  BY <1>3 DEF BestOf
<1>8. Max(bids) = n.bid
  <2> DEFINE b == n.bid
  <2>1. b \in bids /\ \A x \in bids : x <= b
    BY <1>4, <1>6
  <2> HIDE DEF bids, n, b
  <2>2. PICK x : x = Max(bids)
    OBVIOUS
  <2>3. b >= b /\ \A y \in bids : b >= y
    BY <1>5, <2>1
  <2>4. x \in bids /\ \A y \in bids : x >= y
    BY <2>1, <2>2, <2>3 DEF Max
  <2>5. x = b
    BY <1>5, <2>1, <2>4
  <2> QED
    BY <2>2, <2>5 DEF b
<1>9. Min(asks) = n.ask
  <2> DEFINE a == n.ask
  <2>1. a \in asks /\ \A x \in asks : a <= x
    BY <1>4, <1>7
  <2> HIDE DEF asks, n, a
  <2>2. PICK x : x = Min(asks)
    OBVIOUS
  <2>3. a <= a /\ \A y \in asks : a <= y
    BY <1>5, <2>1
  <2>5. x \in asks /\ \A y \in asks : x <= y
    <3>1. \E z \in asks : \A y \in asks : z <= y
      BY <2>1, <2>3
    <3> QED
      BY <2>2, <3>1, Zenon DEF Min
  <2>6. x \in Nat /\ a \in Nat
    BY <1>5, <2>1, <2>5
  <2>7. x <= a /\ a <= x
    BY <2>1, <2>5
  <2>4. x = a
    BY <2>6, <2>7
  <2> QED
    BY <2>2, <2>4 DEF a
<1> QED
  BY <1>3, <1>8, <1>9 DEF BestOf

\* What an update leaves in the cache when no other call ran beside it is the best bid and
\* offer of the books that are not stale (calculate_nbbo), for any number of callers,
\* exchanges, prices and times.
THEOREM CacheAlwaysBest == NbboSpec => []CachedIsBest
<1> QED
  BY NbboStarts, NbboSteps, NbboInvImplies, PTL DEF NbboSpec

--------------------------------------------------------------------------------
(* From L2 books to L3 events.                                             *)

\* The engine on its own.
EngineSpec == EngineInit /\ [][EngineNext]_evars

\* The types of a level, of an update still to process, and of an event.
BookLevel == [price : Prices, amount : Amounts \ {0}]
Todo == [side : Sides, price : Prices, amount : Amounts \cup {0}]
Event == [id : Nat, kind : {"Add", "Cancel", "Execute"}, side : Sides, price : Prices, amount : Nat]

\* What InsertAt of a sequence is, element by element.
LEMMA InsertAtIs ==
    ASSUME NEW S, NEW a \in Seq(S), NEW x \in S, NEW k \in 1 .. Len(a) + 1
    PROVE  /\ InsertAt(a, k, x) \in Seq(S) /\ Len(InsertAt(a, k, x)) = Len(a) + 1
           /\ \A i \in 1 .. Len(a) + 1 :
                InsertAt(a, k, x)[i] = IF i < k THEN a[i] ELSE IF i = k THEN x ELSE a[i - 1]
<1> DEFINE n == Len(a)
           b == SubSeq(a, 1, k - 1)
           c == SubSeq(a, k, n)
           bx == b \o <<x>>
<1>1. n \in Nat /\ \A i \in 1 .. n : a[i] \in S
  OBVIOUS
<1>2. b \in Seq(S) /\ Len(b) = k - 1 /\ \A i \in 1 .. k - 1 : b[i] = a[i]
  <2>1. \A i \in 1 .. k - 1 : a[i] \in S
    BY <1>1
  <2>2. (IF 1 <= k - 1 THEN k - 1 - 1 + 1 ELSE 0) = k - 1
    BY <1>1
  <2> QED
    BY <1>1, <2>1, <2>2, SubSeqProperties
<1>3. c \in Seq(S) /\ Len(c) = n - k + 1 /\ \A i \in 1 .. n - k + 1 : c[i] = a[k + i - 1]
  <2>1. \A i \in k .. n : a[i] \in S
    BY <1>1
  <2>2. (IF k <= n THEN n - k + 1 ELSE 0) = n - k + 1
    BY <1>1
  <2> QED
    BY <1>1, <2>1, <2>2, SubSeqProperties
<1> HIDE DEF b, c
<1>4. <<x>> \in Seq(S) /\ Len(<<x>>) = 1 /\ <<x>>[1] = x
  OBVIOUS
<1>5. bx \in Seq(S) /\ Len(bx) = k /\ (\A i \in 1 .. k - 1 : bx[i] = a[i]) /\ bx[k] = x
  BY <1>1, <1>2, <1>4
<1> HIDE DEF bx
<1> DEFINE all == bx \o c
<1>6. all \in Seq(S) /\ Len(all) = n + 1 /\ \A i \in 1 .. n + 1 : all[i] = IF i <= k THEN bx[i] ELSE c[i - k]
  <2>1. all \in Seq(S) /\ Len(all) = k + (n - k + 1)
        /\ \A i \in 1 .. k + (n - k + 1) : all[i] = IF i <= k THEN bx[i] ELSE c[i - k]
    <3>1. bx \in Seq(S) /\ c \in Seq(S) /\ k = Len(bx) /\ n - k + 1 = Len(c)
      BY <1>3, <1>5
    <3> QED
      BY <3>1, TwoJoined
  <2> HIDE DEF all, n
  <2>2. k + (n - k + 1) = n + 1
    BY <1>1
  <2> QED
    BY <2>1, <2>2
<1> HIDE DEF all
<1>7. InsertAt(a, k, x) = all
  BY DEF InsertAt, bx, b, c, all
<1>8. \A i \in 1 .. n + 1 : all[i] = IF i < k THEN a[i] ELSE IF i = k THEN x ELSE a[i - 1]
  <2> SUFFICES ASSUME NEW i \in 1 .. n + 1
               PROVE  all[i] = IF i < k THEN a[i] ELSE IF i = k THEN x ELSE a[i - 1]
    OBVIOUS
  <2> HIDE DEF n
  <2>0. n \in Nat /\ k \in 1 .. n + 1
    BY <1>1 DEF n
  <2>1. CASE i <= k
    <3>1. all[i] = bx[i] /\ (i = k \/ i \in 1 .. k - 1)
      BY <1>6, <2>0, <2>1
    <3> QED
      BY <1>5, <2>0, <2>1, <3>1
  <2>2. CASE ~(i <= k)
    <3>1. all[i] = c[i - k] /\ i - k \in 1 .. n - k + 1 /\ k + (i - k) - 1 = i - 1
      <4>1. k \in Int /\ i \in Int /\ n \in Int /\ k < i /\ i <= n + 1 /\ 1 <= k
        BY <2>0, <2>2
      <4>2. i - k \in 1 .. n - k + 1 /\ k + (i - k) - 1 = i - 1
        BY <4>1
      <4>3. all[i] = c[i - k]
        BY <1>6, <2>2
      <4> QED
        BY <4>2, <4>3
    <3> QED
      BY <1>3, <2>0, <2>2, <3>1
  <2> QED
    BY <2>1, <2>2
<1> QED
  BY <1>6, <1>7, <1>8

\* And of RemoveAt.
LEMMA RemoveAtIs ==
    ASSUME NEW S, NEW a \in Seq(S), NEW k \in 1 .. Len(a)
    PROVE  /\ RemoveAt(a, k) \in Seq(S) /\ Len(RemoveAt(a, k)) = Len(a) - 1
           /\ \A i \in 1 .. Len(a) - 1 : RemoveAt(a, k)[i] = IF i < k THEN a[i] ELSE a[i + 1]
<1> DEFINE n == Len(a)
           b == SubSeq(a, 1, k - 1)
           c == SubSeq(a, k + 1, n)
<1>1. n \in Nat /\ \A i \in 1 .. n : a[i] \in S
  OBVIOUS
<1>2. b \in Seq(S) /\ Len(b) = k - 1 /\ \A i \in 1 .. k - 1 : b[i] = a[i]
  <2>1. \A i \in 1 .. k - 1 : a[i] \in S
    BY <1>1
  <2>2. (IF 1 <= k - 1 THEN k - 1 - 1 + 1 ELSE 0) = k - 1
    BY <1>1
  <2> QED
    BY <1>1, <2>1, <2>2, SubSeqProperties
<1>3. c \in Seq(S) /\ Len(c) = n - k /\ \A i \in 1 .. n - k : c[i] = a[k + i]
  <2>1. \A i \in k + 1 .. n : a[i] \in S
    BY <1>1
  <2>2. (IF k + 1 <= n THEN n - (k + 1) + 1 ELSE 0) = n - k
    BY <1>1
  <2> QED
    BY <1>1, <2>1, <2>2, SubSeqProperties
<1> HIDE DEF b, c
<1> DEFINE all == b \o c
<1>4. all \in Seq(S) /\ Len(all) = n - 1
      /\ \A i \in 1 .. n - 1 : all[i] = IF i <= k - 1 THEN b[i] ELSE c[i - (k - 1)]
  <2>1. all \in Seq(S) /\ Len(all) = (k - 1) + (n - k)
        /\ \A i \in 1 .. (k - 1) + (n - k) : all[i] = IF i <= k - 1 THEN b[i] ELSE c[i - (k - 1)]
    <3> DEFINE m == k - 1
               l == n - k
    <3>1. b \in Seq(S) /\ c \in Seq(S) /\ m = Len(b) /\ l = Len(c)
      BY <1>2, <1>3
    <3> HIDE DEF m, l
    <3>2. all \in Seq(S) /\ Len(all) = m + l /\ \A i \in 1 .. m + l : all[i] = IF i <= m THEN b[i] ELSE c[i - m]
      BY <3>1, TwoJoined
    <3> QED
      BY <3>2 DEF m, l
  <2> HIDE DEF all, n
  <2>2. (k - 1) + (n - k) = n - 1
    BY <1>1
  <2> QED
    BY <2>1, <2>2
<1> HIDE DEF all
<1>5. RemoveAt(a, k) = all
  BY DEF RemoveAt, b, c, all
<1> QED
  BY <1>1, <1>2, <1>3, <1>4, <1>5

-----------------------------------------------------------------------------
(* The levels of a side.                                                   *)

\* The prices of a sorted side differ.
LEMMA PricesOf ==
    ASSUME NEW levels \in Seq(BookLevel)
    PROVE  Len(levels) \in Nat /\ \A i \in 1 .. Len(levels) : levels[i].price \in Int /\ levels[i].amount \in Nat
<1>1. Len(levels) \in Nat /\ \A i \in 1 .. Len(levels) : levels[i] \in BookLevel
  OBVIOUS
<1>2. \A l \in BookLevel : l.price \in Int /\ l.amount \in Nat
  BY EngineAssumption DEF BookLevel
<1> QED
  BY <1>1, <1>2

\* The place that Insert looks for.
GoesTo(levels, side, price, k) ==
    /\ k \in 1 .. Len(levels) + 1
    /\ \A i \in 1 .. Len(levels) : i < k <=> Before(side, levels[i].price, price)

\* A price that has no level has a place among them.
LEMMA PlaceFound ==
    ASSUME NEW side \in Sides, NEW levels \in Seq(BookLevel), SortedLevels(side, levels), NEW price \in Int
    PROVE  \E k \in 1 .. Len(levels) + 1 : GoesTo(levels, side, price, k)
<1> DEFINE n == Len(levels)
           Later == {k \in 1 .. n + 1 : k = n + 1 \/ ~Before(side, levels[k].price, price)}
<1>1. n \in Nat /\ \A i \in 1 .. n : levels[i].price \in Int
  BY PricesOf
<1>2. PICK k \in Later : \A j \in Later : k <= j
  <2>1. Later \subseteq Nat /\ n + 1 \in Later
    BY <1>1
  <2>2. Later # {}
    BY <2>1
  <2> HIDE DEF Later
  <2> QED
    BY <2>1, <2>2, LeastCounterexample
<1>3. \A i \in 1 .. n : i < k => Before(side, levels[i].price, price)
  BY <1>1, <1>2
<1>4. ASSUME NEW i \in 1 .. n, i >= k PROVE ~Before(side, levels[i].price, price)
  <2>1. k \in 1 .. n /\ ~Before(side, levels[k].price, price)
    BY <1>1, <1>2, <1>4
  <2>2. i = k \/ Before(side, levels[k].price, levels[i].price)
    BY <1>1, <1>2, <1>4, <2>1 DEF SortedLevels
  <2> QED
    BY <1>1, <2>1, <2>2 DEF Before
<1>5. GoesTo(levels, side, price, k)
  BY <1>1, <1>2, <1>3, <1>4 DEF GoesTo
<1> QED
  BY <1>2, <1>5

\* A level inserted there keeps the side sorted;
LEMMA InsertSorts ==
    ASSUME NEW side \in Sides, NEW levels \in Seq(BookLevel), SortedLevels(side, levels), NEW level \in BookLevel,
           \A i \in 1 .. Len(levels) : levels[i].price # level.price
    PROVE  /\ Insert(levels, side, level) \in Seq(BookLevel) /\ SortedLevels(side, Insert(levels, side, level))
           /\ \E k \in 1 .. Len(levels) + 1 :
                /\ Len(Insert(levels, side, level)) = Len(levels) + 1
                /\ \A i \in 1 .. Len(levels) + 1 :
                     Insert(levels, side, level)[i] = IF i < k THEN levels[i] ELSE IF i = k THEN level ELSE levels[i - 1]
<1> DEFINE n == Len(levels)
           k == CHOOSE k \in 1 .. n + 1 : GoesTo(levels, side, level.price, k)
           new == InsertAt(levels, k, level)
<1>1. n \in Nat /\ level.price \in Int /\ \A i \in 1 .. n : levels[i].price \in Int
  BY PricesOf, EngineAssumption DEF BookLevel
<1>2. k \in 1 .. n + 1 /\ GoesTo(levels, side, level.price, k)
  BY <1>1, PlaceFound
<1>3. Insert(levels, side, level) = new
  <2>1. k = CHOOSE j \in 1 .. Len(levels) + 1 :
               \A i \in 1 .. Len(levels) : i < j <=> Before(side, levels[i].price, level.price)
    BY DEF GoesTo
  <2> HIDE DEF k
  <2> QED
    BY <2>1 DEF Insert
<1> HIDE DEF k
<1>4. new \in Seq(BookLevel) /\ Len(new) = n + 1
      /\ \A i \in 1 .. n + 1 : new[i] = IF i < k THEN levels[i] ELSE IF i = k THEN level ELSE levels[i - 1]
  BY <1>2, InsertAtIs
<1> HIDE DEF new
<1>5. \A i \in 1 .. n : i < k <=> Before(side, levels[i].price, level.price)
  BY <1>2 DEF GoesTo
<1>6. ASSUME NEW i \in 1 .. n + 1, NEW j \in 1 .. n + 1, i < j PROVE Before(side, new[i].price, new[j].price)
  <2>1. CASE j < k
    <3>1. i \in 1 .. n /\ j \in 1 .. n /\ new[i] = levels[i] /\ new[j] = levels[j]
      BY <2>1, <1>1, <1>2, <1>4, <1>6
    <3> QED
      BY <3>1, <1>6 DEF SortedLevels
  <2>2. CASE j = k
    <3>1. i \in 1 .. n /\ i < k /\ new[i] = levels[i] /\ new[j] = level
      BY <2>2, <1>1, <1>2, <1>4, <1>6
    <3> QED
      BY <3>1, <1>5
  <2>3. CASE j > k /\ i < k
    <3>1. i \in 1 .. n /\ j - 1 \in 1 .. n /\ i < j - 1 /\ new[i] = levels[i] /\ new[j] = levels[j - 1]
      BY <2>3, <1>1, <1>2, <1>4, <1>6
    <3> QED
      BY <3>1 DEF SortedLevels
  <2>4. CASE j > k /\ i = k
    <3>1. j - 1 \in 1 .. n /\ ~(j - 1 < k) /\ new[i] = level /\ new[j] = levels[j - 1]
      BY <2>4, <1>1, <1>2, <1>4, <1>6
    <3>2. ~Before(side, levels[j - 1].price, level.price) /\ levels[j - 1].price # level.price
      BY <3>1, <1>5
    <3> QED
      BY <3>1, <3>2, <1>1 DEF Before
  <2>5. CASE j > k /\ i > k
    <3>1. i - 1 \in 1 .. n /\ j - 1 \in 1 .. n /\ i - 1 < j - 1 /\ new[i] = levels[i - 1] /\ new[j] = levels[j - 1]
      BY <2>5, <1>1, <1>2, <1>4, <1>6
    <3> QED
      BY <3>1 DEF SortedLevels
  <2> QED
    BY <2>1, <2>2, <2>3, <2>4, <2>5, <1>1, <1>2
<1>7. SortedLevels(side, new)
  BY <1>4, <1>6 DEF SortedLevels
<1> QED
  BY <1>2, <1>3, <1>4, <1>7

\* a level removed, too;
LEMMA RemoveSorts ==
    ASSUME NEW side \in Sides, NEW levels \in Seq(BookLevel), SortedLevels(side, levels), NEW k \in 1 .. Len(levels)
    PROVE  RemoveAt(levels, k) \in Seq(BookLevel) /\ SortedLevels(side, RemoveAt(levels, k))
<1> DEFINE n == Len(levels)
           new == RemoveAt(levels, k)
           At(i) == IF i < k THEN i ELSE i + 1
<1>1. n \in Nat
  OBVIOUS
<1>2. new \in Seq(BookLevel) /\ Len(new) = n - 1 /\ \A i \in 1 .. n - 1 : new[i] = levels[At(i)] /\ At(i) \in 1 .. n
  BY <1>1, RemoveAtIs
<1>3. \A i, j \in 1 .. n - 1 : i < j => At(i) < At(j)
  BY <1>1
<1> HIDE DEF new, At
<1>4. SortedLevels(side, new)
  BY <1>2, <1>3 DEF SortedLevels
<1> QED
  BY <1>2, <1>4 DEF new

\* and a level whose amount changes.
LEMMA ChangeSorts ==
    ASSUME NEW side \in Sides, NEW levels \in Seq(BookLevel), SortedLevels(side, levels), NEW k \in 1 .. Len(levels),
           NEW amount \in Amounts \ {0}
    PROVE  /\ [levels EXCEPT ![k].amount = amount] \in Seq(BookLevel)
           /\ SortedLevels(side, [levels EXCEPT ![k].amount = amount])
           /\ Len([levels EXCEPT ![k].amount = amount]) = Len(levels)
           /\ \A i \in 1 .. Len(levels) :
                /\ [levels EXCEPT ![k].amount = amount][i].price = levels[i].price
                /\ [levels EXCEPT ![k].amount = amount][i].amount = IF i = k THEN amount ELSE levels[i].amount
<1> DEFINE l == [levels[k] EXCEPT !.amount = amount]
           new == [levels EXCEPT ![k] = l]
<1>1. levels[k] \in BookLevel
  OBVIOUS
<1>2. l \in BookLevel /\ l.price = levels[k].price /\ l.amount = amount
  BY <1>1 DEF BookLevel
<1>3. new = [levels EXCEPT ![k].amount = amount]
  OBVIOUS
<1> HIDE DEF l
<1>4. new \in Seq(BookLevel) /\ Len(new) = Len(levels) /\ \A i \in 1 .. Len(levels) : new[i] = IF i = k THEN l ELSE levels[i]
  BY <1>2, ExceptSeq
<1> HIDE DEF new
<1>5. SortedLevels(side, new)
  BY <1>2, <1>4 DEF SortedLevels
<1> QED
  BY <1>2, <1>3, <1>4, <1>5

-----------------------------------------------------------------------------
(* What events tell of a side.                                             *)

\* What the events say in sum is resting at a price.
ToldIn(evs, side, price) == SumOf([i \in 1 .. Len(evs) |-> Said(evs[i], side, price)])

\* The events tell the levels of a side.
TellsSide(evs, levels, side) ==
    /\ SortedLevels(side, levels)
    /\ \A i \in 1 .. Len(levels) : ToldIn(evs, side, levels[i].price) = levels[i].amount
    /\ \A price \in Prices : (\A i \in 1 .. Len(levels) : levels[i].price # price) => ToldIn(evs, side, price) = 0

\* An event says a number.
LEMMA SaidType ==
    ASSUME NEW e \in Event, NEW side, NEW price PROVE Said(e, side, price) \in Int
<1>1. e.amount \in Int /\ -e.amount \in Int
  BY DEF Event
<1> QED
  BY <1>1 DEF Said

\* One more event adds what it says.
LEMMA ToldOfAppend ==
    ASSUME NEW evs \in Seq(Event), NEW e \in Event, NEW side, NEW price
    PROVE  /\ ToldIn(evs, side, price) \in Int
           /\ ToldIn(Append(evs, e), side, price) = ToldIn(evs, side, price) + Said(e, side, price)
<1> DEFINE f == [i \in 1 .. Len(evs) |-> Said(evs[i], side, price)]
           x == Said(e, side, price)
           more == Append(evs, e)
           g == [i \in 1 .. Len(more) |-> Said(more[i], side, price)]
<1>1. x \in Int /\ Len(evs) \in Nat /\ \A i \in 1 .. Len(evs) : evs[i] \in Event /\ Said(evs[i], side, price) \in Int
  BY SaidType
<1>2. f \in Seq(Int) /\ Len(f) = Len(evs)
  BY <1>1
<1>3. Len(more) = Len(evs) + 1 /\ more[Len(evs) + 1] = e /\ \A i \in 1 .. Len(evs) : more[i] = evs[i]
  OBVIOUS
<1> HIDE DEF more, x
<1>4. g \in Seq(Int) /\ Len(g) = Len(evs) + 1
  <2>1. \A i \in 1 .. Len(evs) + 1 : Said(more[i], side, price) \in Int
    BY <1>1, <1>3 DEF x
  <2> QED
    BY <1>1, <1>3, <2>1
<1>5. g = Append(f, x)
  <2>1. Append(f, x) \in Seq(Int) /\ Len(Append(f, x)) = Len(evs) + 1 /\ Append(f, x)[Len(evs) + 1] = x
        /\ \A i \in 1 .. Len(evs) : Append(f, x)[i] = f[i]
    BY <1>1, <1>2
  <2>2. \A i \in 1 .. Len(evs) + 1 : g[i] = IF i = Len(evs) + 1 THEN x ELSE f[i]
    BY <1>1, <1>3 DEF x
  <2> HIDE DEF f, g
  <2>3. \A i \in 1 .. Len(g) : g[i] = Append(f, x)[i]
    BY <1>1, <1>4, <2>1, <2>2
  <2> QED
    BY <1>4, <2>1, <2>3, SeqEqual
<1> HIDE DEF f, g
<1>6. SumOf(f) \in Int /\ SumOf(g) = SumOf(f) + x
  BY <1>1, <1>2, <1>5, SumType, SumOfAppend
<1> QED
  BY <1>6 DEF ToldIn, f, g, x, more

\* A new level, and the event that adds it.
LEMMA AddTells ==
    ASSUME NEW side \in Sides, NEW levels \in Seq(BookLevel), NEW evs \in Seq(Event), TellsSide(evs, levels, side),
           NEW level \in BookLevel, \A i \in 1 .. Len(levels) : levels[i].price # level.price,
           NEW e \in Event, e.kind = "Add", e.side = side, e.price = level.price, e.amount = level.amount
    PROVE  TellsSide(Append(evs, e), Insert(levels, side, level), side)
<1> DEFINE n == Len(levels)
           new == Insert(levels, side, level)
           more == Append(evs, e)
<1>1. n \in Nat /\ level.price \in Prices /\ level.amount \in Nat /\ SortedLevels(side, levels)
      /\ \A i \in 1 .. n : levels[i].amount \in Nat /\ levels[i].price \in Prices
  <2>1. \A i \in 1 .. n : levels[i] \in BookLevel
    OBVIOUS
  <2> QED
    BY <2>1, PricesOf, EngineAssumption DEF BookLevel, TellsSide
<1>2. new \in Seq(BookLevel) /\ SortedLevels(side, new)
  BY <1>1, InsertSorts
<1>3. PICK k \in 1 .. n + 1 :
        /\ Len(new) = n + 1
        /\ \A i \in 1 .. n + 1 : new[i] = IF i < k THEN levels[i] ELSE IF i = k THEN level ELSE levels[i - 1]
  BY <1>1, InsertSorts
<1>4. \A price : ToldIn(evs, side, price) \in Int
               /\ ToldIn(more, side, price) = ToldIn(evs, side, price) + (IF price = level.price THEN level.amount ELSE 0)
  BY ToldOfAppend DEF Said
<1> HIDE DEF new, more
<1>5. ToldIn(evs, side, level.price) = 0
  BY <1>1 DEF TellsSide
<1>6. ASSUME NEW i \in 1 .. n + 1 PROVE ToldIn(more, side, new[i].price) = new[i].amount
  <2>1. CASE i = k
    BY <2>1, <1>1, <1>3, <1>4, <1>5
  <2>2. CASE i # k
    <3>1. PICK j \in 1 .. n : new[i] = levels[j]
      <4>1. CASE i < k
        BY <4>1, <1>1, <1>3
      <4>2. CASE i > k
        <5>1. i - 1 \in 1 .. n /\ new[i] = levels[i - 1]
          BY <4>2, <1>1, <1>3
        <5> QED
          BY <5>1
      <4> QED
        BY <4>1, <4>2, <2>2, <1>1
    <3>2. levels[j].price # level.price /\ ToldIn(evs, side, levels[j].price) = levels[j].amount
      BY DEF TellsSide
    <3> QED
      BY <3>1, <3>2, <1>1, <1>4
  <2> QED
    BY <2>1, <2>2
<1>7. ASSUME NEW price \in Prices, \A i \in 1 .. n + 1 : new[i].price # price PROVE ToldIn(more, side, price) = 0
  <2>1. price # level.price
    BY <1>3, <1>7, <1>1
  <2>2. ASSUME NEW i \in 1 .. n PROVE levels[i].price # price
    <3>1. i \in 1 .. n + 1 /\ i + 1 \in 1 .. n + 1
      BY <1>1
    <3>2. CASE i < k
      BY <3>1, <3>2, <1>3, <1>7
    <3>3. CASE ~(i < k)
      <4>1. new[i + 1] = levels[(i + 1) - 1] /\ (i + 1) - 1 = i
        BY <3>1, <3>3, <1>3, <1>1
      <4> QED
        BY <3>1, <4>1, <1>7
    <3> QED
      BY <3>2, <3>3
  <2>3. ToldIn(evs, side, price) = 0
    BY <2>2 DEF TellsSide
  <2> QED
    BY <2>1, <2>3, <1>4
<1>8. TellsSide(more, new, side)
  BY <1>2, <1>3, <1>6, <1>7 DEF TellsSide
<1> QED
  BY <1>8 DEF more, new

\* A level is there once.
LEMMA PricesDiffer ==
    ASSUME NEW side \in Sides, NEW levels \in Seq(BookLevel), SortedLevels(side, levels),
           NEW i \in 1 .. Len(levels), NEW j \in 1 .. Len(levels), i # j
    PROVE  levels[i].price # levels[j].price
<1>1. Len(levels) \in Nat /\ levels[i].price \in Int /\ levels[j].price \in Int
  BY PricesOf
<1>2. i < j \/ j < i
  OBVIOUS
<1>3. Before(side, levels[i].price, levels[j].price) \/ Before(side, levels[j].price, levels[i].price)
  BY <1>2 DEF SortedLevels
<1> QED
  BY <1>1, <1>3 DEF Before

\* A level goes, and the event that cancels it.
LEMMA CancelTells ==
    ASSUME NEW side \in Sides, NEW levels \in Seq(BookLevel), NEW evs \in Seq(Event), TellsSide(evs, levels, side),
           NEW k \in 1 .. Len(levels),
           NEW e \in Event, e.kind = "Cancel", e.side = side, e.price = levels[k].price, e.amount = levels[k].amount
    PROVE  TellsSide(Append(evs, e), RemoveAt(levels, k), side)
<1> DEFINE n == Len(levels)
           new == RemoveAt(levels, k)
           more == Append(evs, e)
           p == levels[k].price
           At(i) == IF i < k THEN i ELSE i + 1
<1>1. n \in Nat /\ SortedLevels(side, levels) /\ \A i \in 1 .. n : levels[i].amount \in Nat
  BY PricesOf DEF TellsSide
<1>2. new \in Seq(BookLevel) /\ SortedLevels(side, new)
  BY <1>1, RemoveSorts
<1>3. Len(new) = n - 1 /\ \A i \in 1 .. n - 1 : new[i] = levels[At(i)] /\ At(i) \in 1 .. n /\ At(i) # k
  <2>1. Len(new) = n - 1 /\ \A i \in 1 .. n - 1 : new[i] = IF i < k THEN levels[i] ELSE levels[i + 1]
    BY RemoveAtIs
  <2> HIDE DEF new
  <2>2. \A i \in 1 .. n - 1 : At(i) \in 1 .. n /\ At(i) # k
    BY <1>1
  <2> QED
    BY <2>1, <2>2
<1>4. \A price : ToldIn(evs, side, price) \in Int
               /\ ToldIn(more, side, price) = ToldIn(evs, side, price) + (IF price = p THEN -levels[k].amount ELSE 0)
  BY ToldOfAppend DEF Said
<1>5. ToldIn(evs, side, p) = levels[k].amount
  BY DEF TellsSide
<1>6. \A i \in 1 .. n : i # k => \E j \in 1 .. n - 1 : At(j) = i
  <2> SUFFICES ASSUME NEW i \in 1 .. n, i # k PROVE \E j \in 1 .. n - 1 : At(j) = i
    OBVIOUS
  <2>1. CASE i < k
    <3>1. i \in 1 .. n - 1 /\ At(i) = i
      BY <2>1, <1>1
    <3> QED
      BY <3>1
  <2>2. CASE i > k
    <3>1. i - 1 \in 1 .. n - 1 /\ At(i - 1) = i
      BY <2>2, <1>1
    <3> QED
      BY <3>1
  <2> QED
    BY <2>1, <2>2
<1>7. \A i \in 1 .. n : i # k => levels[i].price # p
  BY <1>1, PricesDiffer
<1> HIDE DEF new, more, At, p
<1>8. ASSUME NEW i \in 1 .. n - 1 PROVE ToldIn(more, side, new[i].price) = new[i].amount
  <2>1. At(i) \in 1 .. n /\ new[i] = levels[At(i)] /\ levels[At(i)].price # p
    BY <1>3, <1>7
  <2>2. ToldIn(evs, side, levels[At(i)].price) = levels[At(i)].amount
    BY <2>1 DEF TellsSide
  <2> QED
    BY <2>1, <2>2, <1>1, <1>4
<1>9. ASSUME NEW price \in Prices, \A i \in 1 .. n - 1 : new[i].price # price PROVE ToldIn(more, side, price) = 0
  <2>1. CASE price = p
    BY <2>1, <1>1, <1>4, <1>5
  <2>2. CASE price # p
    <3>1. \A i \in 1 .. n : levels[i].price # price
      BY <2>2, <1>3, <1>6, <1>9 DEF p
    <3>2. ToldIn(evs, side, price) = 0
      BY <3>1 DEF TellsSide
    <3> QED
      BY <2>2, <3>2, <1>4
  <2> QED
    BY <2>1, <2>2
<1>10. TellsSide(more, new, side)
  BY <1>2, <1>3, <1>8, <1>9 DEF TellsSide
<1> QED
  BY <1>10 DEF more, new

\* A level gets another amount, and the event that says by how much.
LEMMA ChangeTells ==
    ASSUME NEW side \in Sides, NEW levels \in Seq(BookLevel), NEW evs \in Seq(Event), TellsSide(evs, levels, side),
           NEW k \in 1 .. Len(levels), NEW amount \in Amounts \ {0},
           NEW e \in Event, e.side = side, e.price = levels[k].price,
           (IF e.kind = "Add" THEN e.amount ELSE -e.amount) = amount - levels[k].amount
    PROVE  TellsSide(Append(evs, e), [levels EXCEPT ![k].amount = amount], side)
<1> DEFINE n == Len(levels)
           new == [levels EXCEPT ![k].amount = amount]
           more == Append(evs, e)
           p == levels[k].price
<1>1. n \in Nat /\ SortedLevels(side, levels) /\ amount \in Nat /\ \A i \in 1 .. n : levels[i].amount \in Nat
  BY PricesOf, EngineAssumption DEF TellsSide
<1>2. new \in Seq(BookLevel) /\ SortedLevels(side, new) /\ Len(new) = n
      /\ \A i \in 1 .. n : new[i].price = levels[i].price /\ new[i].amount = IF i = k THEN amount ELSE levels[i].amount
  BY <1>1, ChangeSorts
<1>3. \A price : ToldIn(evs, side, price) \in Int
               /\ ToldIn(more, side, price) = ToldIn(evs, side, price) + (IF price = p THEN amount - levels[k].amount ELSE 0)
  BY ToldOfAppend DEF Said
<1>4. ToldIn(evs, side, p) = levels[k].amount
  BY DEF TellsSide
<1>5. \A i \in 1 .. n : i # k => levels[i].price # p
  BY <1>1, PricesDiffer
<1> HIDE DEF new, more, p
<1>6. ASSUME NEW i \in 1 .. n PROVE ToldIn(more, side, new[i].price) = new[i].amount
  <2>1. CASE i = k
    BY <2>1, <1>1, <1>2, <1>3, <1>4 DEF p
  <2>2. CASE i # k
    <3>1. levels[i].price # p /\ ToldIn(evs, side, levels[i].price) = levels[i].amount
      BY <2>2, <1>5 DEF TellsSide
    <3> QED
      BY <2>2, <3>1, <1>1, <1>2, <1>3
  <2> QED
    BY <2>1, <2>2
<1>7. ASSUME NEW price \in Prices, \A i \in 1 .. n : new[i].price # price PROVE ToldIn(more, side, price) = 0
  <2>1. price # p /\ \A i \in 1 .. n : levels[i].price # price
    BY <1>2, <1>7 DEF p
  <2>2. ToldIn(evs, side, price) = 0
    BY <2>1 DEF TellsSide
  <2> QED
    BY <2>1, <2>2, <1>3
<1>8. TellsSide(more, new, side)
  BY <1>2, <1>6, <1>7 DEF TellsSide
<1> QED
  BY <1>8 DEF more, new

\* Events of another side say nothing of this one.
LEMMA OtherTells ==
    ASSUME NEW side \in Sides, NEW levels, NEW evs \in Seq(Event), TellsSide(evs, levels, side),
           NEW e \in Event, e.side # side
    PROVE  TellsSide(Append(evs, e), levels, side)
<1>1. \A price : ToldIn(evs, side, price) \in Int
               /\ ToldIn(Append(evs, e), side, price) = ToldIn(evs, side, price) + 0
  BY ToldOfAppend DEF Said
<1>2. \A price : ToldIn(Append(evs, e), side, price) = ToldIn(evs, side, price)
  BY <1>1
<1> QED
  BY <1>2 DEF TellsSide
-----------------------------------------------------------------------------
(* The engine.                                                             *)

\* The types of the variables.
EngineShape ==
    /\ order_books \in [Symbols -> [Sides -> Seq(BookLevel)]]
    /\ events \in [Symbols -> Seq(Event)]
    /\ order_id_counter \in Nat
    /\ working \in [EngineThreads -> [symbol : Symbols \cup {"none"}, todo : Seq(Todo)]]
    /\ \A t \in EngineThreads : working[t].todo # <<>> => working[t].symbol \in Symbols

\* The books of all symbols are told by their events, in the midst of a batch, too.
EngineInv ==
    /\ EngineShape
    /\ \A s \in Symbols, side \in Sides : TellsSide(events[s], order_books[s][side], side)

\* No book, no event.
LEMMA EngineStarts == EngineInit => EngineInv
<1> SUFFICES ASSUME EngineInit PROVE EngineInv
  OBVIOUS
<1>1. EngineShape
  BY DEF EngineInit, EngineShape, Resting
<1>2. ASSUME NEW s \in Symbols, NEW side \in Sides PROVE TellsSide(events[s], order_books[s][side], side)
  <2>1. events[s] = <<>> /\ order_books[s][side] = <<>>
    BY DEF EngineInit
  <2>2. \A price : ToldIn(<<>>, side, price) = 0
    <3>1. \A price : [i \in 1 .. Len(<<>>) |-> Said(<<>>[i], side, price)] = <<>>
      OBVIOUS
    <3> QED
      BY <3>1, SumOfNone DEF ToldIn
  <2> QED
    BY <2>1, <2>2 DEF TellsSide, SortedLevels
<1> QED
  BY <1>1, <1>2 DEF EngineInv

\* The level that the loop finds.
LEMMA LevelFound ==
    ASSUME NEW levels \in Seq(BookLevel), NEW price, NEW i, i = SelectInSeq(levels, LAMBDA l : l.price = price)
    PROVE  \/ i = 0 /\ \A j \in 1 .. Len(levels) : levels[j].price # price
           \/ i # 0 /\ i \in 1 .. Len(levels) /\ levels[i].price = price
<1> DEFINE Found == {j \in 1 .. Len(levels) : levels[j].price = price}
<1>1. i = IF Found # {} THEN Min(Found) ELSE 0
  BY DEF SelectInSeq
<1>2. CASE Found = {}
  BY <1>1, <1>2
<1>3. CASE Found # {}
  <2>1. Found \subseteq Nat
    OBVIOUS
  <2>2. Found \subseteq 1 .. Len(levels) /\ \A j \in Found : levels[j].price = price
    OBVIOUS
  <2> HIDE DEF Found
  <2>3. \E n \in Found : \A m \in Found : n <= m
    BY <1>3, <2>1, LeastCounterexample
  <2>4. Min(Found) \in Found
    BY <2>3 DEF Min
  <2> QED
    BY <1>1, <1>3, <2>2, <2>4
<1> QED
  BY <1>2, <1>3

\* The call takes its batch, and drops the levels of a book that a snapshot replaces.
LEMMA process_l2_updateKeeps ==
    ASSUME EngineInv, NEW t \in EngineThreads, NEW symbol \in Symbols, NEW is_snapshot \in BOOLEAN,
           NEW levels \in Seq(Todo), process_l2_update(t, symbol, is_snapshot, levels)
    PROVE  EngineInv'
<1> DEFINE todo == (IF is_snapshot THEN generate_clear_events(order_books[symbol]) ELSE <<>>) \o levels
<1>1. generate_clear_events(order_books[symbol]) \in Seq(Todo)
  <2> DEFINE bids == order_books[symbol]["Buy"]
             asks == order_books[symbol]["Sell"]
             b == [i \in 1 .. Len(bids) |-> [side |-> "Buy", price |-> bids[i].price, amount |-> 0]]
             a == [i \in 1 .. Len(asks) |-> [side |-> "Sell", price |-> asks[i].price, amount |-> 0]]
  <2>1. bids \in Seq(BookLevel) /\ asks \in Seq(BookLevel)
    BY DEF EngineInv, EngineShape, Sides
  <2> HIDE DEF bids, asks
  <2>2. Len(bids) \in Nat /\ Len(asks) \in Nat /\ (\A i \in 1 .. Len(bids) : bids[i] \in BookLevel)
        /\ (\A i \in 1 .. Len(asks) : asks[i] \in BookLevel)
    BY <2>1
  <2>3. b \in Seq(Todo)
    <3>1. \A i \in 1 .. Len(bids) : [side |-> "Buy", price |-> bids[i].price, amount |-> 0] \in Todo
      BY <2>2 DEF BookLevel, Todo, Sides
    <3> QED
      BY <2>2, <3>1
  <2>4. a \in Seq(Todo)
    <3>1. \A i \in 1 .. Len(asks) : [side |-> "Sell", price |-> asks[i].price, amount |-> 0] \in Todo
      BY <2>2 DEF BookLevel, Todo, Sides
    <3> QED
      BY <2>2, <3>1
  <2> HIDE DEF a, b
  <2>5. b \o a \in Seq(Todo)
    BY <2>3, <2>4, ConcatProperties
  <2> QED
    BY <2>5 DEF generate_clear_events, a, b, bids, asks
<1>2. todo \in Seq(Todo)
  <2>1. (IF is_snapshot THEN generate_clear_events(order_books[symbol]) ELSE <<>>) \in Seq(Todo)
    BY <1>1
  <2> QED
    BY <2>1, ConcatProperties
<1>3. working' = [working EXCEPT ![t] = [symbol |-> symbol, todo |-> todo]]
      /\ UNCHANGED <<order_books, order_id_counter, events>>
  BY DEF process_l2_update
<1> HIDE DEF todo
<1>4. EngineShape'
  BY <1>2, <1>3 DEF EngineInv, EngineShape
<1> QED
  BY <1>3, <1>4 DEF EngineInv, TellsSide, ToldIn

\* A level of the batch: added, grown, shrunk, removed, or of no effect.
LEMMA process_side_updatesKeeps ==
    ASSUME EngineInv, NEW t \in EngineThreads, process_side_updates(t) PROVE EngineInv'
<1> DEFINE symbol == working[t].symbol
           u == Head(working[t].todo)
           levels == order_books[symbol][u.side]
           i == SelectInSeq(levels, LAMBDA l : l.price = u.price)
           evs == events[symbol]
<1>1. symbol \in Symbols /\ u \in Todo /\ Tail(working[t].todo) \in Seq(Todo)
  <2>1. working[t].todo \in Seq(Todo) /\ working[t].todo # <<>> /\ symbol \in Symbols
    BY DEF process_side_updates, EngineInv, EngineShape
  <2> QED
    BY <2>1, HeadTailProperties
<1>2. u.side \in Sides /\ u.price \in Prices /\ u.amount \in Nat /\ u.amount \in Amounts \cup {0}
  <2> DEFINE a == u.amount
  <2>1. u.side \in Sides /\ u.price \in Prices /\ a \in Amounts \cup {0}
    <3> HIDE DEF u
    <3>1. u \in [side : Sides, price : Prices, amount : Amounts \cup {0}]
      BY <1>1 DEF Todo
    <3> QED
      BY <3>1
  <2> HIDE DEF a
  <2>2. a \in Nat
    BY <2>1, EngineAssumption
  <2> QED
    BY <2>1, <2>2 DEF a
<1>3. levels \in Seq(BookLevel) /\ evs \in Seq(Event) /\ TellsSide(evs, levels, u.side)
  BY <1>1, <1>2 DEF EngineInv, EngineShape
<1>4. \/ i = 0 /\ \A j \in 1 .. Len(levels) : levels[j].price # u.price
      \/ i # 0 /\ i \in 1 .. Len(levels) /\ levels[i].price = u.price
  <2>1. levels \in Seq(BookLevel)
    BY <1>3
  <2> QED
    BY <2>1, LevelFound, ZenonT(40)
<1>5. working' = [working EXCEPT ![t].todo = Tail(working[t].todo)] /\ UNCHANGED l2_updates
  BY DEF process_side_updates
<1>6. working' \in [EngineThreads -> [symbol : Symbols \cup {"none"}, todo : Seq(Todo)]]
      /\ \A v \in EngineThreads : working'[v].todo # <<>> => working'[v].symbol \in Symbols
  <2> DEFINE rest == Tail(working[t].todo)
             w == [working[t] EXCEPT !.todo = rest]
  <2>1. working' = [working EXCEPT ![t] = w]
    BY <1>5
  <2>2. w \in [symbol : Symbols \cup {"none"}, todo : Seq(Todo)] /\ w.symbol = symbol
    <3> HIDE DEF rest
    <3>1. rest \in Seq(Todo)
      BY <1>1 DEF rest
    <3>2. working[t] \in [symbol : Symbols \cup {"none"}, todo : Seq(Todo)]
      BY DEF EngineInv, EngineShape
    <3> QED
      BY <3>1, <3>2
  <2> HIDE DEF w
  <2> QED
    BY <1>1, <2>1, <2>2 DEF EngineInv, EngineShape
<1>7. ASSUME NEW ls \in Seq(BookLevel), NEW e \in Event, order_id_counter' = order_id_counter + 1,
             events' = [events EXCEPT ![symbol] = Append(evs, e)],
             order_books' = [order_books EXCEPT ![symbol][u.side] = ls],
             e.side = u.side, TellsSide(Append(evs, e), ls, u.side)
      PROVE  EngineInv'
  <2>1. Append(evs, e) \in Seq(Event)
    BY <1>3, AppendProperties
  <2>2. events' \in [Symbols -> Seq(Event)] /\ order_id_counter' \in Nat
        /\ \A s \in Symbols : events'[s] = IF s = symbol THEN Append(evs, e) ELSE events[s]
    BY <1>1, <1>7, <2>1 DEF EngineInv, EngineShape
  <2>3. order_books' \in [Symbols -> [Sides -> Seq(BookLevel)]]
        /\ \A s \in Symbols, side \in Sides :
             order_books'[s][side] = IF s = symbol /\ side = u.side THEN ls ELSE order_books[s][side]
    <3> DEFINE b == [order_books[symbol] EXCEPT ![u.side] = ls]
    <3>1. order_books' = [order_books EXCEPT ![symbol] = b]
      BY <1>7
    <3>2. b \in [Sides -> Seq(BookLevel)] /\ \A side \in Sides : b[side] = IF side = u.side THEN ls ELSE order_books[symbol][side]
      BY <1>1, <1>2, <1>7 DEF EngineInv, EngineShape
    <3> HIDE DEF b
    <3> QED
      BY <1>1, <3>1, <3>2 DEF EngineInv, EngineShape
  <2>4. EngineShape'
    BY <1>6, <2>2, <2>3 DEF EngineShape
  <2>5. ASSUME NEW s \in Symbols, NEW side \in Sides PROVE TellsSide(events'[s], order_books'[s][side], side)
    <3> HIDE DEF symbol, u, levels, evs
    <3>0. TellsSide(events[s], order_books[s][side], side)
      BY DEF EngineInv
    <3>1. CASE s = symbol /\ side = u.side
      BY <1>7, <2>2, <2>3, <3>1
    <3>2. CASE s = symbol /\ side # u.side
      <4>1. TellsSide(Append(evs, e), order_books[s][side], side)
        BY <1>3, <1>7, <3>0, <3>2, OtherTells DEF evs
      <4> QED
        BY <2>2, <2>3, <3>2, <4>1
    <3>3. CASE s # symbol
      BY <2>2, <2>3, <3>0, <3>3
    <3> QED
      BY <3>1, <3>2, <3>3
  <2> QED
    BY <2>4, <2>5 DEF EngineInv, TellsSide, ToldIn
<1> DEFINE E(kind, amount) == [id |-> order_id_counter', kind |-> kind, side |-> u.side, price |-> u.price, amount |-> amount]
           l == [price |-> u.price, amount |-> u.amount]
<1>8. CASE UNCHANGED <<order_books, order_id_counter, events>>
  <2>1. EngineShape'
    BY <1>6, <1>8 DEF EngineInv, EngineShape
  <2> QED
    BY <2>1, <1>8 DEF EngineInv, TellsSide, ToldIn
<1>9. CASE i = 0 /\ u.amount > 0 /\ generate_add_event(symbol, u.side, u.price, u.amount)
           /\ order_books' = [order_books EXCEPT ![symbol][u.side] = Insert(levels, u.side, l)]
  <2>1. order_id_counter' = order_id_counter + 1
        /\ events' = [events EXCEPT ![symbol] = Append(evs, E("Add", u.amount))]
    BY <1>9 DEF generate_add_event, Record
  <2>2. E("Add", u.amount) \in Event /\ l \in BookLevel
    <3>1. order_id_counter' \in Nat
      BY <2>1 DEF EngineInv, EngineShape
    <3> HIDE DEF u, symbol, i
    <3> QED
      BY <3>1, <1>2, <1>9 DEF Event, BookLevel
  <2>3. \A j \in 1 .. Len(levels) : levels[j].price # l.price
    BY <1>4, <1>9
  <2> DEFINE e == E("Add", u.amount)
  <2>4. e \in Event /\ e.kind = "Add" /\ e.side = u.side /\ e.price = l.price /\ e.amount = l.amount
    BY <2>2
  <2> HIDE DEF u, symbol, i, l, e, levels, evs, E
  <2>5. TellsSide(Append(evs, e), Insert(levels, u.side, l), u.side)
    BY <1>2, <1>3, <2>2, <2>3, <2>4, AddTells
  <2>6. Insert(levels, u.side, l) \in Seq(BookLevel)
    BY <1>2, <1>3, <2>2, <2>3, InsertSorts DEF TellsSide
  <2> QED
    BY <1>7, <1>9, <2>1, <2>4, <2>5, <2>6 DEF e
<1>10. CASE i # 0 /\ u.amount = 0 /\ generate_cancel_event(symbol, u.side, u.price, levels[i].amount)
           /\ order_books' = [order_books EXCEPT ![symbol][u.side] = RemoveAt(levels, i)]
  <2> DEFINE e == E("Cancel", levels[i].amount)
  <2>1. order_id_counter' = order_id_counter + 1 /\ events' = [events EXCEPT ![symbol] = Append(evs, e)]
    BY <1>10 DEF generate_cancel_event, Record
  <2>2. i \in 1 .. Len(levels) /\ levels[i].price = u.price
    BY <1>4, <1>10
  <2>3. levels[i].amount \in Nat /\ order_id_counter' \in Nat
    <3> HIDE DEF levels, i
    <3> QED
      BY <1>3, <2>1, <2>2, PricesOf DEF EngineInv, EngineShape
  <2>4. e \in Event /\ e.kind = "Cancel" /\ e.side = u.side /\ e.price = levels[i].price /\ e.amount = levels[i].amount
    <3> HIDE DEF u, symbol, i, levels
    <3> QED
      BY <1>2, <2>2, <2>3 DEF Event
  <2> HIDE DEF u, symbol, i, l, e, levels, evs, E
  <2>5. TellsSide(Append(evs, e), RemoveAt(levels, i), u.side)
    BY <1>2, <1>3, <2>2, <2>4, CancelTells
  <2>6. RemoveAt(levels, i) \in Seq(BookLevel)
    BY <1>3, <2>2, RemoveAtIs
  <2> QED
    BY <1>7, <1>10, <2>1, <2>4, <2>5, <2>6
<1>11. ASSUME i # 0, u.amount > 0, NEW kind \in {"Add", "Execute"}, NEW d \in Nat,
              Record(symbol, kind, u.side, u.price, d),
              (IF kind = "Add" THEN d ELSE -d) = u.amount - levels[i].amount,
              order_books' = [order_books EXCEPT ![symbol][u.side] = [levels EXCEPT ![i].amount = u.amount]]
       PROVE  EngineInv'
  <2> DEFINE e == E(kind, d)
             ls == [levels EXCEPT ![i].amount = u.amount]
  <2>1. order_id_counter' = order_id_counter + 1 /\ events' = [events EXCEPT ![symbol] = Append(evs, e)]
    BY <1>11 DEF Record
  <2>2. i \in 1 .. Len(levels) /\ levels[i].price = u.price
    BY <1>4, <1>11
  <2>3. order_id_counter' \in Nat /\ u.amount \in Amounts \ {0}
    <3> HIDE DEF u
    <3>1. order_id_counter' \in Nat
      BY <2>1 DEF EngineInv, EngineShape
    <3> DEFINE a == u.amount
    <3>2. a \in Amounts \cup {0} /\ a > 0
      BY <1>2, <1>11
    <3> HIDE DEF a
    <3>3. a \in Amounts \ {0}
      BY <3>2
    <3> QED
      BY <3>1, <3>3 DEF a
  <2>4. e \in Event /\ e.kind = kind /\ e.side = u.side /\ e.price = levels[i].price /\ e.amount = d
    <3> HIDE DEF u, symbol, i, levels
    <3> QED
      BY <1>2, <2>2, <2>3 DEF Event
  <2>5. (IF e.kind = "Add" THEN e.amount ELSE -e.amount) = u.amount - levels[i].amount
    BY <1>11, <2>4
  <2> HIDE DEF u, symbol, i, l, e, levels, evs, E
  <2>6. TellsSide(Append(evs, e), ls, u.side)
    BY <1>2, <1>3, <2>2, <2>3, <2>4, <2>5, ChangeTells
  <2>7. ls \in Seq(BookLevel)
    BY <1>2, <1>3, <2>2, <2>3, ChangeSorts DEF TellsSide
  <2> HIDE DEF ls
  <2> QED
    BY <1>7, <1>11, <2>1, <2>4, <2>6, <2>7 DEF ls
<1>12. CASE i # 0 /\ u.amount > levels[i].amount
            /\ generate_add_event(symbol, u.side, u.price, u.amount - levels[i].amount)
            /\ order_books' = [order_books EXCEPT ![symbol][u.side] = [levels EXCEPT ![i].amount = u.amount]]
  <2>1. levels[i].amount \in Nat
    <3> HIDE DEF levels, i
    <3> QED
      BY <1>3, <1>4, <1>12, PricesOf
  <2> DEFINE d == u.amount - levels[i].amount
  <2>2. d \in Nat /\ u.amount > 0 /\ Record(symbol, "Add", u.side, u.price, d)
    <3>1. Record(symbol, "Add", u.side, u.price, d)
      BY <1>12 DEF generate_add_event
    <3> HIDE DEF u, symbol, i, levels
    <3>2. d \in Nat /\ u.amount > 0
      BY <1>2, <1>12, <2>1
    <3> QED
      BY <3>1, <3>2
  <2> HIDE DEF u, symbol, i, levels
  <2> QED
    BY <1>11, <1>12, <2>2
<1>13. CASE i # 0 /\ 0 < u.amount /\ u.amount < levels[i].amount
            /\ generate_reduce_event(symbol, u.side, u.price, levels[i].amount - u.amount)
            /\ order_books' = [order_books EXCEPT ![symbol][u.side] = [levels EXCEPT ![i].amount = u.amount]]
  <2>1. levels[i].amount \in Nat
    <3> HIDE DEF levels, i
    <3> QED
      BY <1>3, <1>4, <1>13, PricesOf
  <2> DEFINE d == levels[i].amount - u.amount
  <2>2. d \in Nat /\ Record(symbol, "Execute", u.side, u.price, d) /\ -d = u.amount - levels[i].amount
    <3>1. Record(symbol, "Execute", u.side, u.price, d)
      BY <1>13 DEF generate_reduce_event
    <3> HIDE DEF u, symbol, i, levels
    <3>2. d \in Nat /\ -d = u.amount - levels[i].amount
      BY <1>2, <1>13, <2>1
    <3> QED
      BY <3>1, <3>2
  <2> HIDE DEF u, symbol, i, levels, d
  <2> QED
    BY <1>11, <1>13, <2>2
<1>14. i > 0 => i # 0
  <2> HIDE DEF i
  <2> QED
    OBVIOUS
<1> QED
  <2>1. \/ UNCHANGED <<order_books, order_id_counter, events>>
        \/ i = 0 /\ u.amount > 0 /\ generate_add_event(symbol, u.side, u.price, u.amount)
           /\ order_books' = [order_books EXCEPT ![symbol][u.side] = Insert(levels, u.side, l)]
        \/ i > 0 /\ u.amount = 0 /\ generate_cancel_event(symbol, u.side, u.price, levels[i].amount)
           /\ order_books' = [order_books EXCEPT ![symbol][u.side] = RemoveAt(levels, i)]
        \/ i > 0 /\ u.amount > levels[i].amount
           /\ generate_add_event(symbol, u.side, u.price, u.amount - levels[i].amount)
           /\ order_books' = [order_books EXCEPT ![symbol][u.side] = [levels EXCEPT ![i].amount = u.amount]]
        \/ i > 0 /\ 0 < u.amount /\ u.amount < levels[i].amount
           /\ generate_reduce_event(symbol, u.side, u.price, levels[i].amount - u.amount)
           /\ order_books' = [order_books EXCEPT ![symbol][u.side] = [levels EXCEPT ![i].amount = u.amount]]
    BY Zenon DEF process_side_updates
  <2> HIDE DEF symbol, u, levels, i, evs, l
  <2> QED
    BY <2>1, <1>8, <1>9, <1>10, <1>12, <1>13, <1>14

\* Every step of the engine keeps the invariant.
LEMMA EngineSteps == EngineInv /\ [EngineNext]_evars => EngineInv'
<1> SUFFICES ASSUME EngineInv, [EngineNext]_evars PROVE EngineInv'
  OBVIOUS
<1>1. ASSUME NEW t \in EngineThreads, NEW symbol \in Symbols, NEW is_snapshot \in BOOLEAN, NEW side \in Sides,
             NEW p \in Prices, NEW a \in Amounts,
             process_l2_update(t, symbol, is_snapshot, <<[side |-> side, price |-> p, amount |-> a]>>)
      PROVE  EngineInv'
  <2> DEFINE levels == <<[side |-> side, price |-> p, amount |-> a]>>
  <2>1. levels \in Seq(Todo)
    BY DEF Todo
  <2> HIDE DEF levels
  <2> QED
    BY <1>1, <2>1, process_l2_updateKeeps DEF levels
<1>2. ASSUME NEW t \in EngineThreads, ReturnEvents(t) PROVE EngineInv'
  <2>1. EngineShape'
    <3>1. Resting \in [symbol : Symbols \cup {"none"}, todo : Seq(Todo)] /\ Resting.todo = <<>>
      BY DEF Resting
    <3> QED
      BY <1>2, <3>1 DEF EngineInv, EngineShape, ReturnEvents
  <2>2. UNCHANGED <<order_books, events>>
    BY <1>2 DEF ReturnEvents
  <2> QED
    BY <2>1, <2>2 DEF EngineInv
<1>3. CASE UNCHANGED evars
  <2>1. UNCHANGED <<order_books, order_id_counter, working, events, l2_updates>>
    BY <1>3 DEF evars
  <2>2. EngineShape'
    BY <2>1 DEF EngineInv, EngineShape
  <2> QED
    BY <2>1, <2>2 DEF EngineInv
<1> QED
  BY <1>1, <1>2, <1>3, process_side_updatesKeeps DEF EngineNext

\* EventsTellBook is the second half of it.
LEMMA EngineInvImplies == EngineInv => EventsTellBook
<1> SUFFICES ASSUME EngineInv, NEW s \in Symbols, NEW side \in Sides
             PROVE  LET levels == order_books[s][side] IN
                      /\ SortedLevels(side, levels)
                      /\ \A i \in 1 .. Len(levels) : Told(s, side, levels[i].price) = levels[i].amount
                      /\ \A price \in Prices :
                           (\A i \in 1 .. Len(levels) : levels[i].price # price) => Told(s, side, price) = 0
  BY DEF EventsTellBook
<1>1. TellsSide(events[s], order_books[s][side], side)
  BY DEF EngineInv
<1>2. \A price : Told(s, side, price) = ToldIn(events[s], side, price)
  BY DEF Told, ToldIn
<1> QED
  BY <1>1, <1>2 DEF TellsSide

\* Whatever the threads, symbols, prices and amounts: the L3 events of a symbol
\* (process_l2_update), added up, are the levels of its L2 book, and each side is sorted.
THEOREM EventsAlwaysTell == EngineSpec => []EventsTellBook
<1> QED
  BY EngineStarts, EngineSteps, EngineInvImplies, PTL DEF EngineSpec

--------------------------------------------------------------------------------
(* Connections: the attempts of RobustConnectionManager.                   *)

\* RobustConnectionManager on its own.
RobustSpec == RobustInit /\ [][RobustNext]_rcvars

\* The type of what a task does.
Doing == [doing : {"ask", "record", "connect", "connected"}, until : Nat]

\* The types of the variables.
RobustShape ==
    /\ tick \in Nat /\ attempts \in Seq(Nat) /\ attempted \in Seq(Nat)
    /\ active_connections \in Nat
    /\ connector \in [Connectors -> Doing]
    /\ established \in [made : Nat, lost : Nat]

\* The times are in order, none of them to come.
InOrder(times) ==
    /\ \A i, j \in DOMAIN times : i <= j => times[i] <= times[j]
    /\ \A i \in DOMAIN times : times[i] <= tick

\* What is remembered are the attempts but for the first d, which are out of the window.
Remembered(d) ==
    /\ Len(attempted) = d + Len(attempts)
    /\ \A k \in 1 .. Len(attempts) : attempts[k] = attempted[d + k]
    /\ \A i \in 1 .. d : tick - attempted[i] >= AttemptWindow

\* The attempts from the i-th on that are in its window.
WindowOf(i) == {j \in i .. Len(attempted) : attempted[j] - attempted[i] < AttemptWindow}

\* The attempts of the window that runs, and those still to record, are not more than the
\* tasks beyond what is allowed; who is told to sleep is told so by an attempt behind which
\* there are as many as are allowed.
RobustInv ==
    /\ RobustShape
    /\ InOrder(attempted)
    /\ \E d \in Nat : Remembered(d)
    /\ \A i \in DOMAIN attempted : tick - attempted[i] < AttemptWindow =>
         Len(attempted) - i + 1 + Holding("record") <= MaxAttempts - 1 + Cardinality(Connectors)
    /\ \A i \in DOMAIN attempted : Cardinality(WindowOf(i)) < MaxAttempts + Cardinality(Connectors)
    /\ \A c \in Connectors : connector[c].until > tick =>
         \E h \in DOMAIN attempted : /\ connector[c].until = attempted[h] + AttemptWindow
                                     /\ Len(attempted) - h + 1 >= MaxAttempts
    /\ active_connections = established.made + Holding("connect")
    /\ established.made = established.lost + Holding("connected")

\* retain drops the first attempts, those out of the window.
LEMMA RecentIs ==
    ASSUME tick \in Nat, NEW times \in Seq(Nat), NEW n, n = Len(times), InOrder(times)
    PROVE  \E m \in 0 .. n :
             /\ Recent(times) \in Seq(Nat) /\ Len(Recent(times)) = n - m
             /\ \A k \in 1 .. n - m : Recent(times)[k] = times[m + k]
             /\ \A i \in 1 .. m : tick - times[i] >= AttemptWindow
             /\ \A i \in m + 1 .. n : tick - times[i] < AttemptWindow
<1> DEFINE old == {i \in DOMAIN times : tick - times[i] >= AttemptWindow}
           new == (1 .. n) \ old
<1>1. n \in Nat /\ DOMAIN times = 1 .. n /\ \A i \in 1 .. n : times[i] \in Nat
  BY LenProperties, ElementOfSeq
<1>2. AttemptWindow \in Nat
  BY ControlAssumption DEF ControlAssumption
<1>3. PICK m \in 0 .. n : old = 1 .. m
  <2>1. CASE new = {}
    BY <1>1, <2>1
  <2>2. CASE new # {}
    <3>1. new \subseteq Nat
      BY <1>1
    <3> HIDE DEF new
    <3>2. PICK k \in new : \A j \in new : k <= j
      BY <2>2, <3>1, LeastCounterexample
    <3> USE DEF new
    <3>3. k \in 1 .. n /\ ~(tick - times[k] >= AttemptWindow)
      BY <1>1, <3>2
    <3>4. ASSUME NEW i \in 1 .. n PROVE i \in old <=> i <= k - 1
      <4>1. CASE i <= k - 1
        <5>1. i \notin new
          BY <3>2, <3>3, <4>1
        <5> QED
          BY <4>1, <5>1
      <4>2. CASE ~(i <= k - 1)
        <5>0. k <= i /\ k \in DOMAIN times /\ i \in DOMAIN times
          BY <1>1, <3>3, <4>2
        <5>1. times[k] <= times[i]
          BY <5>0 DEF InOrder
        <5>2. times[i] \in Nat /\ times[k] \in Nat
          BY <1>1, <3>3
        <5> QED
          BY <1>1, <1>2, <3>3, <4>2, <5>1, <5>2
      <4> QED
        BY <4>1, <4>2
    <3>5. old = 1 .. k - 1 /\ k - 1 \in 0 .. n
      BY <1>1, <3>3, <3>4
    <3> QED
      BY <3>5
  <2> QED
    BY <2>1, <2>2
<1>4. \A i \in 1 .. n : i <= m <=> tick - times[i] >= AttemptWindow
  BY <1>1, <1>3
<1>5. Cardinality(old) = m
  <2>1. Cardinality(1 .. m) = m
    BY <1>1, FS_Interval
  <2> QED
    BY <1>3, <2>1
<1>6. Recent(times) = SubSeq(times, m + 1, n)
  BY <1>5 DEF Recent
<1> HIDE DEF old
<1>7. Recent(times) \in Seq(Nat) /\ Len(Recent(times)) = n - m
      /\ \A k \in 1 .. n - m : Recent(times)[k] = times[m + k]
  <2>1. \A j \in m + 1 .. n : times[j] \in Nat
    BY <1>1
  <2> DEFINE s == SubSeq(times, m + 1, n)
  <2>2. s \in Seq(Nat) /\ Len(s) = (IF m + 1 <= n THEN n - (m + 1) + 1 ELSE 0)
        /\ \A k \in 1 .. n - (m + 1) + 1 : s[k] = times[(m + 1) + k - 1]
    BY <1>1, <2>1, SubSeqProperties
  <2> HIDE DEF s
  <2>3. Len(s) = n - m /\ \A k \in 1 .. n - m : s[k] = times[m + k]
    <3>1. \A k \in 1 .. n - m : (m + 1) + k - 1 = m + k /\ k \in 1 .. n - (m + 1) + 1
      BY <1>1
    <3> QED
      BY <1>1, <2>2, <3>1
  <2> QED
    BY <1>6, <2>2, <2>3 DEF s
<1>8. /\ \A i \in 1 .. m : tick - times[i] >= AttemptWindow
      /\ \A i \in m + 1 .. n : tick - times[i] < AttemptWindow
  <2>1. ASSUME NEW i \in m + 1 .. n PROVE tick - times[i] < AttemptWindow
    <3>1. i \in 1 .. n /\ ~(i <= m) /\ times[i] \in Nat
      BY <1>1
    <3> QED
      BY <1>2, <1>4, <3>1
  <2> QED
    BY <1>1, <1>4, <2>1
<1> QED
  BY <1>7, <1>8

\* A task that goes from one thing to another.
LEMMA HoldingMoves ==
    ASSUME NEW c \in Connectors, \A q \in Connectors \ {c} : connector'[q] = connector[q], NEW d
    PROVE  /\ Holding(d) \in Nat /\ Holding(d)' \in Nat /\ Holding(d)' <= Cardinality(Connectors)
           /\ connector[c].doing = d /\ connector'[c].doing # d => Holding(d)' = Holding(d) - 1
           /\ connector[c].doing # d /\ connector'[c].doing = d => Holding(d)' = Holding(d) + 1
           /\ connector[c].doing # d /\ connector'[c].doing # d => Holding(d)' = Holding(d)
<1> DEFINE F == {q \in Connectors : connector[q].doing = d}
           G == {q \in Connectors : connector'[q].doing = d}
<1>1. IsFiniteSet(Connectors) /\ F \in SUBSET Connectors /\ G \in SUBSET Connectors
  BY ControlAssumption DEF ControlAssumption
<1>2. IsFiniteSet(F) /\ IsFiniteSet(G) /\ Cardinality(G) <= Cardinality(Connectors)
  BY <1>1, FS_Subset
<1>3. Cardinality(F) \in Nat /\ Cardinality(G) \in Nat
  BY <1>2, FS_CardinalityType
<1>4. connector[c].doing = d /\ connector'[c].doing # d => Cardinality(G) = Cardinality(F) - 1
  <2> SUFFICES ASSUME connector[c].doing = d, connector'[c].doing # d PROVE Cardinality(G) = Cardinality(F) - 1
    OBVIOUS
  <2>1. G = F \ {c} /\ c \in F
    OBVIOUS
  <2> HIDE DEF F, G
  <2> QED
    BY <1>2, <2>1, FS_RemoveElement
<1>5. connector[c].doing # d /\ connector'[c].doing = d => Cardinality(G) = Cardinality(F) + 1
  <2> SUFFICES ASSUME connector[c].doing # d, connector'[c].doing = d PROVE Cardinality(G) = Cardinality(F) + 1
    OBVIOUS
  <2>1. G = F \cup {c} /\ c \notin F
    OBVIOUS
  <2> HIDE DEF F, G
  <2> QED
    BY <1>2, <2>1, FS_AddElement
<1>6. connector[c].doing # d /\ connector'[c].doing # d => G = F
  OBVIOUS
<1>7. Holding(d) = Cardinality(F) /\ Holding(d)' = Cardinality(G)
  BY DEF Holding
<1> HIDE DEF F, G
<1> QED
  BY <1>2, <1>3, <1>4, <1>5, <1>6, <1>7

LEMMA RobustStarts == RobustInit => RobustInv
<1> SUFFICES ASSUME RobustInit PROVE RobustInv
  OBVIOUS
<1>1. /\ tick = 0 /\ attempts = <<>> /\ attempted = <<>> /\ active_connections = 0
      /\ connector = [c \in Connectors |-> Asking] /\ established = [made |-> 0, lost |-> 0]
  BY DEF RobustInit
<1>2. Asking \in Doing /\ Asking.doing = "ask" /\ Asking.until = 0
  BY DEF Asking, Doing
<1>3. RobustShape
  BY <1>1, <1>2 DEF RobustShape
<1>4. DOMAIN attempted = {} /\ Len(attempted) = 0 /\ Len(attempts) = 0
  BY <1>1
<1>5. Remembered(0)
  BY <1>4 DEF Remembered
<1>6. \A c \in Connectors : ~(connector[c].until > tick)
  BY <1>1, <1>2
<1>7. Holding("connect") = 0 /\ Holding("connected") = 0
  <2>1. {c \in Connectors : connector[c].doing = "connect"} = {} /\ {c \in Connectors : connector[c].doing = "connected"} = {}
    BY <1>1, <1>2
  <2> QED
    BY <2>1, FS_EmptySet DEF Holding
<1>8. InOrder(attempted)
  BY <1>4 DEF InOrder
<1>9. established.made = 0 /\ established.lost = 0
  BY <1>1
<1> QED
  BY <1>1, <1>3, <1>4, <1>5, <1>6, <1>7, <1>8, <1>9 DEF RobustInv

LEMMA ClockTicksKeeps == ASSUME RobustInv, ClockTicks PROVE RobustInv'
<1>1. tick' = tick + 1 /\ UNCHANGED <<attempts, active_connections, connector, attempted, established>>
  BY DEF ClockTicks
<1>2. RobustShape /\ InOrder(attempted) /\ AttemptWindow \in Nat
  BY ControlAssumption DEF RobustInv, ControlAssumption
<1>3. tick \in Nat /\ attempted \in Seq(Nat) /\ (\A i \in DOMAIN attempted : attempted[i] \in Nat)
      /\ \A c \in Connectors : connector[c].until \in Nat
  BY <1>2, ElementOfSeq DEF RobustShape, Doing
<1>4. RobustShape'
  BY <1>1, <1>2 DEF RobustShape
<1>5. InOrder(attempted)'
  BY <1>1, <1>2, <1>3 DEF InOrder
<1>6. Holding("record")' = Holding("record") /\ Holding("connect")' = Holding("connect") /\ Holding("connected")' = Holding("connected")
  BY <1>1 DEF Holding
<1>7. \E d \in Nat : Remembered(d)'
  <2>1. PICK d \in Nat : Remembered(d)
    BY DEF RobustInv
  <2>2. \A i \in 1 .. d : i \in DOMAIN attempted
    <3>1. DOMAIN attempted = 1 .. Len(attempted) /\ Len(attempts) \in Nat
      BY <1>2, LenProperties DEF RobustShape
    <3> QED
      BY <2>1, <3>1 DEF Remembered
  <2>3. \A i \in 1 .. d : tick + 1 - attempted[i] >= AttemptWindow
    BY <1>2, <1>3, <2>1, <2>2 DEF Remembered
  <2>4. \A i \in 1 .. d : tick' - attempted'[i] >= AttemptWindow
    <3> TAKE i \in 1 .. d
    <3>1. tick' = tick + 1 /\ attempted'[i] = attempted[i] /\ attempted[i] \in Nat
      BY <1>1, <1>3, <2>2
    <3>2. tick + 1 - attempted[i] >= AttemptWindow
      BY <2>3
    <3> QED
      BY <1>2, <1>3, <3>1, <3>2
  <2>5. /\ Len(attempted') = d + Len(attempts')
        /\ \A k \in 1 .. Len(attempts') : attempts'[k] = attempted'[d + k]
    BY <1>1, <2>1 DEF Remembered
  <2>6. Remembered(d)'
    BY <2>4, <2>5 DEF Remembered
  <2> QED
    BY <2>6
<1>8. \A i \in DOMAIN attempted : tick' - attempted[i] < AttemptWindow => tick - attempted[i] < AttemptWindow
  BY <1>1, <1>2, <1>3
<1>9. \A c \in Connectors : connector[c].until > tick' => connector[c].until > tick
  BY <1>1, <1>3
<1>10. \A i : WindowOf(i)' = WindowOf(i)
  BY <1>1 DEF WindowOf
<1>11. \A i \in DOMAIN attempted' : tick' - attempted'[i] < AttemptWindow =>
         Len(attempted') - i + 1 + Holding("record")' <= MaxAttempts - 1 + Cardinality(Connectors)
  BY <1>1, <1>6, <1>8 DEF RobustInv
<1>12. \A i \in DOMAIN attempted' : Cardinality(WindowOf(i)') < MaxAttempts + Cardinality(Connectors)
  BY <1>1, <1>10 DEF RobustInv
<1>13. \A c \in Connectors : connector'[c].until > tick' =>
         \E h \in DOMAIN attempted' : /\ connector'[c].until = attempted'[h] + AttemptWindow
                                      /\ Len(attempted') - h + 1 >= MaxAttempts
  BY <1>1, <1>9 DEF RobustInv
<1> QED
  BY <1>1, <1>4, <1>5, <1>6, <1>7, <1>11, <1>12, <1>13 DEF RobustInv

\* What the invariant says of the numbers, for a step of task c that leaves the clock.
LEMMA RobustFacts ==
    ASSUME RobustInv
    PROVE  /\ RobustShape /\ InOrder(attempted)
           /\ AttemptWindow \in Nat /\ MaxAttempts \in Nat /\ MaxAttempts >= 1 /\ AttemptWindow >= 1
           /\ Cardinality(Connectors) \in Nat
           /\ Len(attempted) \in Nat /\ DOMAIN attempted = 1 .. Len(attempted)
           /\ \A i \in DOMAIN attempted : attempted[i] \in Nat
           /\ Len(attempts) \in Nat /\ DOMAIN attempts = 1 .. Len(attempts)
<1>1. RobustShape /\ InOrder(attempted)
  BY DEF RobustInv
<1>2. Cardinality(Connectors) \in Nat
  BY ControlAssumption, FS_CardinalityType DEF ControlAssumption
<1>3. AttemptWindow \in Nat /\ MaxAttempts \in Nat /\ MaxAttempts >= 1 /\ AttemptWindow >= 1
  BY ControlAssumption DEF ControlAssumption
<1>4. attempted \in Seq(Nat) /\ attempts \in Seq(Nat)
  BY <1>1 DEF RobustShape
<1> QED
  BY <1>1, <1>2, <1>3, <1>4, LenProperties, ElementOfSeq

\* What is remembered is in order, being the end of what was attempted.
LEMMA RememberedInOrder ==
    ASSUME RobustInv, NEW d \in Nat, Remembered(d)
    PROVE  InOrder(attempts)
<1> DEFINE n == Len(attempted)
<1>1. /\ InOrder(attempted) /\ n \in Nat /\ DOMAIN attempted = 1 .. n
      /\ Len(attempts) \in Nat /\ DOMAIN attempts = 1 .. Len(attempts)
  BY RobustFacts
<1>2. PICK l \in Nat : l = Len(attempts)
  BY <1>1
<1>3. n = d + l /\ \A k \in 1 .. l : attempts[k] = attempted[d + k]
  BY <1>2 DEF Remembered
<1> HIDE DEF n
<1>4. ASSUME NEW i \in 1 .. l, NEW j \in 1 .. l, i <= j PROVE attempts[i] <= attempts[j]
  <2>1. d + i \in 1 .. n /\ d + j \in 1 .. n /\ d + i <= d + j
    BY <1>3, <1>4
  <2>2. attempted[d + i] <= attempted[d + j]
    BY <1>1, <2>1 DEF InOrder
  <2> QED
    BY <1>3, <2>2
<1>5. ASSUME NEW i \in 1 .. l PROVE attempts[i] <= tick
  <2>1. d + i \in 1 .. n
    BY <1>3
  <2>2. attempted[d + i] <= tick
    BY <1>1, <2>1 DEF InOrder
  <2> QED
    BY <1>3, <2>2
<1> QED
  BY <1>1, <1>2, <1>4, <1>5 DEF InOrder

LEMMA can_connectKeeps == ASSUME RobustInv, NEW c \in Connectors, can_connect(c) PROVE RobustInv'
<1> DEFINE now == Recent(attempts)
           n == Len(attempted)
           passes == Len(attempts') < MaxAttempts
<1>1. /\ connector[c].doing = "ask" /\ attempts' = now
      /\ connector' = [connector EXCEPT ![c] =
           IF Len(attempts') < MaxAttempts THEN [doing |-> "record", until |-> 0]
           ELSE [doing |-> "ask", until |-> tick + time_until_next_attempt(attempts')]]
      /\ UNCHANGED <<tick, active_connections, attempted, established>>
  BY DEF can_connect
<1>2. /\ RobustShape /\ InOrder(attempted)
      /\ AttemptWindow \in Nat /\ MaxAttempts \in Nat /\ MaxAttempts >= 1
      /\ Cardinality(Connectors) \in Nat
      /\ n \in Nat /\ DOMAIN attempted = 1 .. n
      /\ \A i \in 1 .. n : attempted[i] \in Nat
  BY RobustFacts
<1>3. attempts \in Seq(Nat) /\ Len(attempts) \in Nat /\ DOMAIN attempts = 1 .. Len(attempts) /\ tick \in Nat
      /\ connector \in [Connectors -> Doing]
  BY <1>2, LenProperties DEF RobustShape
<1>4. PICK d \in Nat : Remembered(d)
  BY DEF RobustInv
<1>5. PICK l \in Nat : l = Len(attempts)
  BY <1>3
<1>6. /\ n = d + l
      /\ \A k \in 1 .. l : attempts[k] = attempted[d + k]
      /\ \A i \in 1 .. d : tick - attempted[i] >= AttemptWindow
  BY <1>4, <1>5 DEF Remembered
<1>7. InOrder(attempts)
  BY <1>4, RememberedInOrder
<1>8. PICK m \in 0 .. l :
        /\ now \in Seq(Nat) /\ Len(now) = l - m
        /\ \A k \in 1 .. l - m : now[k] = attempts[m + k]
        /\ \A i \in 1 .. m : tick - attempts[i] >= AttemptWindow
        /\ \A i \in m + 1 .. l : tick - attempts[i] < AttemptWindow
  BY <1>3, <1>5, <1>7, RecentIs
<1> HIDE DEF now, n, passes
<1>9. Remembered(d + m)'
  <2>1. Len(attempted') = (d + m) + Len(attempts')
    BY <1>1, <1>6, <1>8 DEF n
  <2>2. \A k \in 1 .. Len(attempts') : attempts'[k] = attempted'[(d + m) + k]
    <3> TAKE k \in 1 .. Len(attempts')
    <3>1. k \in 1 .. l - m /\ m + k \in 1 .. l /\ d + (m + k) = (d + m) + k
      BY <1>1, <1>8
    <3> QED
      BY <1>1, <1>6, <1>8, <3>1
  <2>3. \A i \in 1 .. d + m : tick' - attempted'[i] >= AttemptWindow
    <3> TAKE i \in 1 .. d + m
    <3>1. CASE i <= d
      BY <1>1, <1>6, <3>1
    <3>2. CASE ~(i <= d)
      <4>1. i - d \in 1 .. m /\ i - d \in 1 .. l /\ d + (i - d) = i
        BY <1>8, <3>2
      <4>2. attempts[i - d] = attempted[i]
        BY <1>6, <4>1
      <4> QED
        BY <1>1, <1>8, <4>1, <4>2
    <3> QED
      BY <3>1, <3>2
  <2> QED
    BY <2>1, <2>2, <2>3 DEF Remembered
<1>10. \A i \in 1 .. n : tick - attempted[i] < AttemptWindow => i > d + m
  <2>1. \A i \in 1 .. d + m : tick - attempted[i] >= AttemptWindow
    BY <1>1, <1>9 DEF Remembered
  <2> QED
    BY <1>2, <1>3, <1>8, <2>1
<1>11. Len(attempts') = n - (d + m)
  BY <1>1, <1>6, <1>8
<1>12. time_until_next_attempt(attempts') = AttemptWindow - (tick - attempts'[1])
  BY <1>1, <1>8 DEF time_until_next_attempt
<1>13. ~passes => /\ d + m + 1 \in 1 .. n
                  /\ connector'[c] = [doing |-> "ask", until |-> attempted[d + m + 1] + AttemptWindow]
                  /\ n - (d + m + 1) + 1 >= MaxAttempts
  <2> SUFFICES ASSUME ~passes
               PROVE  /\ d + m + 1 \in 1 .. n
                      /\ connector'[c] = [doing |-> "ask", until |-> attempted[d + m + 1] + AttemptWindow]
                      /\ n - (d + m + 1) + 1 >= MaxAttempts
    OBVIOUS
  <2>1. d + m + 1 \in 1 .. n /\ n - (d + m + 1) + 1 >= MaxAttempts
    BY <1>2, <1>8, <1>11 DEF passes
  <2>2. attempts'[1] = attempted[d + m + 1]
    <3>1. 1 \in 1 .. l - m /\ m + 1 \in 1 .. l /\ d + (m + 1) = d + m + 1
      BY <1>2, <1>6, <1>8, <2>1
    <3> QED
      BY <1>1, <1>6, <1>8, <3>1
  <2>3. tick + (AttemptWindow - (tick - attempted[d + m + 1])) = attempted[d + m + 1] + AttemptWindow
    BY <1>2, <1>3, <2>1
  <2>4. connector'[c] = [doing |-> "ask", until |-> tick + time_until_next_attempt(attempts')]
    BY <1>1, <1>3 DEF passes
  <2> QED
    BY <1>12, <2>1, <2>2, <2>3, <2>4
<1>14. passes => connector'[c] = [doing |-> "record", until |-> 0]
  BY <1>1, <1>3 DEF passes
<1>15. /\ connector' \in [Connectors -> Doing]
       /\ \A q \in Connectors \ {c} : connector'[q] = connector[q]
       /\ connector'[c].doing \in {"ask", "record"} /\ (connector'[c].doing = "record" => passes)
  <2>1. connector'[c] \in Doing /\ connector'[c].doing \in {"ask", "record"} /\ (connector'[c].doing = "record" => passes)
    <3>1. CASE passes
      BY <1>14, <3>1 DEF Doing
    <3>2. CASE ~passes
      <4>1. attempted[d + m + 1] + AttemptWindow \in Nat
        BY <1>2, <1>13, <3>2
      <4> QED
        BY <1>13, <3>2, <4>1 DEF Doing
    <3> QED
      BY <3>1, <3>2
  <2>2. \A q \in Connectors \ {c} : connector'[q] = connector[q]
    BY <1>1, <1>3
  <2>3. connector' = [q \in Connectors |-> connector'[q]]
    BY <1>1, <1>3
  <2> QED
    BY <1>3, <2>1, <2>2, <2>3
<1>16. Holding("connect")' = Holding("connect") /\ Holding("connected")' = Holding("connected")
  <2>1. connector[c].doing # "connect" /\ connector'[c].doing # "connect"
    BY <1>1, <1>15
  <2>2. connector[c].doing # "connected" /\ connector'[c].doing # "connected"
    BY <1>1, <1>15
  <2>3. Holding("connect")' = Holding("connect")
    BY <1>15, <2>1, HoldingMoves
  <2>4. Holding("connected")' = Holding("connected")
    BY <1>15, <2>2, HoldingMoves
  <2> QED
    BY <2>3, <2>4
<1>17. /\ Holding("record") \in Nat /\ Holding("record")' \in Nat
       /\ Holding("record")' <= Cardinality(Connectors)
       /\ ~passes => Holding("record")' = Holding("record")
  <2>1. /\ Holding("record") \in Nat /\ Holding("record")' \in Nat
        /\ Holding("record")' <= Cardinality(Connectors)
    BY <1>15, HoldingMoves
  <2>2. ASSUME ~passes PROVE Holding("record")' = Holding("record")
    <3>1. connector[c].doing # "record" /\ connector'[c].doing # "record"
      BY <1>1, <1>15, <2>2
    <3> QED
      BY <1>15, <3>1, HoldingMoves
  <2> QED
    BY <2>1, <2>2
<1>18. \A i \in 1 .. n : tick - attempted[i] < AttemptWindow =>
         n - i + 1 + Holding("record")' <= MaxAttempts - 1 + Cardinality(Connectors)
  <2> SUFFICES ASSUME NEW i \in 1 .. n, tick - attempted[i] < AttemptWindow
               PROVE  n - i + 1 + Holding("record")' <= MaxAttempts - 1 + Cardinality(Connectors)
    OBVIOUS
  <2>1. CASE passes
    <3>1. i > d + m /\ n - (d + m) < MaxAttempts
      BY <1>10, <1>11, <2>1 DEF passes
    <3>2. n - i + 1 <= MaxAttempts - 1
      BY <1>2, <1>8, <3>1
    <3> QED
      BY <1>2, <1>17, <3>2
  <2>2. CASE ~passes
    BY <1>2, <1>17, <2>2 DEF RobustInv, n
  <2> QED
    BY <2>1, <2>2
<1>19. ASSUME NEW q \in Connectors, connector'[q].until > tick
       PROVE  \E h \in 1 .. n : connector'[q].until = attempted[h] + AttemptWindow /\ n - h + 1 >= MaxAttempts
  <2>1. CASE q # c
    BY <1>2, <1>15, <1>19, <2>1 DEF RobustInv, n
  <2>2. CASE q = c
    <3>1. ~passes
      <4>1. passes => connector'[c].until = 0
        BY <1>14
      <4> QED
        BY <1>3, <1>19, <2>2, <4>1
    <3>2. connector'[q].until = attempted[d + m + 1] + AttemptWindow
      BY <1>13, <2>2, <3>1
    <3> QED
      BY <1>13, <3>1, <3>2
  <2> QED
    BY <2>1, <2>2
<1>20. RobustShape'
  BY <1>1, <1>2, <1>8, <1>15 DEF RobustShape
<1>21. InOrder(attempted)' /\ \A i : WindowOf(i)' = WindowOf(i)
  BY <1>1, <1>2 DEF InOrder, WindowOf
<1>22. \A i \in 1 .. n : Cardinality(WindowOf(i)') < MaxAttempts + Cardinality(Connectors)
  BY <1>2, <1>21 DEF RobustInv
<1>23. /\ active_connections' = established'.made + Holding("connect")'
       /\ established'.made = established'.lost + Holding("connected")'
  BY <1>1, <1>16 DEF RobustInv
<1>24. \E b \in Nat : Remembered(b)'
  <2>1. d + m \in Nat
    BY <1>8
  <2> QED
    BY <1>9, <2>1
<1>25. n = Len(attempted') /\ DOMAIN attempted' = 1 .. n /\ attempted' = attempted /\ tick' = tick
  BY <1>1, <1>2 DEF n
<1> QED
  BY <1>18, <1>19, <1>20, <1>21, <1>22, <1>23, <1>24, <1>25 DEF RobustInv
\* What a task does changes to d, the task no longer sleeps.
LEMMA TurnsTo ==
    ASSUME RobustInv, NEW c \in Connectors, NEW d \in {"ask", "record", "connect", "connected"},
           \A q \in Connectors \ {c} : connector'[q] = connector[q],
           connector' \in [Connectors -> Doing], tick' = tick, connector'[c].doing = d,
           connector'[c].until <= tick
    PROVE  \A q \in Connectors : connector'[q].until > tick' =>
             /\ connector[q].until > tick /\ connector'[q] = connector[q]
<1>1. tick \in Nat /\ \A q \in Connectors : connector'[q].until \in Nat
  BY DEF RobustInv, RobustShape, Doing
<1> TAKE q \in Connectors
<1>2. CASE q = c
  BY <1>1, <1>2
<1>3. CASE q # c
  BY <1>3
<1> QED
  BY <1>2, <1>3

\* A step of a task that neither asks nor records an attempt.
LEMMA AnsweredKeeps ==
    ASSUME RobustInv, NEW c \in Connectors, NEW d \in {"ask", "connected"},
           connector[c].doing \in {"connect", "connected"},
           connector' = [connector EXCEPT ![c] = [doing |-> d, until |-> 0]],
           tick' = tick, attempts' = attempts, attempted' = attempted,
           active_connections' \in Nat, established' \in [made : Nat, lost : Nat],
           active_connections' = established'.made + Holding("connect")',
           established'.made = established'.lost + Holding("connected")'
    PROVE  RobustInv'
<1>1. RobustShape /\ InOrder(attempted) /\ tick \in Nat /\ Len(attempted) \in Nat
  BY RobustFacts DEF RobustShape
<1>2. connector \in [Connectors -> Doing]
  BY <1>1 DEF RobustShape
<1>3. connector' \in [Connectors -> Doing]
  <2>1. [doing |-> d, until |-> 0] \in Doing
    BY DEF Doing
  <2> QED
    BY <1>2, <2>1
<1>4. \A q \in Connectors \ {c} : connector'[q] = connector[q]
  BY <1>2
<1>5. connector'[c].doing = d /\ connector'[c].until = 0
  BY <1>2
<1>6. \A q \in Connectors : connector'[q].until > tick' =>
             /\ connector[q].until > tick /\ connector'[q] = connector[q]
  <2>1. connector'[c].until <= tick
    BY <1>1, <1>5
  <2> QED
    BY <1>3, <1>4, <1>5, <2>1, TurnsTo
<1>7. Holding("record")' = Holding("record")
  <2>1. connector[c].doing # "record" /\ connector'[c].doing # "record"
    BY <1>5
  <2> QED
    BY <1>4, <2>1, HoldingMoves
<1>8. RobustShape'
  BY <1>1, <1>3 DEF RobustShape
<1>9. InOrder(attempted)' /\ (\A i : WindowOf(i)' = WindowOf(i)) /\ (\A d1 : Remembered(d1)' = Remembered(d1))
  BY <1>1 DEF InOrder, WindowOf, Remembered
<1>10. \E d1 \in Nat : Remembered(d1)'
  BY <1>9 DEF RobustInv
<1>11. \A i \in DOMAIN attempted' : tick' - attempted'[i] < AttemptWindow =>
         Len(attempted') - i + 1 + Holding("record")' <= MaxAttempts - 1 + Cardinality(Connectors)
  BY <1>7 DEF RobustInv
<1>12. \A i \in DOMAIN attempted' : Cardinality(WindowOf(i)') < MaxAttempts + Cardinality(Connectors)
  BY <1>9 DEF RobustInv
<1>13. \A q \in Connectors : connector'[q].until > tick' =>
         \E h \in DOMAIN attempted' : /\ connector'[q].until = attempted'[h] + AttemptWindow
                                      /\ Len(attempted') - h + 1 >= MaxAttempts
  BY <1>6 DEF RobustInv
<1> QED
  BY <1>8, <1>9, <1>10, <1>11, <1>12, <1>13 DEF RobustInv

LEMMA record_connection_successKeeps ==
    ASSUME RobustInv, NEW c \in Connectors, record_connection_success(c) PROVE RobustInv'
<1>1. /\ connector[c].doing = "connect"
      /\ established' = [established EXCEPT !.made = established.made + 1]
      /\ connector' = [connector EXCEPT ![c] = [doing |-> "connected", until |-> 0]]
      /\ UNCHANGED <<tick, attempts, active_connections, attempted>>
  <2>1. [Asking EXCEPT !.doing = "connected"] = [doing |-> "connected", until |-> 0]
    BY DEF Asking
  <2> QED
    BY <2>1 DEF record_connection_success
<1>2. /\ connector \in [Connectors -> Doing] /\ established \in [made : Nat, lost : Nat]
      /\ active_connections \in Nat
  BY DEF RobustInv, RobustShape
<1>3. /\ established' \in [made : Nat, lost : Nat]
      /\ established'.made = established.made + 1 /\ established'.lost = established.lost
  BY <1>1, <1>2
<1>4. \A q \in Connectors \ {c} : connector'[q] = connector[q]
  BY <1>1, <1>2
<1>5. connector'[c].doing = "connected"
  BY <1>1, <1>2
<1>6. Holding("connect") \in Nat /\ Holding("connect")' = Holding("connect") - 1
  BY <1>1, <1>4, <1>5, HoldingMoves
<1>7. Holding("connected") \in Nat /\ Holding("connected")' = Holding("connected") + 1
  BY <1>1, <1>4, <1>5, HoldingMoves
<1>8. /\ active_connections = established.made + Holding("connect")
      /\ established.made = established.lost + Holding("connected")
  BY DEF RobustInv
<1>9. /\ active_connections' = established'.made + Holding("connect")'
      /\ established'.made = established'.lost + Holding("connected")'
  BY <1>1, <1>2, <1>3, <1>6, <1>7, <1>8
<1> QED
  BY <1>1, <1>2, <1>3, <1>9, AnsweredKeeps

LEMMA record_connection_failureKeeps ==
    ASSUME RobustInv, NEW c \in Connectors, record_connection_failure(c) PROVE RobustInv'
<1>1. /\ connector[c].doing = "connect"
      /\ active_connections' = IF active_connections = 0 THEN 0 ELSE active_connections - 1
      /\ connector' = [connector EXCEPT ![c] = [doing |-> "ask", until |-> 0]]
      /\ UNCHANGED <<tick, attempts, attempted, established>>
  BY DEF record_connection_failure, Asking
<1>2. /\ connector \in [Connectors -> Doing] /\ established \in [made : Nat, lost : Nat]
      /\ active_connections \in Nat
  BY DEF RobustInv, RobustShape
<1>4. \A q \in Connectors \ {c} : connector'[q] = connector[q]
  BY <1>1, <1>2
<1>5. connector'[c].doing = "ask"
  BY <1>1, <1>2
<1>6. Holding("connect") \in Nat /\ Holding("connect")' \in Nat /\ Holding("connect")' = Holding("connect") - 1
  BY <1>1, <1>4, <1>5, HoldingMoves
<1>7. Holding("connected")' = Holding("connected")
  BY <1>1, <1>4, <1>5, HoldingMoves
<1>8. /\ active_connections = established.made + Holding("connect")
      /\ established.made = established.lost + Holding("connected")
  BY DEF RobustInv
<1>9. /\ active_connections' = established'.made + Holding("connect")'
      /\ established'.made = established'.lost + Holding("connected")'
      /\ active_connections' \in Nat
  <2>1. established.made \in Nat /\ established' = established
    BY <1>1, <1>2
  <2>2. active_connections' = active_connections - 1 /\ active_connections >= 1
    BY <1>1, <1>2, <1>6, <1>8, <2>1
  <2> QED
    BY <1>2, <1>6, <1>7, <1>8, <2>1, <2>2
<1> QED
  BY <1>1, <1>2, <1>9, AnsweredKeeps

LEMMA ConnectionLostKeeps ==
    ASSUME RobustInv, NEW c \in Connectors, ConnectionLost(c) PROVE RobustInv'
<1>1. /\ connector[c].doing = "connected"
      /\ established' = [established EXCEPT !.lost = established.lost + 1]
      /\ connector' = [connector EXCEPT ![c] = [doing |-> "ask", until |-> 0]]
      /\ UNCHANGED <<tick, attempts, active_connections, attempted>>
  BY DEF ConnectionLost, Asking
<1>2. /\ connector \in [Connectors -> Doing] /\ established \in [made : Nat, lost : Nat]
      /\ active_connections \in Nat
  BY DEF RobustInv, RobustShape
<1>3. /\ established' \in [made : Nat, lost : Nat]
      /\ established'.made = established.made /\ established'.lost = established.lost + 1
  BY <1>1, <1>2
<1>4. \A q \in Connectors \ {c} : connector'[q] = connector[q]
  BY <1>1, <1>2
<1>5. connector'[c].doing = "ask"
  BY <1>1, <1>2
<1>6. Holding("connect")' = Holding("connect")
  BY <1>1, <1>4, <1>5, HoldingMoves
<1>7. Holding("connected") \in Nat /\ Holding("connected")' = Holding("connected") - 1
  BY <1>1, <1>4, <1>5, HoldingMoves
<1>8. /\ active_connections = established.made + Holding("connect")
      /\ established.made = established.lost + Holding("connected")
  BY DEF RobustInv
<1>9. /\ active_connections' = established'.made + Holding("connect")'
      /\ established'.made = established'.lost + Holding("connected")'
  BY <1>1, <1>2, <1>3, <1>6, <1>7, <1>8
<1> QED
  BY <1>1, <1>2, <1>3, <1>9, AnsweredKeeps
\* An attempt is recorded behind the others.
LEMMA record_connection_attemptKeeps ==
    ASSUME RobustInv, NEW c \in Connectors, record_connection_attempt(c) PROVE RobustInv'
<1> DEFINE n == Len(attempted)
           C == Cardinality(Connectors)
<1>1. /\ connector[c].doing = "record"
      /\ attempts' = Append(attempts, tick) /\ attempted' = Append(attempted, tick)
      /\ active_connections' = active_connections + 1
      /\ connector' = [connector EXCEPT ![c].doing = "connect"]
      /\ UNCHANGED <<tick, established>>
  BY DEF record_connection_attempt
<1>2. /\ RobustShape /\ InOrder(attempted)
      /\ AttemptWindow \in Nat /\ MaxAttempts \in Nat /\ MaxAttempts >= 1 /\ AttemptWindow >= 1
      /\ C \in Nat /\ n \in Nat /\ DOMAIN attempted = 1 .. n
      /\ \A i \in 1 .. n : attempted[i] \in Nat
  BY RobustFacts
<1>3. /\ attempts \in Seq(Nat) /\ attempted \in Seq(Nat) /\ tick \in Nat /\ active_connections \in Nat
      /\ Len(attempts) \in Nat /\ connector \in [Connectors -> Doing]
  BY <1>2, LenProperties DEF RobustShape
<1>4. /\ attempted' \in Seq(Nat) /\ Len(attempted') = n + 1 /\ attempted'[n + 1] = tick
      /\ \A i \in 1 .. n : attempted'[i] = attempted[i]
      /\ DOMAIN attempted' = 1 .. n + 1
  <2>1. attempted' \in Seq(Nat) /\ Len(attempted') = n + 1
    BY <1>1, <1>3, AppendProperties
  <2>2. attempted'[n + 1] = tick /\ \A i \in 1 .. n : attempted'[i] = attempted[i]
    BY <1>1, <1>3, AppendProperties
  <2>3. DOMAIN attempted' = 1 .. n + 1
    BY <2>1, LenProperties
  <2> QED
    BY <2>1, <2>2, <2>3
<1>5. PICK l \in Nat : l = Len(attempts)
  BY <1>3
<1>6. /\ attempts' \in Seq(Nat) /\ Len(attempts') = l + 1 /\ attempts'[l + 1] = tick
      /\ \A i \in 1 .. l : attempts'[i] = attempts[i]
  <2>1. attempts' \in Seq(Nat) /\ Len(attempts') = l + 1
    BY <1>1, <1>3, <1>5, AppendProperties
  <2>2. attempts'[l + 1] = tick /\ \A i \in 1 .. l : attempts'[i] = attempts[i]
    BY <1>1, <1>3, <1>5, AppendProperties
  <2> QED
    BY <2>1, <2>2
<1>7. /\ connector' \in [Connectors -> Doing]
      /\ \A q \in Connectors \ {c} : connector'[q] = connector[q]
      /\ connector'[c].doing = "connect"
      /\ \A q \in Connectors : connector'[q].until = connector[q].until
  <2>1. connector'[c] = [connector[c] EXCEPT !.doing = "connect"] /\ connector[c] \in Doing
    BY <1>1, <1>3
  <2>2. connector'[c] \in Doing /\ connector'[c].doing = "connect" /\ connector'[c].until = connector[c].until
    BY <2>1 DEF Doing
  <2>3. \A q \in Connectors \ {c} : connector'[q] = connector[q]
    BY <1>1, <1>3
  <2>4. connector' \in [Connectors -> Doing]
    BY <1>1, <1>3, <2>1, <2>2
  <2> QED
    BY <2>2, <2>3, <2>4
<1>8. /\ Holding("record") \in Nat /\ Holding("record") <= C
      /\ Holding("record")' = Holding("record") - 1 /\ Holding("record")' \in Nat
  <2>1. connector'[c].doing # "record"
    BY <1>7
  <2>2. /\ Holding("record") \in Nat /\ Holding("record")' = Holding("record") - 1
        /\ Holding("record")' \in Nat /\ IsFiniteSet(Connectors)
    BY <1>1, <1>7, <2>1, HoldingMoves, ControlAssumption DEF ControlAssumption
  <2>3. Holding("record") <= C
    <3>1. {q \in Connectors : connector[q].doing = "record"} \in SUBSET Connectors
      OBVIOUS
    <3> QED
      BY <2>2, <3>1, FS_Subset DEF Holding
  <2> QED
    BY <2>2, <2>3
<1>9. Holding("connect") \in Nat /\ Holding("connect")' = Holding("connect") + 1
  BY <1>1, <1>7, HoldingMoves
<1>10. Holding("connected")' = Holding("connected")
  BY <1>1, <1>7, HoldingMoves
<1> HIDE DEF n, C
<1>11. RobustShape'
  BY <1>1, <1>2, <1>3, <1>4, <1>6, <1>7 DEF RobustShape
<1>12. InOrder(attempted)'
  <2>1. ASSUME NEW i \in 1 .. n + 1, NEW j \in 1 .. n + 1, i <= j PROVE attempted'[i] <= attempted'[j]
    <3>1. CASE j = n + 1
      <4>1. CASE i = n + 1
        BY <1>3, <1>4, <3>1, <4>1
      <4>2. CASE i # n + 1
        <5>1. i \in 1 .. n
          BY <1>2, <4>2
        <5> QED
          BY <1>2, <1>4, <3>1, <5>1 DEF InOrder
      <4> QED
        BY <4>1, <4>2
    <3>2. CASE j # n + 1
      <4>1. j \in 1 .. n /\ i \in 1 .. n
        BY <1>2, <2>1, <3>2
      <4> QED
        BY <1>2, <1>4, <2>1, <4>1 DEF InOrder
    <3> QED
      BY <3>1, <3>2
  <2>2. ASSUME NEW i \in 1 .. n + 1 PROVE attempted'[i] <= tick'
    <3>1. CASE i = n + 1
      BY <1>1, <1>3, <1>4, <3>1
    <3>2. CASE i # n + 1
      <4>1. i \in 1 .. n
        BY <1>2, <3>2
      <4> QED
        BY <1>1, <1>2, <1>4, <4>1 DEF InOrder
    <3> QED
      BY <3>1, <3>2
  <2> QED
    BY <1>4, <2>1, <2>2 DEF InOrder
<1>13. \E d \in Nat : Remembered(d)'
  <2>1. PICK d \in Nat : Remembered(d)
    BY DEF RobustInv
  <2>2. /\ n = d + l
        /\ \A k \in 1 .. l : attempts[k] = attempted[d + k]
        /\ \A i \in 1 .. d : tick - attempted[i] >= AttemptWindow
    BY <1>5, <2>1 DEF Remembered, n
  <2>3. Len(attempted') = d + Len(attempts')
    BY <1>4, <1>6, <2>2
  <2>4. \A k \in 1 .. Len(attempts') : attempts'[k] = attempted'[d + k]
    <3> TAKE k \in 1 .. Len(attempts')
    <3>1. CASE k = l + 1
      <4>1. d + k = n + 1
        BY <2>2, <3>1
      <4> QED
        BY <1>4, <1>6, <3>1, <4>1
    <3>2. CASE k # l + 1
      <4>1. k \in 1 .. l /\ d + k \in 1 .. n
        BY <1>6, <2>2, <3>2
      <4> QED
        BY <1>4, <1>6, <2>2, <4>1
    <3> QED
      BY <3>1, <3>2
  <2>5. \A i \in 1 .. d : tick' - attempted'[i] >= AttemptWindow
    <3> TAKE i \in 1 .. d
    <3>1. i \in 1 .. n
      BY <2>2
    <3> QED
      BY <1>1, <1>4, <2>2, <3>1
  <2>6. Remembered(d)'
    BY <2>3, <2>4, <2>5 DEF Remembered
  <2> QED
    BY <2>6
<1>14. \A i \in 1 .. n + 1 : tick - attempted'[i] < AttemptWindow =>
         (n + 1) - i + 1 + Holding("record")' <= MaxAttempts - 1 + C
  <2> SUFFICES ASSUME NEW i \in 1 .. n + 1, tick - attempted'[i] < AttemptWindow
               PROVE  (n + 1) - i + 1 + Holding("record")' <= MaxAttempts - 1 + C
    OBVIOUS
  <2>1. CASE i = n + 1
    BY <1>2, <1>8, <2>1
  <2>2. CASE i # n + 1
    <3>1. i \in 1 .. n /\ tick - attempted[i] < AttemptWindow
      BY <1>2, <1>4, <2>2
    <3>2. n - i + 1 + Holding("record") <= MaxAttempts - 1 + C
      BY <1>2, <3>1 DEF RobustInv, n, C
    <3> QED
      BY <1>2, <1>8, <3>1, <3>2
  <2> QED
    BY <2>1, <2>2
<1>15. \A i \in 1 .. n + 1 : Cardinality(WindowOf(i)') < MaxAttempts + C
  <2> TAKE i \in 1 .. n + 1
  <2>1. WindowOf(i)' = {j \in i .. n + 1 : attempted'[j] - attempted'[i] < AttemptWindow}
    BY <1>4 DEF WindowOf
  <2>2. CASE tick - attempted'[i] < AttemptWindow
    <3>1. (n + 1) - i + 1 + Holding("record")' <= MaxAttempts - 1 + C
      BY <1>14, <2>2
    <3>2. IsFiniteSet(i .. n + 1) /\ Cardinality(i .. n + 1) = (n + 1) - i + 1
      BY <1>2, FS_Interval
    <3>3. Cardinality(WindowOf(i)') <= Cardinality(i .. n + 1) /\ Cardinality(WindowOf(i)') \in Nat
      <4>1. WindowOf(i)' \in SUBSET (i .. n + 1)
        BY <2>1
      <4>2. IsFiniteSet(WindowOf(i)') /\ Cardinality(WindowOf(i)') <= Cardinality(i .. n + 1)
        BY <3>2, <4>1, FS_Subset
      <4> QED
        BY <4>2, FS_CardinalityType
    <3> QED
      BY <1>2, <1>8, <3>1, <3>2, <3>3
  <2>3. CASE ~(tick - attempted'[i] < AttemptWindow)
    <3>1. i \in 1 .. n
      <4>1. i # n + 1
        BY <1>2, <1>3, <1>4, <2>3
      <4> QED
        BY <1>2, <4>1
    <3>2. WindowOf(i) = {j \in i .. n : attempted[j] - attempted[i] < AttemptWindow}
      BY DEF WindowOf, n
    <3>3. WindowOf(i)' = WindowOf(i)
      <4>1. ASSUME NEW j \in i .. n + 1, attempted'[j] - attempted'[i] < AttemptWindow
            PROVE  j \in i .. n /\ attempted[j] - attempted[i] < AttemptWindow
        <5>1. j # n + 1
          BY <1>4, <2>3, <4>1
        <5>2. j \in i .. n /\ j \in 1 .. n
          BY <1>2, <5>1
        <5> QED
          BY <1>4, <3>1, <4>1, <5>2
      <4>2. ASSUME NEW j \in i .. n, attempted[j] - attempted[i] < AttemptWindow
            PROVE  j \in i .. n + 1 /\ attempted'[j] - attempted'[i] < AttemptWindow
        <5>1. j \in i .. n + 1 /\ j \in 1 .. n
          BY <1>2
        <5> QED
          BY <1>4, <3>1, <4>2, <5>1
      <4> QED
        BY <2>1, <3>2, <4>1, <4>2
    <3> QED
      BY <1>2, <3>1, <3>3 DEF RobustInv, C
  <2> QED
    BY <2>2, <2>3
<1>16. \A q \in Connectors : connector'[q].until > tick' =>
         \E h \in 1 .. n + 1 : /\ connector'[q].until = attempted'[h] + AttemptWindow
                               /\ (n + 1) - h + 1 >= MaxAttempts
  <2> SUFFICES ASSUME NEW q \in Connectors, connector'[q].until > tick'
               PROVE  \E h \in 1 .. n + 1 : /\ connector'[q].until = attempted'[h] + AttemptWindow
                                            /\ (n + 1) - h + 1 >= MaxAttempts
    OBVIOUS
  <2>1. connector'[q].until = connector[q].until /\ connector[q].until > tick
    BY <1>1, <1>7
  <2>2. PICK h \in 1 .. n : connector[q].until = attempted[h] + AttemptWindow /\ n - h + 1 >= MaxAttempts
    BY <1>2, <2>1 DEF RobustInv, n
  <2>3. h \in 1 .. n + 1 /\ (n + 1) - h + 1 >= MaxAttempts
    BY <1>2, <2>2
  <2>4. connector'[q].until = attempted'[h] + AttemptWindow
    BY <1>4, <2>1, <2>2
  <2> QED
    BY <2>3, <2>4
<1>17. /\ active_connections' = established'.made + Holding("connect")'
       /\ established'.made = established'.lost + Holding("connected")'
  <2>1. established' = established /\ established.made \in Nat
    BY <1>1, <1>2 DEF RobustShape
  <2>2. active_connections = established.made + Holding("connect") /\ established.made = established.lost + Holding("connected")
    BY DEF RobustInv
  <2>3. established'.made = established'.lost + Holding("connected")'
    BY <1>10, <2>1, <2>2
  <2>4. active_connections' = established.made + Holding("connect") + 1
    BY <1>1, <2>2
  <2>5. active_connections' = established.made + Holding("connect")'
    BY <1>9, <2>1, <2>4
  <2> QED
    BY <2>1, <2>3, <2>5
<1>18. \A i \in DOMAIN attempted' : tick' - attempted'[i] < AttemptWindow =>
         Len(attempted') - i + 1 + Holding("record")' <= MaxAttempts - 1 + Cardinality(Connectors)
  BY <1>1, <1>4, <1>14 DEF C
<1>19. \A i \in DOMAIN attempted' : Cardinality(WindowOf(i)') < MaxAttempts + Cardinality(Connectors)
  BY <1>4, <1>15 DEF C
<1>20. \A q \in Connectors : connector'[q].until > tick' =>
         \E h \in DOMAIN attempted' : /\ connector'[q].until = attempted'[h] + AttemptWindow
                                      /\ Len(attempted') - h + 1 >= MaxAttempts
  BY <1>4, <1>16
<1> QED
  BY <1>11, <1>12, <1>13, <1>17, <1>18, <1>19, <1>20 DEF RobustInv
LEMMA RobustSteps == RobustInv /\ [RobustNext]_rcvars => RobustInv'
<1> SUFFICES ASSUME RobustInv, [RobustNext]_rcvars PROVE RobustInv'
  OBVIOUS
<1>1. CASE UNCHANGED rcvars
  BY <1>1 DEF rcvars, RobustInv, RobustShape, InOrder, Remembered, WindowOf, Holding
<1>2. CASE ClockTicks
  BY <1>2, ClockTicksKeeps
<1>3. ASSUME NEW c \in Connectors,
             \/ can_connect(c) \/ record_connection_attempt(c)
             \/ record_connection_success(c) \/ record_connection_failure(c) \/ ConnectionLost(c)
      PROVE  RobustInv'
  BY <1>3, can_connectKeeps, record_connection_attemptKeeps, record_connection_successKeeps,
     record_connection_failureKeeps, ConnectionLostKeeps
<1> QED
  BY <1>1, <1>2, <1>3 DEF RobustNext

\* Who still sleeps is behind so many attempts that are remembered.
LEMMA SleepersWaitForRoom ==
    ASSUME RobustInv, NEW c \in Connectors, connector[c].until > tick
    PROVE  Len(Recent(attempts)) >= MaxAttempts
<1> DEFINE n == Len(attempted)
<1>1. /\ AttemptWindow \in Nat /\ MaxAttempts \in Nat /\ n \in Nat /\ DOMAIN attempted = 1 .. n
      /\ \A i \in 1 .. n : attempted[i] \in Nat
      /\ Len(attempts) \in Nat
  BY RobustFacts
<1>2. tick \in Nat /\ attempts \in Seq(Nat)
  BY DEF RobustInv, RobustShape
<1>3. PICK h \in 1 .. n : connector[c].until = attempted[h] + AttemptWindow /\ n - h + 1 >= MaxAttempts
  BY <1>1 DEF RobustInv
<1>4. PICK d \in Nat : Remembered(d)
  BY DEF RobustInv
<1>5. PICK l \in Nat : l = Len(attempts)
  BY <1>1
<1>6. /\ n = d + l
      /\ \A k \in 1 .. l : attempts[k] = attempted[d + k]
      /\ \A i \in 1 .. d : tick - attempted[i] >= AttemptWindow
  BY <1>4, <1>5 DEF Remembered
<1>7. InOrder(attempts)
  BY <1>4, RememberedInOrder
<1> DEFINE now == Recent(attempts)
<1>8. PICK m \in 0 .. l :
        /\ Len(now) = l - m
        /\ \A i \in 1 .. m : tick - attempts[i] >= AttemptWindow
  BY <1>2, <1>5, <1>7, RecentIs
<1> HIDE DEF now, n
<1>9. ~(tick - attempted[h] >= AttemptWindow)
  BY <1>1, <1>2, <1>3
<1>10. ~(h <= d)
  BY <1>6, <1>9
<1>11. h - d \in 1 .. l /\ d + (h - d) = h
  BY <1>1, <1>6, <1>10
<1>12. ~(h - d <= m)
  <2>1. attempts[h - d] = attempted[h]
    BY <1>6, <1>11
  <2>2. h - d <= m => h - d \in 1 .. m
    BY <1>8, <1>11
  <2> QED
    BY <1>8, <1>9, <2>1, <2>2
<1>13. Len(now) >= MaxAttempts
  <2>1. n - h + 1 >= MaxAttempts /\ n = d + l /\ Len(now) = l - m
    BY <1>3, <1>6, <1>8
  <2>2. h - d >= m + 1
    BY <1>11, <1>12
  <2>3. l - m >= n - h + 1
    <3>1. n = d + l
      BY <2>1
    <3> QED
      BY <2>2, <3>1
  <2> QED
    BY <1>1, <2>1, <2>3
<1> QED
  BY <1>13 DEF now

--------------------------------------------------------------------------------
(* The rounds of UnifiedExchangeManager::run.                              *)

\* The loop on its own.
UnifiedSpec == UnifiedInit /\ [][UnifiedNext]_uvars

\* The connects that have failed since the last that did not are those of the failed rounds
\* and of the round that runs; the delay is as many steps long as there were failed rounds,
\* at a wait one less as long as it has not been drawn out.
UnifiedInv ==
    /\ unifiedAt \in {"loop", "connect", "subscribe", "start", "wait", "stopped", "gave up"}
    /\ attempt \in Nat /\ consecutive_failures \in Nat /\ reconnect_delay \in Nat /\ missed \in Nat
    /\ attempt <= ConnectAttempts /\ reconnect_delay <= DelayCap
    /\ unifiedAt = "gave up" => consecutive_failures = MaxFailures
    /\ unifiedAt # "gave up" => consecutive_failures < MaxFailures
    /\ unifiedAt = "connect" =>
         attempt >= 1 /\ missed = consecutive_failures * ConnectAttempts + (attempt - 1)
    /\ unifiedAt # "connect" => missed = consecutive_failures * ConnectAttempts
    /\ unifiedAt \in {"subscribe", "start"} => consecutive_failures = 0 /\ reconnect_delay = 0
    /\ unifiedAt \in {"loop", "connect"} =>
         /\ reconnect_delay <= consecutive_failures + 1
         /\ reconnect_delay >= DelayCap \/ reconnect_delay >= consecutive_failures
    /\ unifiedAt = "wait" =>
         /\ reconnect_delay <= consecutive_failures
         /\ reconnect_delay >= DelayCap \/ reconnect_delay >= consecutive_failures - 1

\* What is assumed of the numbers.
LEMMA ControlNumbers ==
    /\ ConnectAttempts \in Nat /\ ConnectAttempts >= 1 /\ MaxFailures \in Nat /\ MaxFailures >= 1
    /\ DelayCap \in Nat
BY ControlAssumption DEF ControlAssumption

\* One more time k.
LEMMA OneMoreTime ==
    ASSUME NEW a \in Nat, NEW k \in Nat
    PROVE  a * k \in Nat /\ (a + 1) * k = a * k + k /\ 0 * k = 0
OBVIOUS

\* More times k are at least so much more.
LEMMA TimesGrow ==
    ASSUME NEW a \in Nat, NEW b \in Nat, NEW k \in Nat, a < b
    PROVE  a * k + k <= b * k
<1>1. b - a - 1 \in Nat
  OBVIOUS
<1>2. PICK x \in Nat : x = b - a - 1
  BY <1>1
<1>3. b = (a + 1) + x
  BY <1>2
<1>4. ((a + 1) + x) * k = (a + 1) * k + x * k
  OBVIOUS
<1>5. x * k \in Nat /\ (a + 1) * k = a * k + k /\ a * k \in Nat
  OBVIOUS
<1> QED
  BY <1>3, <1>4, <1>5

LEMMA UnifiedStarts == UnifiedInit => UnifiedInv
BY ControlNumbers, OneMoreTime DEF UnifiedInit, UnifiedInv

LEMMA ConnectFailedKeeps == ASSUME UnifiedInv, ConnectFailed PROVE UnifiedInv'
<1>1. /\ unifiedAt = "connect" /\ missed' = missed + 1 /\ reconnect_delay' = reconnect_delay
      /\ attempt \in Nat /\ consecutive_failures \in Nat /\ reconnect_delay \in Nat /\ missed \in Nat
      /\ attempt <= ConnectAttempts /\ reconnect_delay <= DelayCap
      /\ consecutive_failures < MaxFailures
      /\ attempt >= 1
      /\ reconnect_delay <= consecutive_failures + 1
      /\ reconnect_delay >= DelayCap \/ reconnect_delay >= consecutive_failures
  BY DEF ConnectFailed, UnifiedInv
<1>4. missed = consecutive_failures * ConnectAttempts + (attempt - 1)
  BY DEF ConnectFailed, UnifiedInv
<1>2. CASE attempt < ConnectAttempts
  <2>1. attempt' = attempt + 1 /\ unifiedAt' = "connect" /\ consecutive_failures' = consecutive_failures
    BY <1>1, <1>2 DEF ConnectFailed
  <2>2. missed' = consecutive_failures * ConnectAttempts + (attempt' - 1)
    <3>1. consecutive_failures * ConnectAttempts \in Nat
      BY <1>1, ControlNumbers, OneMoreTime
    <3> QED
      BY <1>1, <1>4, <2>1, <3>1
  <2>3. attempt' \in Nat /\ missed' \in Nat /\ attempt' >= 1 /\ attempt' <= ConnectAttempts
    BY <1>1, <1>2, <2>1, ControlNumbers
  <2> QED
    BY <1>1, <2>1, <2>2, <2>3 DEF UnifiedInv
<1>3. CASE ~(attempt < ConnectAttempts)
  <2>1. attempt' = attempt /\ consecutive_failures' = consecutive_failures + 1
    BY <1>3 DEF ConnectFailed
  <2>7. unifiedAt' = IF consecutive_failures' >= MaxFailures THEN "gave up" ELSE "wait"
    BY <1>3 DEF ConnectFailed
  <2>2. attempt = ConnectAttempts
    BY <1>1, <1>3, ControlNumbers
  <2>3. missed' = consecutive_failures' * ConnectAttempts
    <3>1. /\ consecutive_failures * ConnectAttempts \in Nat
          /\ (consecutive_failures + 1) * ConnectAttempts = consecutive_failures * ConnectAttempts + ConnectAttempts
      BY <1>1, ControlNumbers, OneMoreTime
    <3>2. missed' = consecutive_failures * ConnectAttempts + ConnectAttempts
      BY <1>1, <1>4, <2>2, <3>1, ControlNumbers
    <3> QED
      BY <2>1, <3>1, <3>2
  <2>4. missed' \in Nat /\ consecutive_failures' \in Nat /\ attempt' \in Nat
    <3>1. missed \in Nat /\ consecutive_failures \in Nat /\ attempt \in Nat /\ missed' = missed + 1
      BY <1>1
    <3> QED
      BY <2>1, <3>1
  <2>5. CASE consecutive_failures' >= MaxFailures
    <3>1. unifiedAt' = "gave up"
      BY <2>5, <2>7
    <3>2. consecutive_failures' = MaxFailures
      <4>1. consecutive_failures \in Nat /\ consecutive_failures < MaxFailures
        BY <1>1
      <4> QED
        BY <2>1, <2>5, <4>1, ControlNumbers
    <3> QED
      BY <1>1, <2>1, <2>3, <2>4, <3>1, <3>2 DEF UnifiedInv
  <2>6. CASE ~(consecutive_failures' >= MaxFailures)
    <3>1. unifiedAt' = "wait" /\ consecutive_failures' < MaxFailures
      BY <2>4, <2>6, <2>7, ControlNumbers
    <3>2. /\ reconnect_delay' <= consecutive_failures'
          /\ reconnect_delay' >= DelayCap \/ reconnect_delay' >= consecutive_failures' - 1
      <4>1. /\ consecutive_failures \in Nat /\ reconnect_delay \in Nat /\ reconnect_delay' = reconnect_delay
            /\ reconnect_delay <= consecutive_failures + 1
            /\ reconnect_delay >= DelayCap \/ reconnect_delay >= consecutive_failures
        BY <1>1
      <4>2. consecutive_failures' - 1 = consecutive_failures
        BY <2>1, <4>1
      <4> QED
        BY <2>1, <4>1, <4>2
    <3> QED
      BY <1>1, <2>1, <2>3, <2>4, <3>1, <3>2 DEF UnifiedInv
  <2> QED
    BY <2>5, <2>6
<1> QED
  BY <1>2, <1>3

LEMMA WaitedKeeps == ASSUME UnifiedInv, Waited PROVE UnifiedInv'
<1>1. /\ unifiedAt = "wait" /\ UNCHANGED <<attempt, consecutive_failures, missed>>
      /\ attempt \in Nat /\ consecutive_failures \in Nat /\ reconnect_delay \in Nat /\ missed \in Nat
      /\ attempt <= ConnectAttempts /\ reconnect_delay <= DelayCap
      /\ consecutive_failures < MaxFailures
      /\ missed = consecutive_failures * ConnectAttempts
      /\ reconnect_delay <= consecutive_failures
      /\ reconnect_delay >= DelayCap \/ reconnect_delay >= consecutive_failures - 1
  BY DEF Waited, UnifiedInv
<1>2. CASE /\ unifiedAt' = "loop"
           /\ reconnect_delay' = IF reconnect_delay < DelayCap THEN reconnect_delay + 1 ELSE DelayCap
  <2>1. /\ reconnect_delay' \in Nat /\ reconnect_delay' <= DelayCap
        /\ reconnect_delay' <= consecutive_failures + 1
        /\ reconnect_delay' >= DelayCap \/ reconnect_delay' >= consecutive_failures
    BY <1>1, <1>2, ControlNumbers
  <2> QED
    BY <1>1, <1>2, <2>1 DEF UnifiedInv
<1>3. CASE unifiedAt' = "stopped" /\ reconnect_delay' = reconnect_delay
  BY <1>1, <1>3 DEF UnifiedInv
<1> QED
  BY <1>2, <1>3 DEF Waited

LEMMA UnifiedSteps == UnifiedInv /\ [UnifiedNext]_uvars => UnifiedInv'
<1> SUFFICES ASSUME UnifiedInv, [UnifiedNext]_uvars PROVE UnifiedInv'
  OBVIOUS
<1>1. CASE UNCHANGED uvars
  BY <1>1 DEF uvars, UnifiedInv
<1>2. CASE Signal
  BY <1>2 DEF Signal, UnifiedInv
<1>3. CASE Loop
  <2>1. CASE signalled
    BY <1>3, <2>1 DEF Loop, UnifiedInv
  <2>2. CASE ~signalled
    <3>1. /\ unifiedAt = "loop" /\ unifiedAt' = "connect" /\ attempt' = 1
          /\ UNCHANGED <<consecutive_failures, reconnect_delay, missed>>
      BY <1>3, <2>2 DEF Loop
    <3>2. consecutive_failures * ConnectAttempts \in Nat
      BY ControlNumbers, OneMoreTime DEF UnifiedInv
    <3>3. missed' = consecutive_failures * ConnectAttempts + (attempt' - 1)
      BY <3>1, <3>2 DEF UnifiedInv
    <3> QED
      BY <3>1, <3>3, ControlNumbers DEF UnifiedInv
  <2> QED
    BY <2>1, <2>2
<1>4. CASE Connected
  <2>1. /\ unifiedAt' = "subscribe" /\ attempt' = 1 /\ consecutive_failures' = 0 /\ reconnect_delay' = 0
        /\ missed' = 0
    BY <1>4 DEF Connected
  <2>2. 0 * ConnectAttempts = 0
    BY ControlNumbers, OneMoreTime
  <2>3. /\ attempt' \in Nat /\ consecutive_failures' \in Nat /\ reconnect_delay' \in Nat /\ missed' \in Nat
        /\ attempt' <= ConnectAttempts /\ reconnect_delay' <= DelayCap /\ consecutive_failures' < MaxFailures
        /\ missed' = consecutive_failures' * ConnectAttempts
    BY <2>1, <2>2, ControlNumbers
  <2> QED
    BY <2>1, <2>3 DEF UnifiedInv
<1>5. CASE ConnectFailed
  BY <1>5, ConnectFailedKeeps
<1>6. CASE Subscribed
  BY <1>6 DEF Subscribed, UnifiedInv
<1>7. CASE SubscribeFailed
  <2>1. /\ unifiedAt = "subscribe" /\ unifiedAt' \in {"subscribe", "wait"}
        /\ UNCHANGED <<consecutive_failures, reconnect_delay, missed>>
    BY <1>7 DEF SubscribeFailed
  <2>2. attempt' \in Nat /\ attempt' <= ConnectAttempts
    BY <1>7, ControlNumbers DEF SubscribeFailed, UnifiedInv
  <2>3. /\ consecutive_failures = 0 /\ reconnect_delay = 0 /\ missed = consecutive_failures * ConnectAttempts
        /\ missed \in Nat /\ reconnect_delay <= DelayCap /\ consecutive_failures < MaxFailures
    BY <2>1 DEF UnifiedInv
  <2>4. CASE unifiedAt' = "subscribe"
    BY <2>1, <2>2, <2>3, <2>4 DEF UnifiedInv
  <2>5. CASE unifiedAt' = "wait"
    BY <2>1, <2>2, <2>3, <2>5 DEF UnifiedInv
  <2> QED
    BY <2>1, <2>4, <2>5
<1>8. CASE StartReturned
  BY <1>8 DEF StartReturned, UnifiedInv
<1>9. CASE Waited
  BY <1>9, WaitedKeeps
<1> QED
  BY <1>1, <1>2, <1>3, <1>4, <1>5, <1>6, <1>7, <1>8, <1>9 DEF UnifiedNext

\* run gives up after so many rounds of so many connects, neither before nor later.
LEMMA GivesUpInTime == UnifiedInv => (unifiedAt = "gave up" <=> missed = MaxFailures * ConnectAttempts)
<1> SUFFICES ASSUME UnifiedInv PROVE unifiedAt = "gave up" <=> missed = MaxFailures * ConnectAttempts
  OBVIOUS
<1>1. unifiedAt = "gave up" => missed = MaxFailures * ConnectAttempts
  BY DEF UnifiedInv
<1>2. ASSUME unifiedAt # "gave up" PROVE missed < MaxFailures * ConnectAttempts
  <2>1. /\ attempt \in Nat /\ consecutive_failures \in Nat /\ missed \in Nat
        /\ attempt <= ConnectAttempts /\ consecutive_failures < MaxFailures
    BY <1>2 DEF UnifiedInv
  <2> DEFINE a == consecutive_failures * ConnectAttempts
             b == MaxFailures * ConnectAttempts
  <2>2. a + ConnectAttempts <= b /\ a \in Nat /\ b \in Nat
    BY <2>1, ControlNumbers, TimesGrow, OneMoreTime
  <2>3. missed = a \/ missed = a + (attempt - 1)
    BY DEF UnifiedInv
  <2> HIDE DEF a, b
  <2>4. missed < b
    BY <2>1, <2>2, <2>3, ControlNumbers
  <2> QED
    BY <2>4 DEF b
<1>3. ASSUME missed = MaxFailures * ConnectAttempts PROVE unifiedAt = "gave up"
  <2> DEFINE b == MaxFailures * ConnectAttempts
  <2>1. b \in Nat
    BY ControlNumbers, OneMoreTime
  <2>2. unifiedAt # "gave up" => missed < b
    BY <1>2
  <2> HIDE DEF b
  <2>3. missed = b => ~(missed < b)
    BY <2>1
  <2> QED
    BY <1>3, <2>2, <2>3 DEF b
<1> QED
  BY <1>1, <1>3

\* Whose delay is so long.
LEMMA DelayIsOfTheFailures ==
    ASSUME UnifiedInv, unifiedAt = "wait"
    PROVE  /\ missed = consecutive_failures * ConnectAttempts
           /\ reconnect_delay <= consecutive_failures
           /\ reconnect_delay >= (IF consecutive_failures > DelayCap THEN DelayCap
                                  ELSE IF consecutive_failures = 0 THEN 0 ELSE consecutive_failures - 1)
<1>1. /\ consecutive_failures \in Nat /\ reconnect_delay \in Nat
      /\ missed = consecutive_failures * ConnectAttempts
      /\ reconnect_delay <= consecutive_failures
      /\ reconnect_delay >= DelayCap \/ reconnect_delay >= consecutive_failures - 1
  BY DEF UnifiedInv
<1>2. reconnect_delay >= (IF consecutive_failures > DelayCap THEN DelayCap
                          ELSE IF consecutive_failures = 0 THEN 0 ELSE consecutive_failures - 1)
  BY <1>1, ControlNumbers
<1> QED
  BY <1>1, <1>2

--------------------------------------------------------------------------------
(* The types, component by component.                                      *)

\* Levels of a book have prices and amounts, threads a symbol, and no more updates begin
\* than the bound allows.
LEMMA EngineTypes == EngineSpec => []EngineTypeOK
<1> DEFINE Counted == l2_updates \in 0 .. MaxL2Updates
<1>1. EngineInit => Counted
  BY EngineAssumption DEF EngineInit
<1>2. Counted /\ [EngineNext]_evars => Counted'
  <2> SUFFICES ASSUME Counted, [EngineNext]_evars PROVE Counted'
    OBVIOUS
  <2>1. ASSUME NEW t \in EngineThreads, NEW symbol, NEW is_snapshot, NEW levels,
               process_l2_update(t, symbol, is_snapshot, levels)
        PROVE  Counted'
    BY <2>1, EngineAssumption DEF process_l2_update
  <2>2. ASSUME NEW t \in EngineThreads, process_side_updates(t) \/ ReturnEvents(t) PROVE Counted'
    BY <2>2 DEF process_side_updates, ReturnEvents
  <2>3. CASE UNCHANGED evars
    BY <2>3 DEF evars
  <2> QED
    BY <2>1, <2>2, <2>3 DEF EngineNext
<1>3. EngineInv /\ Counted => EngineTypeOK
  <2> SUFFICES ASSUME EngineInv, Counted PROVE EngineTypeOK
    OBVIOUS
  <2>1. ASSUME NEW s \in Symbols, NEW side \in Sides, NEW i \in DOMAIN order_books[s][side]
        PROVE  order_books[s][side][i] \in [price : Prices, amount : Amounts \ {0}]
    <3>1. order_books[s][side] \in Seq(BookLevel)
      BY DEF EngineInv, EngineShape
    <3>2. PICK levels \in Seq(BookLevel) : levels = order_books[s][side]
      BY <3>1
    <3>3. i \in 1 .. Len(levels)
      BY <3>2
    <3>4. levels[i] \in BookLevel
      BY <3>3
    <3> QED
      BY <3>2, <3>4 DEF BookLevel
  <2>2. order_id_counter \in Nat /\ \A t \in EngineThreads : working[t].symbol \in Symbols \cup {"none"}
    BY DEF EngineInv, EngineShape
  <2> QED
    BY <2>1, <2>2 DEF EngineTypeOK
<1> QED
  BY <1>1, <1>2, <1>3, EngineStarts, EngineSteps, PTL DEF EngineSpec

\* The rounds of run and what it counts stay within its limits.
LEMMA UnifiedTypes == UnifiedSpec => []UnifiedTypeOK
<1> DEFINE Counted == unifiedRounds \in 0 .. MaxUnifiedRounds
<1>1. UnifiedInit => Counted
  BY ControlAssumption DEF UnifiedInit, ControlAssumption
<1>2. Counted /\ [UnifiedNext]_uvars => Counted'
  <2> SUFFICES ASSUME Counted, [UnifiedNext]_uvars PROVE Counted'
    OBVIOUS
  <2>1. CASE Loop
    BY <2>1, ControlAssumption DEF Loop, ControlAssumption
  <2>2. CASE ~Loop
    BY <2>2 DEF UnifiedNext, uvars, Signal, Connected, ConnectFailed, Subscribed, SubscribeFailed, StartReturned, Waited
  <2> QED
    BY <2>1, <2>2
<1>3. UnifiedInv /\ Counted => UnifiedTypeOK
  <2> SUFFICES ASSUME UnifiedInv, Counted PROVE UnifiedTypeOK
    OBVIOUS
  <2>1. attempt \in 0 .. ConnectAttempts /\ reconnect_delay \in 0 .. DelayCap
    <3>1. attempt \in Nat /\ reconnect_delay \in Nat /\ attempt <= ConnectAttempts /\ reconnect_delay <= DelayCap
      BY Zenon DEF UnifiedInv
    <3> QED
      BY <3>1, ControlNumbers
  <2>2. consecutive_failures \in 0 .. MaxFailures
    <3>1. consecutive_failures \in Nat /\ (consecutive_failures = MaxFailures \/ consecutive_failures < MaxFailures)
      BY DEF UnifiedInv
    <3> QED
      BY <3>1, ControlNumbers
  <2>3. unifiedAt \in {"loop", "connect", "subscribe", "start", "wait", "stopped", "gave up"}
    BY DEF UnifiedInv
  <2> QED
    BY <2>1, <2>2, <2>3 DEF UnifiedTypeOK
<1> QED
  BY <1>1, <1>2, <1>3, UnifiedStarts, UnifiedSteps, PTL DEF UnifiedSpec

\* ConnectionManager on its own.
PoolSpec == PoolInit /\ [][PoolNext]_pmvars

\* Connections in the map have numbers that were given out, and one that is connected says
\* since when.
PoolEntry == [is_connected : BOOLEAN, last_connected : Nat, last_message : Nat,
              reconnect_attempts : 0 .. MaxErrors, errors : 0 .. MaxErrors]
PoolInv ==
    /\ connection_count \in Nat /\ poolTime \in 0 .. MaxTicks
    /\ DOMAIN pool \subseteq 1 .. connection_count
    /\ \A i \in DOMAIN pool : /\ pool[i] \in PoolEntry
                              /\ pool[i].is_connected => pool[i].last_connected # Never

\* A connection whose entry is replaced by one as good.
LEMMA UpdateKeeps ==
    ASSUME PoolInv, NEW i, NEW status, Update(i, status),
           i \in DOMAIN pool => status \in PoolEntry /\ (status.is_connected => status.last_connected # Never)
    PROVE  PoolInv'
<1>1. UNCHANGED <<connection_count, poolTime>> /\ DOMAIN pool' = DOMAIN pool
  BY DEF Update
<1>2. ASSUME NEW j \in DOMAIN pool'
      PROVE  pool'[j] \in PoolEntry /\ (pool'[j].is_connected => pool'[j].last_connected # Never)
  <2>1. CASE i \in DOMAIN pool
    <3>1. pool'[j] = IF j = i THEN status ELSE pool[j]
      BY <1>1, <2>1 DEF Update
    <3> QED
      BY <1>1, <2>1, <3>1 DEF PoolInv
  <2>2. CASE i \notin DOMAIN pool
    BY <2>2 DEF Update, PoolInv
  <2> QED
    BY <2>1, <2>2
<1> QED
  BY <1>1, <1>2 DEF PoolInv, Never

\* Each call of the manager keeps that.
LEMMA PoolSteps == PoolInv /\ [PoolNext]_pmvars => PoolInv'
<1> SUFFICES ASSUME PoolInv, [PoolNext]_pmvars PROVE PoolInv'
  OBVIOUS
<1>1. MaxTicks \in Nat /\ MaxErrors \in Nat
  BY ControlAssumption DEF ControlAssumption
<1>2. CASE PoolTicks
  BY <1>1, <1>2 DEF PoolTicks, PoolInv, Never
<1>3. CASE create_connection
  <2> DEFINE fresh == [is_connected |-> FALSE, last_connected |-> Never, last_message |-> Never,
                       reconnect_attempts |-> 0, errors |-> 0]
  <2>1. fresh \in PoolEntry /\ ~fresh.is_connected
    BY <1>1 DEF PoolEntry, Never
  <2>2. /\ connection_count' = connection_count + 1 /\ poolTime' = poolTime
        /\ pool' = [i \in DOMAIN pool \cup {connection_count'} |-> IF i \in DOMAIN pool THEN pool[i] ELSE fresh]
    BY <1>3 DEF create_connection
  <2> HIDE DEF fresh
  <2>3. DOMAIN pool' \subseteq 1 .. connection_count'
    BY <2>2 DEF PoolInv
  <2>4. \A i \in DOMAIN pool' : pool'[i] \in PoolEntry /\ (pool'[i].is_connected => pool'[i].last_connected # Never)
    BY <2>1, <2>2 DEF PoolInv
  <2>5. connection_count' \in Nat /\ poolTime' \in 0 .. MaxTicks
    BY <2>2 DEF PoolInv
  <2> QED
    BY <2>3, <2>4, <2>5 DEF PoolInv, Never
<1>4. CASE cleanup_dead_connections
  BY <1>4 DEF cleanup_dead_connections, PoolInv, Never
<1>5. ASSUME NEW i \in 1 .. connection_count, NEW is_connected \in BOOLEAN, NEW error \in BOOLEAN,
             i \in DOMAIN pool => pool[i].errors < MaxErrors, update_connection_status(i, is_connected, error)
      PROVE  PoolInv'
  <2> DEFINE up == [pool[i] EXCEPT !.is_connected = TRUE, !.last_connected = poolTime, !.reconnect_attempts = 0]
             cut == [pool[i] EXCEPT !.is_connected = FALSE, !.errors = IF error THEN @ + 1 ELSE @]
  <2>1. i \in DOMAIN pool => up \in PoolEntry /\ up.last_connected # Never
    <3> SUFFICES ASSUME i \in DOMAIN pool PROVE up \in PoolEntry /\ up.last_connected # Never
      OBVIOUS
    <3>1. PICK e \in PoolEntry : e = pool[i]
      BY DEF PoolInv
    <3>2. poolTime \in Nat /\ poolTime # Never /\ 0 \in 0 .. MaxErrors
      BY <1>1 DEF PoolInv, Never
    <3>3. up = [e EXCEPT !.is_connected = TRUE, !.last_connected = poolTime, !.reconnect_attempts = 0]
      BY <3>1
    <3> HIDE DEF up
    <3> QED
      BY <3>2, <3>3 DEF PoolEntry
  <2>2. i \in DOMAIN pool => cut \in PoolEntry /\ ~cut.is_connected
    <3> SUFFICES ASSUME i \in DOMAIN pool PROVE cut \in PoolEntry /\ ~cut.is_connected
      OBVIOUS
    <3>1. PICK e \in PoolEntry : e = pool[i] /\ e.errors < MaxErrors
      BY <1>5 DEF PoolInv
    <3>2. PICK n \in 0 .. MaxErrors : n = IF error THEN e.errors + 1 ELSE e.errors
      BY <1>1, <3>1 DEF PoolEntry
    <3>3. cut = [e EXCEPT !.is_connected = FALSE, !.errors = n]
      BY <3>1, <3>2
    <3> HIDE DEF cut
    <3> QED
      BY <3>3 DEF PoolEntry
  <2>3. Update(i, IF is_connected THEN up ELSE cut)
    BY <1>5 DEF update_connection_status
  <2> HIDE DEF up, cut
  <2> QED
    BY <2>1, <2>2, <2>3, UpdateKeeps
<1>6. ASSUME NEW i \in 1 .. connection_count, record_message(i) PROVE PoolInv'
  <2> DEFINE s == [pool[i] EXCEPT !.last_message = poolTime]
  <2>1. i \in DOMAIN pool => s \in PoolEntry /\ (s.is_connected => s.last_connected # Never)
    BY <1>1 DEF PoolInv, PoolEntry
  <2>2. Update(i, s)
    BY <1>6 DEF record_message
  <2> HIDE DEF s
  <2> QED
    BY <2>1, <2>2, UpdateKeeps
<1>7. ASSUME NEW i \in 1 .. connection_count, i \in DOMAIN pool => pool[i].reconnect_attempts < MaxErrors,
             increment_reconnect_attempts(i)
      PROVE  PoolInv'
  <2> DEFINE s == [pool[i] EXCEPT !.reconnect_attempts = @ + 1]
  <2>1. i \in DOMAIN pool => s \in PoolEntry /\ (s.is_connected => s.last_connected # Never)
    BY <1>1, <1>7 DEF PoolInv, PoolEntry
  <2>2. Update(i, s)
    BY <1>7 DEF increment_reconnect_attempts
  <2> HIDE DEF s
  <2> QED
    BY <2>1, <2>2, UpdateKeeps
<1>8. CASE UNCHANGED pmvars
  BY <1>8 DEF pmvars, PoolInv, Never
<1> QED
  BY <1>2, <1>3, <1>4, <1>5, <1>6, <1>7, <1>8 DEF PoolNext

\* So have the connections of the table their types.
LEMMA PoolTypes == PoolSpec => []PoolTypeOK
<1>1. PoolInit => PoolInv
  BY ControlAssumption DEF PoolInit, PoolInv, ControlAssumption
<1>2. PoolInv => PoolTypeOK
  BY DEF PoolInv, PoolTypeOK, PoolEntry
<1> QED
  BY <1>1, <1>2, PoolSteps, PTL DEF PoolSpec

\* The attempts that are remembered and those still to record are not more than the tasks
\* beyond what is allowed, also before the next call of can_connect forgets the old ones.
RoomInv ==
    /\ tick \in 0 .. MaxTicks
    /\ Len(attempts) + Holding("record") <= MaxAttempts - 1 + Cardinality(Connectors)

\* One call of the manager.
LEMMA RoomSteps == RobustInv /\ RoomInv /\ [RobustNext]_rcvars => RoomInv'
<1> SUFFICES ASSUME RobustInv, RoomInv, [RobustNext]_rcvars PROVE RoomInv'
  OBVIOUS
<1>1. PICK l \in Nat, m \in Nat, k \in Nat : l = Len(attempts) /\ m = MaxAttempts /\ k = Cardinality(Connectors)
  BY RobustFacts
<1>2. attempts \in Seq(Nat) /\ tick \in Nat /\ connector \in [Connectors -> Doing]
  BY DEF RobustInv, RobustShape
<1>3. MaxTicks \in Nat
  BY ControlAssumption DEF ControlAssumption
<1>4. CASE UNCHANGED rcvars
  BY <1>4 DEF rcvars, RoomInv, Holding
<1>5. CASE ClockTicks
  <2>1. tick < MaxTicks /\ tick' = tick + 1 /\ UNCHANGED <<attempts, connector>>
    BY <1>5 DEF ClockTicks
  <2>2. Holding("record")' = Holding("record")
    BY <2>1 DEF Holding
  <2> QED
    BY <1>2, <1>3, <2>1, <2>2 DEF RoomInv
<1>6. ASSUME NEW c \in Connectors, can_connect(c) PROVE RoomInv'
  <2>1. /\ connector[c].doing = "ask" /\ attempts' = Recent(attempts) /\ tick' = tick
        /\ connector' = [connector EXCEPT ![c] =
             IF Len(attempts') < MaxAttempts THEN [doing |-> "record", until |-> 0]
             ELSE [doing |-> "ask", until |-> tick + time_until_next_attempt(attempts')]]
    BY <1>6 DEF can_connect
  <2>2. PICK d \in Nat : Remembered(d)
    BY DEF RobustInv
  <2>3. InOrder(attempts)
    BY <2>2, RememberedInOrder
  <2>4. PICK n \in 0 .. l : Len(Recent(attempts)) = l - n
    BY <1>1, <1>2, <2>3, RecentIs
  <2>5. \A q \in Connectors \ {c} : connector'[q] = connector[q]
    BY <1>2, <2>1
  <2>6. /\ Holding("record") \in Nat /\ Holding("record")' \in Nat /\ Holding("record")' <= k
        /\ connector'[c].doing # "record" => Holding("record")' = Holding("record")
    BY <1>1, <2>1, <2>5, HoldingMoves
  <2>7. CASE Len(attempts') < MaxAttempts
    <3>1. l - n <= m - 1
      BY <1>1, <2>1, <2>4, <2>7
    <3> QED
      BY <1>1, <2>1, <2>4, <2>6, <3>1 DEF RoomInv
  <2>8. CASE ~(Len(attempts') < MaxAttempts)
    <3>1. connector'[c].doing # "record"
      BY <1>2, <2>1, <2>8
    <3> QED
      BY <1>1, <2>1, <2>4, <2>6, <3>1 DEF RoomInv
  <2> QED
    BY <2>7, <2>8
<1>7. ASSUME NEW c \in Connectors, record_connection_attempt(c) PROVE RoomInv'
  <2>1. /\ connector[c].doing = "record" /\ attempts' = Append(attempts, tick) /\ tick' = tick
        /\ connector' = [connector EXCEPT ![c].doing = "connect"]
    BY <1>7 DEF record_connection_attempt
  <2>2. Len(attempts') = l + 1
    BY <1>1, <1>2, <2>1
  <2>3. connector'[c].doing = "connect" /\ \A q \in Connectors \ {c} : connector'[q] = connector[q]
    <3>1. connector[c] \in Doing
      BY <1>2
    <3> QED
      BY <1>2, <2>1, <3>1 DEF Doing
  <2>4. Holding("record") \in Nat /\ Holding("record")' = Holding("record") - 1
    BY <2>1, <2>3, HoldingMoves
  <2> QED
    BY <1>1, <2>1, <2>2, <2>4 DEF RoomInv
<1>8. ASSUME NEW c \in Connectors,
             record_connection_success(c) \/ record_connection_failure(c) \/ ConnectionLost(c)
      PROVE  RoomInv'
  <2>1. PICK x : /\ connector' = [connector EXCEPT ![c] = x] /\ x.doing # "record"
                 /\ connector[c].doing # "record" /\ UNCHANGED <<attempts, tick>>
    <3>1. Asking.doing = "ask" /\ [Asking EXCEPT !.doing = "connected"].doing = "connected"
      BY DEF Asking
    <3>2. CASE record_connection_success(c)
      BY <3>1, <3>2 DEF record_connection_success
    <3>3. CASE record_connection_failure(c)
      BY <3>1, <3>3 DEF record_connection_failure
    <3>4. CASE ConnectionLost(c)
      BY <3>1, <3>4 DEF ConnectionLost
    <3> QED
      BY <1>8, <3>2, <3>3, <3>4
  <2>2. connector'[c].doing # "record" /\ \A q \in Connectors \ {c} : connector'[q] = connector[q]
    BY <1>2, <2>1
  <2>3. Holding("record")' = Holding("record")
    BY <2>1, <2>2, HoldingMoves
  <2> QED
    BY <2>1, <2>3 DEF RoomInv
<1> QED
  BY <1>4, <1>5, <1>6, <1>7, <1>8 DEF RobustNext

\* So the tracker remembers no more attempts than that, and nobody sleeps longer than a window.
LEMMA RobustTypes == RobustSpec => []RobustTypeOK
<1>1. RobustInit => RoomInv
  <2> SUFFICES ASSUME RobustInit PROVE RoomInv
    OBVIOUS
  <2>1. tick = 0 /\ attempts = <<>> /\ connector = [c \in Connectors |-> Asking]
    BY DEF RobustInit
  <2>2. {c \in Connectors : connector[c].doing = "record"} = {}
    BY <2>1 DEF Asking
  <2>3. Holding("record") = 0
    BY <2>2, FS_EmptySet DEF Holding
  <2>4. MaxTicks \in Nat /\ MaxAttempts \in Nat /\ MaxAttempts >= 1 /\ Cardinality(Connectors) \in Nat
    BY ControlAssumption, FS_CardinalityType DEF ControlAssumption
  <2> QED
    BY <2>1, <2>3, <2>4 DEF RoomInv
<1>2. RobustInv /\ RoomInv => RobustTypeOK
  <2> SUFFICES ASSUME RobustInv, RoomInv PROVE RobustTypeOK
    OBVIOUS
  <2>1. connector \in [Connectors -> Doing] /\ tick \in Nat
    BY DEF RobustInv, RobustShape
  <2>2. Len(attempts) <= MaxAttempts + Cardinality(Connectors) - 1
    <3>1. Holding("record") \in Nat
      <4>1. {c \in Connectors : connector[c].doing = "record"} \in SUBSET Connectors /\ IsFiniteSet(Connectors)
        BY ControlAssumption DEF ControlAssumption
      <4> QED
        BY <4>1, FS_Subset, FS_CardinalityType DEF Holding
    <3> QED
      BY <3>1, RobustFacts DEF RoomInv
  <2>3. ASSUME NEW c \in Connectors PROVE connector[c].until <= tick + AttemptWindow
    <3>1. CASE connector[c].until > tick
      <4>1. PICK h \in DOMAIN attempted : connector[c].until = attempted[h] + AttemptWindow
        BY <3>1 DEF RobustInv
      <4>2. attempted[h] <= tick /\ attempted[h] \in Nat /\ AttemptWindow \in Nat
        BY RobustFacts DEF InOrder
      <4> QED
        BY <2>1, <4>1, <4>2
    <3>2. CASE ~(connector[c].until > tick)
      <4>1. connector[c].until \in Nat
        BY <2>1 DEF Doing
      <4> QED
        BY <2>1, <3>2, <4>1, RobustFacts
    <3> QED
      BY <3>1, <3>2
  <2>4. \A c \in Connectors : connector[c].doing \in {"ask", "record", "connect", "connected"}
    BY <2>1 DEF Doing
  <2>5. tick \in 0 .. MaxTicks
    BY DEF RoomInv
  <2> QED
    BY <2>2, <2>3, <2>4, <2>5 DEF RobustTypeOK
<1> QED
  BY <1>1, <1>2, RoomSteps, RobustStarts, RobustSteps, PTL DEF RobustSpec

\* The tasks in the walk over the books.
Walking == {t \in NbboTasks : caller[t].doing = "compute"}

\* A walk has counted at most the exchanges that it has looked at; each crossed market
\* was the end of a call, and each walk will be the end of another.
CallsCounted ==
    /\ nbbo_calls \in Nat /\ crossed \in Nat
    /\ crossed + Cardinality(Walking) <= nbbo_calls
    /\ \A t \in Walking : caller[t].found.exchanges + Cardinality(caller[t].left) <= Cardinality(Venues)
    /\ nbbo_cache.exchanges <= Cardinality(Venues)

\* How many walk when a task begins to, or stops.
LEMMA WalkersMove ==
    ASSUME NEW t \in NbboTasks, \A u \in NbboTasks \ {t} : caller'[u] = caller[u]
    PROVE  /\ Cardinality(Walking) \in Nat /\ Cardinality(Walking') \in Nat
           /\ Walking' \subseteq Walking \cup {t}
           /\ Cardinality(Walking') <= Cardinality(Walking) + 1
           /\ t \in Walking /\ t \notin Walking' => Cardinality(Walking') = Cardinality(Walking) - 1
           /\ t \notin Walking /\ t \notin Walking' => Cardinality(Walking') = Cardinality(Walking)
           /\ t \in Walking /\ t \in Walking' => Cardinality(Walking') = Cardinality(Walking)
<1>1. PICK A, B : A = Walking /\ B = Walking'
  OBVIOUS
<1>2. A \in SUBSET NbboTasks /\ B \in SUBSET NbboTasks /\ \A u \in NbboTasks \ {t} : u \in A <=> u \in B
  BY <1>1 DEF Walking
<1>3. IsFiniteSet(A) /\ IsFiniteSet(B)
  BY <1>2, NbboAssumption, FS_Subset
<1>4. Cardinality(A) \in Nat /\ Cardinality(B) \in Nat
  BY <1>3, FS_CardinalityType
<1>5. t \in A /\ t \notin B => Cardinality(B) = Cardinality(A) - 1
  <2> SUFFICES ASSUME t \in A, t \notin B PROVE Cardinality(B) = Cardinality(A) - 1
    OBVIOUS
  <2>1. B = A \ {t}
    BY <1>2
  <2> QED
    BY <1>3, <2>1, FS_RemoveElement
<1>6. t \notin A /\ t \in B => Cardinality(B) = Cardinality(A) + 1
  <2> SUFFICES ASSUME t \notin A, t \in B PROVE Cardinality(B) = Cardinality(A) + 1
    OBVIOUS
  <2>1. B = A \cup {t}
    BY <1>2
  <2> QED
    BY <1>3, <2>1, FS_AddElement
<1>7. (t \in A <=> t \in B) => A = B
  BY <1>2
<1>8. B \subseteq A \cup {t}
  BY <1>2
<1>9. Cardinality(B) <= Cardinality(A) + 1
  BY <1>4, <1>5, <1>6, <1>7
<1> QED
  BY <1>1, <1>4, <1>5, <1>7, <1>8, <1>9

\* No call, no walk.
LEMMA CallsStart == NbboInit => CallsCounted
<1> SUFFICES ASSUME NbboInit PROVE CallsCounted
  OBVIOUS
<1>1. caller = [t \in NbboTasks |-> Free] /\ crossed = 0 /\ nbbo_calls = 0 /\ nbbo_cache = NoNbbo
  BY DEF NbboInit
<1>2. Walking = {}
  BY <1>1 DEF Walking, Free
<1>3. Cardinality(Walking) = 0 /\ Cardinality(Venues) \in Nat /\ NoNbbo.exchanges = 0
  BY <1>2, FS_EmptySet, NbboAssumption, FS_CardinalityType DEF NoNbbo
<1> QED
  BY <1>1, <1>2, <1>3 DEF CallsCounted

\* A call begins: an update walks, a clean-up does not.
LEMMA CallBegins ==
    ASSUME NbboInv, CallsCounted, NEW t \in NbboTasks, NEW c \in Call, caller' = [caller EXCEPT ![t] = c],
           c.doing = "compute" => c.found.exchanges = 0, nbbo_calls' = nbbo_calls + 1,
           UNCHANGED <<crossed, nbbo_cache>>
    PROVE  CallsCounted'
<1>1. caller \in [NbboTasks -> Call]
  BY DEF NbboInv, NbboShape
<1>2. caller'[t] = c /\ \A u \in NbboTasks \ {t} : caller'[u] = caller[u]
  BY <1>1
<1>3. /\ Cardinality(Walking) \in Nat /\ Cardinality(Walking') \in Nat /\ Walking' \subseteq Walking \cup {t}
      /\ Cardinality(Walking') <= Cardinality(Walking) + 1
  BY <1>2, WalkersMove
<1>4. crossed' + Cardinality(Walking') <= nbbo_calls' /\ nbbo_calls' \in Nat /\ crossed' \in Nat
  BY <1>3 DEF CallsCounted
<1>5. ASSUME NEW u \in Walking'
      PROVE  caller'[u].found.exchanges + Cardinality(caller'[u].left) <= Cardinality(Venues)
  <2>1. CASE u = t
    <3>1. c.doing = "compute" /\ c.left \in SUBSET Venues
      BY <1>2, <1>5, <2>1 DEF Walking, Call
    <3>2. Cardinality(c.left) \in Nat /\ Cardinality(c.left) <= Cardinality(Venues)
      BY <3>1, NbboAssumption, FS_Subset, FS_CardinalityType
    <3>3. caller'[u] = c /\ c.found.exchanges = 0
      BY <1>2, <2>1, <3>1
    <3> QED
      BY <3>2, <3>3
  <2>2. CASE u # t
    <3>1. u \in Walking /\ u \in NbboTasks /\ caller'[u] = caller[u]
      BY <1>2, <1>3, <1>5, <2>2 DEF Walking
    <3> QED
      BY <3>1 DEF CallsCounted
  <2> QED
    BY <2>1, <2>2
<1> QED
  BY <1>4, <1>5 DEF CallsCounted

\* The walk looks at one more exchange.
LEMMA LookAtCounts ==
    ASSUME NbboInv, CallsCounted, NEW t \in NbboTasks, NEW e \in Venues, LookAt(t, e) PROVE CallsCounted'
<1>1. caller \in [NbboTasks -> Call] /\ caller[t].doing = "compute" /\ e \in caller[t].left
  BY DEF NbboInv, NbboShape, LookAt
<1>2. PICK c \in Call : c = caller[t]
  BY <1>1
<1>3. PICK n : n = IF e \in DOMAIN venue_books THEN Better(c.found, e) ELSE c.found
  OBVIOUS
<1>4. /\ caller' = [caller EXCEPT ![t] = [c EXCEPT !.left = c.left \ {e}, !.found = n]]
      /\ UNCHANGED <<nbbo_cache, crossed, nbbo_calls>>
  BY <1>1, <1>2, <1>3 DEF LookAt
<1>5. n.exchanges \in Nat /\ n.exchanges <= c.found.exchanges + 1 /\ c.found.exchanges \in Nat
  <2>1. c.found \in NbboFound
    BY <1>2 DEF Call
  <2>2. c.found.exchanges \in Nat
    BY <2>1 DEF NbboFound
  <2>3. Better(c.found, e).exchanges \in {c.found.exchanges, c.found.exchanges + 1}
    BY <2>1 DEF Better, NbboFound
  <2> QED
    BY <1>3, <2>2, <2>3
<1>6. PICK d : d = [c EXCEPT !.left = c.left \ {e}, !.found = n]
  OBVIOUS
<1>7. d.doing = "compute" /\ d.left = c.left \ {e} /\ d.found = n
  BY <1>1, <1>2, <1>6 DEF Call
<1>8. caller'[t] = d /\ \A u \in NbboTasks \ {t} : caller'[u] = caller[u]
  BY <1>1, <1>4, <1>6
<1>9. t \in Walking /\ t \in Walking'
  BY <1>1, <1>7, <1>8 DEF Walking
<1>10. Cardinality(Walking') = Cardinality(Walking) /\ Walking' \subseteq Walking \cup {t}
  BY <1>8, <1>9, WalkersMove
<1>11. n.exchanges + Cardinality(d.left) <= Cardinality(Venues)
  <2>1. c.left \in SUBSET Venues /\ e \in c.left
    BY <1>1, <1>2 DEF Call
  <2>2. IsFiniteSet(c.left)
    BY <2>1, NbboAssumption, FS_Subset
  <2>3. Cardinality(c.left \ {e}) = Cardinality(c.left) - 1 /\ Cardinality(c.left) \in Nat /\ Cardinality(Venues) \in Nat
    BY <2>1, <2>2, NbboAssumption, FS_RemoveElement, FS_CardinalityType
  <2>4. c.found.exchanges + Cardinality(c.left) <= Cardinality(Venues)
    BY <1>2, <1>9 DEF CallsCounted
  <2> QED
    BY <1>5, <1>7, <2>3, <2>4
<1>12. ASSUME NEW u \in Walking'
       PROVE  caller'[u].found.exchanges + Cardinality(caller'[u].left) <= Cardinality(Venues)
  <2>1. CASE u = t
    BY <1>7, <1>8, <1>11, <2>1
  <2>2. CASE u # t
    <3>1. u \in Walking /\ u \in NbboTasks /\ caller'[u] = caller[u]
      BY <1>8, <1>10, <1>12, <2>2 DEF Walking
    <3> QED
      BY <3>1 DEF CallsCounted
  <2> QED
    BY <2>1, <2>2
<1> QED
  BY <1>4, <1>10, <1>12 DEF CallsCounted

\* A walk or a clean-up ends.
LEMMA CallEnds ==
    ASSUME NbboInv, CallsCounted, NEW t \in NbboTasks, CacheNbbo(t) \/ RemoveBooks(t) PROVE CallsCounted'
<1>1. caller \in [NbboTasks -> Call] /\ caller' = [caller EXCEPT ![t] = Free] /\ nbbo_calls' = nbbo_calls
  BY DEF NbboInv, NbboShape, CacheNbbo, RemoveBooks
<1>2. caller'[t] = Free /\ \A u \in NbboTasks \ {t} : caller'[u] = caller[u]
  BY <1>1
<1>3. t \notin Walking'
  BY <1>2 DEF Walking, Free
<1>4. /\ Cardinality(Walking) \in Nat /\ Cardinality(Walking') \in Nat /\ Walking' \subseteq Walking \cup {t}
      /\ t \in Walking => Cardinality(Walking') = Cardinality(Walking) - 1
      /\ t \notin Walking => Cardinality(Walking') = Cardinality(Walking)
  BY <1>2, <1>3, WalkersMove
<1>5. \A u \in Walking' : caller'[u].found.exchanges + Cardinality(caller'[u].left) <= Cardinality(Venues)
  <2> TAKE u \in Walking'
  <2>1. u \in Walking /\ u \in NbboTasks /\ caller'[u] = caller[u]
    BY <1>2, <1>3, <1>4 DEF Walking
  <2> QED
    BY <2>1 DEF CallsCounted
<1>6. CASE CacheNbbo(t)
  <2>1. t \in Walking
    BY <1>6 DEF CacheNbbo, Walking
  <2>2. crossed' \in {crossed, crossed + 1}
    BY <1>6 DEF CacheNbbo, CallsCounted
  <2>3. crossed' \in Nat /\ crossed' + Cardinality(Walking') <= nbbo_calls'
    BY <1>1, <1>4, <2>1, <2>2 DEF CallsCounted
  <2>4. nbbo_cache'.exchanges <= Cardinality(Venues)
    <3>1. caller[t] \in Call
      BY <1>1
    <3>2. caller[t].found.exchanges \in Nat /\ caller[t].left \in SUBSET Venues
      BY <3>1 DEF Call, NbboFound
    <3>3. Cardinality(caller[t].left) \in Nat /\ Cardinality(Venues) \in Nat
      BY <3>2, NbboAssumption, FS_Subset, FS_CardinalityType
    <3>4. caller[t].found.exchanges <= Cardinality(Venues)
      BY <2>1, <3>2, <3>3 DEF CallsCounted
    <3>5. nbbo_cache' \in {nbbo_cache, caller[t].found}
      BY <1>6 DEF CacheNbbo
    <3> QED
      BY <3>4, <3>5 DEF CallsCounted
  <2> QED
    BY <1>1, <1>5, <2>3, <2>4 DEF CallsCounted
<1>7. CASE RemoveBooks(t)
  <2>1. t \notin Walking /\ UNCHANGED <<crossed, nbbo_cache>>
    BY <1>7 DEF RemoveBooks, Walking
  <2> QED
    BY <1>1, <1>4, <1>5, <2>1 DEF CallsCounted
<1> QED
  BY <1>6, <1>7

\* Each step of a call.
LEMMA CallsSteps == NbboInv /\ CallsCounted /\ [NbboNext]_nvars => CallsCounted'
<1> SUFFICES ASSUME NbboInv, CallsCounted, [NbboNext]_nvars PROVE CallsCounted'
  OBVIOUS
<1>1. ASSUME NEW t \in NbboTasks, NEW e, NEW bid, NEW ask, NEW ts \in QuoteTimes, update_order_book(t, e, bid, ask, ts)
      PROVE  CallsCounted'
  <2>1. PICK n : n = [NoNbbo EXCEPT !.at = ts]
    OBVIOUS
  <2>2. ts \in Nat
    BY NbboAssumption
  <2>3. n \in NbboFound /\ n.exchanges = 0
    BY <2>1, <2>2 DEF NoNbbo, NbboFound
  <2>4. PICK c : c = [doing |-> "compute", left |-> Venues, found |-> n]
    OBVIOUS
  <2>5. c \in Call /\ c.found.exchanges = 0
    BY <2>3, <2>4 DEF Call
  <2>6. /\ caller' = [caller EXCEPT ![t] = c] /\ nbbo_calls' = nbbo_calls + 1 /\ UNCHANGED <<crossed, nbbo_cache>>
    BY <1>1, <2>1, <2>4 DEF update_order_book, Begins
  <2> QED
    BY <2>5, <2>6, CallBegins
<1>2. ASSUME NEW t \in NbboTasks, NEW instant, cleanup_stale(t, instant) PROVE CallsCounted'
  <2>1. PICK c : c = [Free EXCEPT !.doing = "cleanup", !.left = {e \in DOMAIN venue_books : IsStale(instant, e)}]
    OBVIOUS
  <2>2. DOMAIN venue_books \subseteq Venues
    BY DEF NbboInv, NbboShape
  <2>3. c \in Call /\ c.doing # "compute"
    BY <2>1, <2>2, FreeTypes DEF Call, Free
  <2>4. /\ caller' = [caller EXCEPT ![t] = c] /\ nbbo_calls' = nbbo_calls + 1 /\ UNCHANGED <<crossed, nbbo_cache>>
    BY <1>2, <2>1 DEF cleanup_stale, Begins
  <2> QED
    BY <2>3, <2>4, CallBegins
<1>3. CASE UNCHANGED nvars
  BY <1>3 DEF nvars, CallsCounted, Walking
<1> QED
  BY <1>1, <1>2, <1>3, LookAtCounts, CallEnds DEF NbboNext

\* So the cache counts at most the exchanges, and the crossed markets are calls.
LEMMA NbboTypes == NbboSpec => []NbboTypeOK
<1>1. NbboInv /\ CallsCounted => NbboTypeOK
  <2> SUFFICES ASSUME NbboInv, CallsCounted PROVE NbboTypeOK
    OBVIOUS
  <2>1. crossed <= nbbo_calls
    <3>1. Walking \in SUBSET NbboTasks
      BY DEF Walking
    <3>2. Cardinality(Walking) \in Nat
      BY <3>1, NbboAssumption, FS_Subset, FS_CardinalityType
    <3> QED
      BY <3>2 DEF CallsCounted
  <2>2. \A t \in NbboTasks : caller[t].doing \in {"nothing", "compute", "cleanup"} /\ caller[t].left \subseteq Venues
    BY DEF NbboInv, NbboShape, Call
  <2>3. /\ DOMAIN venue_books \subseteq Venues
        /\ \A e \in DOMAIN venue_books : venue_books[e].bid \in Nat /\ venue_books[e].ask \in Nat
    BY DEF NbboInv, NbboShape, Quote
  <2> QED
    BY <2>1, <2>2, <2>3 DEF CallsCounted, NbboTypeOK
<1> QED
  BY <1>1, CallsStart, CallsSteps, NbboStarts, NbboSteps, PTL DEF NbboSpec

--------------------------------------------------------------------------------
(* The components as MCMarketData runs them.                               *)

\* The variables of a component that does not run stay as they are.
LEMMA OthersStay ==
    ASSUME NEW p, Only(p)
    PROVE  /\ p # "feed" => UNCHANGED fvars
           /\ p # "messages" => UNCHANGED mvars
           /\ p # "cache" => UNCHANGED cvars
           /\ p # "nbbo" => UNCHANGED nvars
           /\ p # "engine" => UNCHANGED evars
           /\ p # "robust" => UNCHANGED rcvars
           /\ p # "unified" => UNCHANGED uvars
           /\ p # "pool" => UNCHANGED pmvars
BY Zenon DEF Only

\* A step is one of a component, or leaves that as it is.
LEMMA StepsOfParts ==
    ASSUME [Next]_vars
    PROVE  /\ [FeedNext]_fvars
           /\ [MsgNext]_mvars
           /\ [CacheNext]_cvars
           /\ [NbboNext]_nvars
           /\ [EngineNext]_evars
           /\ [RobustNext]_rcvars
           /\ [UnifiedNext]_uvars
           /\ [PoolNext]_pmvars
<1>1. CASE UNCHANGED vars
  <2>1. UNCHANGED <<fvars, mvars, cvars, nvars, evars, rcvars, uvars, pmvars>>
    BY <1>1, Zenon DEF vars
  <2> QED
    BY <2>1, Zenon
<1>2. ASSUME NEW p, Only(p), p = "feed" => FeedNext,
                   p = "messages" => MsgNext,
                   p = "cache" => CacheNext,
                   p = "nbbo" => NbboNext,
                   p = "engine" => EngineNext,
                   p = "robust" => RobustNext,
                   p = "unified" => UnifiedNext,
                   p = "pool" => PoolNext
      PROVE  /\ [FeedNext]_fvars
             /\ [MsgNext]_mvars
             /\ [CacheNext]_cvars
             /\ [NbboNext]_nvars
             /\ [EngineNext]_evars
             /\ [RobustNext]_rcvars
             /\ [UnifiedNext]_uvars
             /\ [PoolNext]_pmvars
  BY <1>2, OthersStay, Zenon
<1> QED
  BY <1>1, <1>2 DEF Next

\* So a behaviour of MCMarketData is one of each component.
LEMMA BehavioursOfParts ==
    Spec => FeedSpec /\ MsgSpec /\ CacheSpec /\ NbboSpec /\ EngineSpec /\ RobustSpec /\ UnifiedSpec
         /\ PoolSpec
<1>1. Init => FeedInit /\ MsgInit /\ CacheInit /\ NbboInit /\ EngineInit /\ RobustInit /\ UnifiedInit /\ PoolInit
  BY DEF Init
<1>2. [Next]_vars => [FeedNext]_fvars
  BY StepsOfParts
<1>3. [Next]_vars => [MsgNext]_mvars
  BY StepsOfParts
<1>4. [Next]_vars => [CacheNext]_cvars
  BY StepsOfParts
<1>5. [Next]_vars => [NbboNext]_nvars
  BY StepsOfParts
<1>6. [Next]_vars => [EngineNext]_evars
  BY StepsOfParts
<1>7. [Next]_vars => [RobustNext]_rcvars
  BY StepsOfParts
<1>8. [Next]_vars => [UnifiedNext]_uvars
  BY StepsOfParts
<1>9. [Next]_vars => [PoolNext]_pmvars
  BY StepsOfParts
<1> QED
  BY <1>1, <1>2, <1>3, <1>4, <1>5, <1>6, <1>7, <1>8, <1>9, PTL
     DEF Spec, FeedSpec, MsgSpec, CacheSpec, NbboSpec, EngineSpec, RobustSpec, UnifiedSpec, PoolSpec

\* Attempts and retries are limited as configured, for any number of tasks and of ticks and
\* any limits: as many attempts in a window as are allowed and one less per task that had
\* asked before another recorded its own; nobody sleeps once there is room; run gives up
\* after exactly as many rounds of as many connects as it is told to.
THEOREM RetriesAlwaysBounded == Spec => []RetriesBounded
<1>1. RobustInv /\ UnifiedInv => RetriesBounded
  <2> SUFFICES ASSUME RobustInv, UnifiedInv PROVE RetriesBounded
    OBVIOUS
  <2>1. \A i \in DOMAIN attempted :
          Cardinality({j \in i .. Len(attempted) : attempted[j] - attempted[i] < AttemptWindow})
            < MaxAttempts + Cardinality(Connectors)
    BY DEF RobustInv, WindowOf
  <2>2. \A c \in Connectors : connector[c].until > tick => Len(Recent(attempts)) >= MaxAttempts
    BY SleepersWaitForRoom
  <2>3. /\ active_connections = established.made + Holding("connect")
        /\ established.made = established.lost + Holding("connected")
        /\ established.made \in Nat /\ established.lost \in Nat
    BY DEF RobustInv, RobustShape
  <2>4. established.made - established.lost = Holding("connected")
    <3>1. Holding("connected") \in Nat
      <4>1. {c \in Connectors : connector[c].doing = "connected"} \in SUBSET Connectors /\ IsFiniteSet(Connectors)
        BY ControlAssumption DEF ControlAssumption
      <4> QED
        BY <4>1, FS_Subset, FS_CardinalityType DEF Holding
    <3> QED
      BY <2>3, <3>1
  <2>5. unifiedAt = "gave up" <=> missed = MaxFailures * ConnectAttempts
    BY GivesUpInTime
  <2>6. unifiedAt = "wait" =>
          /\ missed = consecutive_failures * ConnectAttempts
          /\ reconnect_delay <= consecutive_failures
          /\ reconnect_delay >= (IF consecutive_failures > DelayCap THEN DelayCap
                                 ELSE IF consecutive_failures = 0 THEN 0 ELSE consecutive_failures - 1)
    BY DelayIsOfTheFailures
  <2> QED
    BY <2>1, <2>2, <2>3, <2>4, <2>5, <2>6 DEF RetriesBounded
<1> QED
  BY <1>1, BehavioursOfParts, RobustStarts, RobustSteps, UnifiedStarts, UnifiedSteps, PTL DEF RobustSpec, UnifiedSpec

\* Of the specification that MCMarketData runs, for every value of its constants: what the
\* theorems above say of each component holds of all of them.
THEOREM MarketDataHolds ==
    Spec => SnapshotsAtomic /\ [](EvenAtRest /\ CachedIsBest /\ EventsTellBook /\ RoundsApart /\ BooksMirror)
<1>1. CacheSpec => SnapshotsAtomic /\ []EvenAtRest
  BY SnapshotsWhole, RestIsEven
<1>2. NbboSpec => []CachedIsBest
  BY CacheAlwaysBest
<1>3. EngineSpec => []EventsTellBook
  BY EventsAlwaysTell
<1>4. FeedSpec => []RoundsApart
  BY RoundsAlwaysApart
<1>5. MsgSpec => []BooksMirror
  BY BooksAlwaysMirror
<1> QED
  BY <1>1, <1>2, <1>3, <1>4, <1>5, BehavioursOfParts, PTL

\* Every variable of the component that runs keeps its type, for every value of the
\* constants: of the feeds, of what becomes of their messages, of the cache, of the NBBO,
\* of the engine, of the connection control and of the pool of connections.
THEOREM MarketDataTypesHold == Spec => []MarketDataTypeOK
<1>1. Spec => [](part \in Parts)
  <2>1. Init => part \in Parts
    BY DEF Init
  <2>2. part \in Parts /\ [Next]_vars => (part \in Parts)'
    <3> SUFFICES ASSUME part \in Parts, [Next]_vars PROVE part' \in Parts'
      OBVIOUS
    <3>1. part' = part
      <4>1. ASSUME NEW p, Only(p) PROVE part' = part
        BY <4>1, Zenon DEF Only
      <4>2. CASE UNCHANGED vars
        BY <4>2, Zenon DEF vars
      <4> QED
        BY <4>1, <4>2, Zenon DEF Next
    <3> QED
      BY <3>1 DEF Parts
  <2> QED
    BY <2>1, <2>2, PTL DEF Spec
<1>2. Spec => []FeedTypeOK /\ []MsgTypeOK /\ []CacheTypeOK /\ []NbboTypeOK
              /\ []EngineTypeOK /\ []RobustTypeOK /\ []UnifiedTypeOK /\ []PoolTypeOK
  BY BehavioursOfParts, FeedTypes, MsgTypes, CacheTypeCorrect, NbboTypes, EngineTypes, RobustTypes, UnifiedTypes,
     PoolTypes, PTL
<1>3. ASSUME part \in Parts, FeedTypeOK, MsgTypeOK, CacheTypeOK, NbboTypeOK,
             EngineTypeOK, RobustTypeOK, UnifiedTypeOK, PoolTypeOK
      PROVE  MarketDataTypeOK
  BY <1>3, Zenon DEF MarketDataTypeOK
<1> QED
  BY <1>1, <1>2, <1>3, PTL

================================================================================
