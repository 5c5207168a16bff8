------------------------------- MODULE FeedProofs ------------------------------
(***************************************************************************)
(* Lemmas on the data of the models, which know nothing of a component:    *)
(* the sum of a sequence (Sums) as its elements change, queues and their   *)
(* prefixes, the set of the elements of a sequence, SetToSeq, FlattenSeq,  *)
(* and sequences in an order.  Then theorems about the feeds of the        *)
(* exchanges and what becomes of their messages, which MCMarketData and    *)
(* MCPlatform both run.                                                    *)
(***************************************************************************)
EXTENDS ExchangeFeed, FeedMessages, Sums, SequencesExt, FiniteSetTheorems, SequenceTheorems,
        WellFoundedInduction, TLAPS

--------------------------------------------------------------------------------
(* Lists, queues and sums.                                                 *)

\* Inductions take the least counterexample.
LEMMA LeastCounterexample ==
    ASSUME NEW S, S \subseteq Nat, S # {} PROVE \E n \in S : \A m \in S : n <= m
<1>1. PICK n \in S : \A m \in S : ~(<<m, n>> \in OpToRel(<, Nat))
  BY NatLessThanWellFounded, WFMin
<1>2. \A m \in S : ~(m < n)
  BY <1>1 DEF OpToRel
<1> QED
  BY <1>2

\* f sums a up to n.
SumsOver(f, a, n) == f[0] = 0 /\ \A i \in 1 .. n : f[i] = f[i - 1] + a[i]

\* There are functions that do.
LEMMA PrefixSummed ==
    ASSUME NEW a \in Seq(Int), NEW n \in 0 .. Len(a) PROVE \E f \in [0 .. n -> Int] : SumsOver(f, a, n)
<1> DEFINE Bad == {m \in 0 .. Len(a) : ~\E f \in [0 .. m -> Int] : SumsOver(f, a, m)}
<1> SUFFICES ASSUME Bad # {} PROVE FALSE
  OBVIOUS
<1>1. PICK m \in Bad : \A k \in Bad : m <= k
  <2>1. Bad \subseteq Nat /\ Bad # {}
    OBVIOUS
  <2> HIDE DEF Bad
  <2> QED
    BY <2>1, LeastCounterexample
<1>2. m # 0
  <2>1. [i \in 0 .. 0 |-> 0] \in [0 .. 0 -> Int] /\ SumsOver([i \in 0 .. 0 |-> 0], a, 0)
    BY DEF SumsOver
  <2> QED
    BY <1>1, <2>1
<1>3. m - 1 \in 0 .. Len(a) /\ m - 1 \notin Bad
  <2>1. m - 1 \in Nat /\ ~(m <= m - 1) /\ Len(a) \in Nat
    BY <1>1, <1>2
  <2> QED
    BY <1>1, <2>1
<1>4. PICK f \in [0 .. m - 1 -> Int] : SumsOver(f, a, m - 1)
  BY <1>3
<1> DEFINE g == [i \in 0 .. m |-> IF i = m THEN f[m - 1] + a[m] ELSE f[i]]
<1>5. a[m] \in Int /\ f[m - 1] \in Int
  BY <1>1, <1>2, <1>4
<1>6. g \in [0 .. m -> Int]
  BY <1>1, <1>4, <1>5
<1>7. g[0] = 0
  BY <1>1, <1>2, <1>4 DEF SumsOver
<1>8. \A i \in 1 .. m : g[i] = g[i - 1] + a[i]
  <2> TAKE i \in 1 .. m
  <2>1. CASE i = m
    BY <1>1, <1>2, <2>1
  <2>2. CASE i # m
    <3>1. g[i] = f[i] /\ g[i - 1] = f[i - 1]
      BY <1>1, <1>2, <2>2
    <3> QED
      BY <1>1, <1>4, <2>2, <3>1 DEF SumsOver
  <2> QED
    BY <2>1, <2>2
<1> HIDE DEF g
<1>9. SumsOver(g, a, m)
  BY <1>7, <1>8 DEF SumsOver
<1> QED
  BY <1>1, <1>6, <1>9

\* The function is what it is defined to be.
LEMMA SumsUpToType ==
    ASSUME NEW a \in Seq(Int)
    PROVE  SumsUpTo(a) \in [0 .. Len(a) -> Int] /\ SumsOver(SumsUpTo(a), a, Len(a))
<1> DEFINE Is(f) == f = [n \in 0 .. Len(a) |-> IF n = 0 THEN 0 ELSE f[n - 1] + a[n]]
<1>1. PICK f \in [0 .. Len(a) -> Int] : SumsOver(f, a, Len(a))
  BY PrefixSummed
<1>2. Is(f)
  BY <1>1 DEF SumsOver
<1> DEFINE s == SumsUpTo(a)
<1>3. Is(s)
  BY <1>2 DEF SumsUpTo
<1> HIDE DEF s
<1>4. s[0] = 0 /\ \A i \in 1 .. Len(a) : s[i] = s[i - 1] + a[i]
  <2>1. \A n \in 0 .. Len(a) : s[n] = IF n = 0 THEN 0 ELSE s[n - 1] + a[n]
    BY <1>3
  <2>2. 0 \in 0 .. Len(a) /\ \A i \in 1 .. Len(a) : i \in 0 .. Len(a) /\ i # 0
    OBVIOUS
  <2> QED
    BY <2>1, <2>2
<1>5. \A n \in 0 .. Len(a) : s[n] = f[n]
  <2> DEFINE Bad == {n \in 0 .. Len(a) : s[n] # f[n]}
  <2> SUFFICES ASSUME Bad # {} PROVE FALSE
    OBVIOUS
  <2>1. PICK n \in Bad : \A m \in Bad : n <= m
    <3>1. Bad \subseteq Nat /\ Bad # {}
      OBVIOUS
    <3> HIDE DEF Bad
    <3> QED
      BY <3>1, LeastCounterexample
  <2>2. n # 0
    BY <1>1, <1>4, <2>1 DEF SumsOver
  <2>3. s[n - 1] = f[n - 1]
    BY <2>1, <2>2
  <2> QED
    BY <1>1, <1>4, <2>1, <2>2, <2>3 DEF SumsOver
<1>6. s \in [0 .. Len(a) -> Int]
  BY <1>1, <1>3, <1>5
<1> QED
  BY <1>4, <1>6 DEF s, SumsOver

\* Sums of sequences that agree agree.
LEMMA SumsAgree ==
    ASSUME NEW a \in Seq(Int), NEW b \in Seq(Int), NEW n \in Nat, n <= Len(a), n <= Len(b),
           \A i \in 1 .. n : a[i] = b[i]
    PROVE  SumsUpTo(a)[n] = SumsUpTo(b)[n]
<1> DEFINE s == SumsUpTo(a)
           t == SumsUpTo(b)
           Bad == {m \in 0 .. n : s[m] # t[m]}
<1>1. SumsOver(s, a, Len(a)) /\ SumsOver(t, b, Len(b)) /\ Len(a) \in Nat /\ Len(b) \in Nat
  BY SumsUpToType
<1> HIDE DEF s, t
<1>2. ASSUME Bad # {} PROVE FALSE
  <2>1. PICK m \in Bad : \A k \in Bad : m <= k
    <3>1. Bad \subseteq Nat /\ Bad # {}
      BY <1>2
    <3> HIDE DEF Bad
    <3> QED
      BY <3>1, LeastCounterexample
  <2>2. m # 0
    BY <1>1, <2>1 DEF SumsOver
  <2>3. s[m - 1] = t[m - 1]
    BY <2>1, <2>2
  <2>4. m \in 1 .. Len(a) /\ m \in 1 .. Len(b) /\ a[m] = b[m]
    BY <1>1, <2>1, <2>2
  <2>5. s[m] = s[m - 1] + a[m] /\ t[m] = t[m - 1] + b[m]
    BY <1>1, <2>4 DEF SumsOver
  <2> QED
    BY <2>1, <2>3, <2>4, <2>5
<1> QED
  BY <1>2 DEF s, t

\* The sum of integers is one.
THEOREM SumType == ASSUME NEW a \in Seq(Int) PROVE SumOf(a) \in Int
BY SumsUpToType DEF SumOf

\* Nothing sums to zero.
THEOREM SumOfNone == SumOf(<<>>) = 0
<1>1. <<>> \in Seq(Int) /\ Len(<<>>) = 0
  OBVIOUS
<1> QED
  BY <1>1, SumsUpToType DEF SumOf, SumsOver

\* One more element is one more to add.
THEOREM SumOfAppend ==
    ASSUME NEW a \in Seq(Int), NEW x \in Int PROVE SumOf(Append(a, x)) = SumOf(a) + x
<1> DEFINE b == Append(a, x)
<1>1. b \in Seq(Int) /\ Len(b) = Len(a) + 1 /\ Len(a) \in Nat /\ b[Len(a) + 1] = x
      /\ \A i \in 1 .. Len(a) : b[i] = a[i]
  OBVIOUS
<1> HIDE DEF b
<1>2. SumsUpTo(b)[Len(a) + 1] = SumsUpTo(b)[Len(a)] + x
  <2> DEFINE n == Len(a) + 1
  <2>1. Len(b) = n /\ n \in 1 .. n /\ n - 1 = Len(a) /\ b[n] = x
    BY <1>1
  <2>2. \A i \in 1 .. n : SumsUpTo(b)[i] = SumsUpTo(b)[i - 1] + b[i]
    BY <1>1, <2>1, SumsUpToType DEF SumsOver
  <2> HIDE DEF n
  <2>3. SumsUpTo(b)[n] = SumsUpTo(b)[n - 1] + b[n]
    BY <2>1, <2>2
  <2> QED
    BY <2>1, <2>3 DEF n
<1>3. SumsUpTo(b)[Len(a)] = SumsUpTo(a)[Len(a)]
  <2> DEFINE n == Len(a)
  <2>1. n \in Nat /\ n <= Len(a) /\ n <= Len(b) /\ \A i \in 1 .. n : b[i] = a[i]
    BY <1>1
  <2> HIDE DEF n
  <2>2. SumsUpTo(b)[n] = SumsUpTo(a)[n]
    BY <1>1, <2>1, SumsAgree
  <2> QED
    BY <2>2 DEF n
<1> QED
  BY <1>1, <1>2, <1>3 DEF SumOf, b

\* An element that changes changes the sum by as much.
THEOREM SumOfChange ==
    ASSUME NEW a \in Seq(Int), NEW b \in Seq(Int), Len(a) = Len(b), NEW k \in 1 .. Len(a),
           \A i \in 1 .. Len(a) : i # k => b[i] = a[i]
    PROVE  SumOf(b) = SumOf(a) + (b[k] - a[k])
<1> DEFINE s == SumsUpTo(a)
           t == SumsUpTo(b)
           n == Len(a)
           Bad == {m \in k .. n : t[m] # s[m] + (b[k] - a[k])}
<1>1. SumsOver(s, a, n) /\ SumsOver(t, b, n) /\ s \in [0 .. n -> Int] /\ t \in [0 .. n -> Int] /\ n \in Nat
  BY SumsUpToType
<1>2. t[k - 1] = s[k - 1]
  <2> DEFINE m == k - 1
  <2>1. m \in Nat /\ m <= Len(a) /\ m <= Len(b) /\ \A i \in 1 .. m : b[i] = a[i]
    OBVIOUS
  <2> HIDE DEF m
  <2>2. t[m] = s[m]
    BY <2>1, SumsAgree
  <2> QED
    BY <2>2 DEF m
<1>3. b[k] \in Int /\ a[k] \in Int
  OBVIOUS
<1>4. SumOf(a) = s[n] /\ SumOf(b) = t[n]
  BY DEF SumOf
<1> HIDE DEF s, t
<1>5. ASSUME Bad # {} PROVE FALSE
  <2>1. PICK m \in Bad : \A i \in Bad : m <= i
    <3>1. Bad \subseteq Nat /\ Bad # {}
      BY <1>1, <1>5
    <3> HIDE DEF Bad
    <3> QED
      BY <3>1, LeastCounterexample
  <2>2. m # k
    <3>1. k \in 1 .. n /\ k - 1 \in 0 .. n /\ k \in Int
      BY <1>1
    <3>2. s[k] = s[k - 1] + a[k] /\ t[k] = t[k - 1] + b[k] /\ s[k - 1] \in Int
      BY <1>1, <3>1 DEF SumsOver
    <3>3. t[k] = s[k] + (b[k] - a[k])
      BY <1>2, <1>3, <3>2
    <3> QED
      BY <2>1, <3>3
  <2>3. m - 1 \in k .. n /\ t[m - 1] = s[m - 1] + (b[k] - a[k])
    BY <1>1, <2>1, <2>2
  <2>4. a[m] \in Int /\ b[m] = a[m]
    BY <1>1, <2>1, <2>2
  <2>5. s[m] = s[m - 1] + a[m] /\ t[m] = t[m - 1] + b[m] /\ s[m - 1] \in Int
    <3>1. m \in 1 .. n /\ m - 1 \in 0 .. n
      BY <1>1, <2>1, <2>3
    <3> QED
      BY <1>1, <3>1 DEF SumsOver
  <2>6. t[m] = s[m] + (b[k] - a[k])
    BY <1>3, <2>3, <2>4, <2>5, SMTT(30)
  <2> QED
    BY <2>1, <2>6
<1>6. n \in k .. n /\ n \notin Bad
  <2>1. n \in k .. n
    OBVIOUS
  <2>2. Bad = {}
    BY <1>5
  <2> QED
    BY <2>1, <2>2, Zenon
<1> QED
  BY <1>4, <1>6
\* What is less element by element is less in sum.
THEOREM SumMonotone ==
    ASSUME NEW a \in Seq(Int), NEW b \in Seq(Int), Len(a) = Len(b), \A i \in 1 .. Len(a) : a[i] <= b[i]
    PROVE  SumOf(a) <= SumOf(b)
<1> DEFINE s == SumsUpTo(a)
           t == SumsUpTo(b)
           n == Len(a)
           Bad == {m \in 0 .. n : ~(s[m] <= t[m])}
<1>1. SumsOver(s, a, n) /\ SumsOver(t, b, n) /\ s \in [0 .. n -> Int] /\ t \in [0 .. n -> Int] /\ n \in Nat
  BY SumsUpToType
<1>2. SumOf(a) = s[n] /\ SumOf(b) = t[n]
  BY DEF SumOf
<1>3. \A i \in 1 .. n : a[i] \in Int /\ b[i] \in Int /\ a[i] <= b[i]
  OBVIOUS
<1> HIDE DEF s, t, n
<1>4. ASSUME Bad # {} PROVE FALSE
  <2>1. PICK m \in Bad : \A i \in Bad : m <= i
    <3>1. Bad \subseteq Nat /\ Bad # {}
      BY <1>1, <1>4
    <3> HIDE DEF Bad
    <3> QED
      BY <3>1, LeastCounterexample
  <2>2. m # 0
    BY <1>1, <2>1 DEF SumsOver
  <2>3. m \in 1 .. n /\ m - 1 \in 0 .. n /\ s[m - 1] <= t[m - 1]
    BY <1>1, <2>1, <2>2
  <2>4. s[m] = s[m - 1] + a[m] /\ t[m] = t[m - 1] + b[m] /\ s[m - 1] \in Int /\ t[m - 1] \in Int
    BY <1>1, <2>3 DEF SumsOver
  <2>5. a[m] \in Int /\ b[m] \in Int /\ a[m] <= b[m]
    BY <1>3, <2>3
  <2>6. s[m] <= t[m]
    BY <2>3, <2>4, <2>5
  <2> QED
    BY <2>1, <2>6
<1>5. n \in 0 .. n /\ n \notin Bad
  <2>1. n \in 0 .. n
    BY <1>1
  <2>2. Bad = {}
    BY <1>4
  <2> QED
    BY <2>1, <2>2, Zenon
<1> QED
  BY <1>2, <1>5

\* A sum of zeros.
THEOREM SumOfZeros ==
    ASSUME NEW a \in Seq(Int), \A i \in 1 .. Len(a) : a[i] = 0
    PROVE  SumOf(a) = 0
<1> DEFINE s == SumsUpTo(a)
           n == Len(a)
           Bad == {m \in 0 .. n : s[m] # 0}
<1>1. SumsOver(s, a, n) /\ s \in [0 .. n -> Int] /\ n \in Nat
  BY SumsUpToType
<1>2. SumOf(a) = s[n]
  BY DEF SumOf
<1>3. \A i \in 1 .. n : a[i] = 0
  OBVIOUS
<1> HIDE DEF s, n
<1>4. ASSUME Bad # {} PROVE FALSE
  <2>1. PICK m \in Bad : \A i \in Bad : m <= i
    <3>1. Bad \subseteq Nat /\ Bad # {}
      BY <1>1, <1>4
    <3> HIDE DEF Bad
    <3> QED
      BY <3>1, LeastCounterexample
  <2>2. m # 0
    BY <1>1, <2>1 DEF SumsOver
  <2>3. m \in 1 .. n /\ m - 1 \in 0 .. n /\ s[m - 1] = 0
    BY <1>1, <2>1, <2>2
  <2>4. s[m] = s[m - 1] + a[m]
    BY <1>1, <2>3 DEF SumsOver
  <2>5. a[m] = 0
    BY <1>3, <2>3
  <2>6. s[m] = 0
    BY <2>3, <2>4, <2>5
  <2> QED
    BY <2>1, <2>6
<1>5. n \in 0 .. n /\ n \notin Bad
  <2>1. n \in 0 .. n
    BY <1>1
  <2>2. Bad = {}
    BY <1>4
  <2> QED
    BY <2>1, <2>2, Zenon
<1> QED
  BY <1>2, <1>5

\* No element of a sum of natural numbers is more than the sum.
THEOREM SumOfNaturals ==
    ASSUME NEW a \in Seq(Nat)
    PROVE  SumOf(a) \in Nat /\ \A k \in 1 .. Len(a) : a[k] <= SumOf(a)
<1> DEFINE n == Len(a)
           z == [i \in 1 .. n |-> 0]
<1>1. n \in Nat /\ a \in Seq(Int) /\ \A i \in 1 .. n : a[i] \in Nat
  OBVIOUS
<1>2. z \in Seq(Int) /\ Len(z) = n /\ \A i \in 1 .. n : z[i] = 0
  BY <1>1
<1> HIDE DEF z
<1>3. SumOf(z) = 0
  BY <1>2, SumOfZeros
<1>4. SumOf(a) \in Int /\ SumOf(z) <= SumOf(a)
  BY <1>1, <1>2, SumMonotone, SumType
<1>5. ASSUME NEW k \in 1 .. n
      PROVE  a[k] <= SumOf(a)
  <2> DEFINE b == [a EXCEPT ![k] = 0]
  <2>1. b \in Seq(Int) /\ Len(b) = n /\ b[k] = 0 /\ \A i \in 1 .. n : i # k => b[i] = a[i]
    BY <1>1, <1>5
  <2> HIDE DEF b
  <2>2. SumOf(b) = SumOf(a) + (b[k] - a[k])
    BY <1>1, <1>5, <2>1, SumOfChange
  <2>3. \A i \in 1 .. n : z[i] <= b[i]
    <3> SUFFICES ASSUME NEW i \in 1 .. n PROVE z[i] <= b[i]
      OBVIOUS
    <3>1. z[i] = 0 /\ a[i] \in Nat /\ (b[i] = 0 \/ b[i] = a[i])
      BY <1>1, <1>2, <2>1
    <3> QED
      BY <3>1
  <2>4. SumOf(z) <= SumOf(b) /\ SumOf(b) \in Int
    BY <1>2, <2>1, <2>3, SumMonotone, SumType
  <2>5. a[k] \in Nat
    BY <1>1, <1>5
  <2>6. SumOf(b) = SumOf(a) - a[k] /\ 0 <= SumOf(b)
    <3> DEFINE sum == SumOf(a)
               less == SumOf(b)
               one == a[k]
    <3>1. sum \in Int /\ less \in Int /\ one \in Int
      BY <1>4, <2>4, <2>5
    <3>2. less = sum + (0 - one)
      BY <2>1, <2>2, Zenon
    <3>3. 0 <= less
      BY <1>3, <2>4
    <3> HIDE DEF sum, less, one
    <3>4. less = sum - one
      BY <3>1, <3>2
    <3> QED
      BY <3>3, <3>4 DEF sum, less, one
  <2> HIDE DEF n
  <2> QED
    BY <1>4, <2>5, <2>6
<1> QED
  BY <1>3, <1>4, <1>5
--------------------------------------------------------------------------------
(* Sequences.                                                              *)

\* The head of a queue goes to the end of the one in front of it.
LEMMA QueueMoves ==
    ASSUME NEW S, NEW s \in Seq(S), NEW q \in Seq(S), q # <<>>
    PROVE  Append(s, Head(q)) \o Tail(q) = s \o q
<1>1. Head(q) \in S /\ Tail(q) \in Seq(S) /\ Len(Tail(q)) = Len(q) - 1 /\ Len(q) \in Nat /\ Len(q) > 0
  BY HeadTailProperties, EmptySeq, LenProperties
<1>2. Append(s, Head(q)) \o Tail(q) \in Seq(S) /\ s \o q \in Seq(S)
  BY <1>1, AppendProperties, ConcatProperties
<1>3. q = <<Head(q)>> \o Tail(q)
  BY <1>1
<1>4. Append(s, Head(q)) = s \o <<Head(q)>>
  BY <1>1, AppendIsConcat
<1>5. <<Head(q)>> \in Seq(S)
  BY <1>1
<1> QED
  BY <1>1, <1>3, <1>4, <1>5, ConcatAssociative

\* An element goes to the end of the second of two sequences.
LEMMA AppendToConcat ==
    ASSUME NEW S, NEW s \in Seq(S), NEW t \in Seq(S), NEW x \in S
    PROVE  s \o Append(t, x) = Append(s \o t, x)
<1>1. <<x>> \in Seq(S)
  OBVIOUS
<1> QED
  BY <1>1, AppendIsConcat, ConcatAssociative, ConcatProperties

\* A sequence is a prefix of what is put together from it.
LEMMA PartIsPrefix ==
    ASSUME NEW S, NEW s \in Seq(S), NEW r \in Seq(S) PROVE IsPrefix(s, s \o r)
<1> DEFINE t == s \o r
<1>1. t \in Seq(S) /\ Len(t) = Len(s) + Len(r) /\ Len(s) \in Nat /\ Len(r) \in Nat
  BY ConcatProperties, LenProperties
<1>2. \A i \in 1 .. Len(s) : t[i] = s[i]
  BY <1>1
<1> HIDE DEF t
<1>3. SubSeq(s, 1, Len(s)) = SubSeq(t, 1, Len(s))
  BY <1>1, <1>2
<1>4. IsPrefix(s, t)
  BY <1>1, <1>3 DEF IsPrefix
<1> QED
  BY <1>4 DEF t

\* The elements of a sequence with one more at its end.
LEMMA ToSetOfAppend ==
    ASSUME NEW S, NEW s \in Seq(S), NEW x \in S PROVE ToSet(Append(s, x)) = ToSet(s) \cup {x}
<1> DEFINE a == Append(s, x)
<1>1. a \in Seq(S) /\ Len(a) = Len(s) + 1 /\ Len(s) \in Nat /\ a[Len(s) + 1] = x
      /\ \A i \in 1 .. Len(s) : a[i] = s[i]
  OBVIOUS
<1>2. DOMAIN a = 1 .. Len(s) + 1 /\ DOMAIN s = 1 .. Len(s)
  BY <1>1
<1> HIDE DEF a
<1>3. ToSet(a) \subseteq ToSet(s) \cup {x}
  <2> SUFFICES ASSUME NEW i \in 1 .. Len(s) + 1 PROVE a[i] \in ToSet(s) \cup {x}
    BY <1>2 DEF ToSet
  <2> QED
    BY <1>1, <1>2 DEF ToSet
<1>4. ToSet(s) \cup {x} \subseteq ToSet(a)
  <2>1. Len(s) + 1 \in 1 .. Len(s) + 1 /\ \A i \in 1 .. Len(s) : i \in 1 .. Len(s) + 1
    BY <1>1
  <2> QED
    BY <1>1, <1>2, <2>1 DEF ToSet
<1> QED
  BY <1>3, <1>4 DEF a

\* The empty sequence has none.
LEMMA ToSetOfNone == ToSet(<<>>) = {}
BY DEF ToSet

\* And those of a sequence over S are in S.
LEMMA ToSetType == ASSUME NEW S, NEW s \in Seq(S) PROVE ToSet(s) \subseteq S
BY DEF ToSet

\* The head of a sequence and what is behind it.
LEMMA ToSetOfTail ==
    ASSUME NEW S, NEW s \in Seq(S), s # <<>> PROVE ToSet(s) \subseteq {Head(s)} \cup ToSet(Tail(s))
<1> DEFINE t == Tail(s)
           h == Head(s)
<1>1. Len(s) \in Nat /\ Len(s) > 0 /\ h = s[1] /\ t \in Seq(S) /\ Len(t) = Len(s) - 1
      /\ \A i \in 1 .. Len(s) - 1 : t[i] = s[i + 1]
  BY HeadTailProperties, EmptySeq, LenProperties
<1>2. DOMAIN s = 1 .. Len(s) /\ DOMAIN t = 1 .. Len(s) - 1
  BY <1>1
<1> HIDE DEF t, h
<1>3. ASSUME NEW i \in 1 .. Len(s) PROVE s[i] \in {h} \cup ToSet(t)
  <2>1. CASE i = 1
    BY <1>1, <2>1
  <2>2. CASE i # 1
    <3> DEFINE j == i - 1
    <3>1. j \in 1 .. Len(s) - 1 /\ j + 1 = i
      BY <1>1, <2>2
    <3> HIDE DEF j
    <3>2. s[i] = t[j]
      BY <1>1, <3>1
    <3> QED
      BY <1>2, <3>1, <3>2 DEF ToSet
  <2> QED
    BY <2>1, <2>2
<1> QED
  BY <1>2, <1>3 DEF ToSet, t, h

\* SetToSeq lists a finite set.
LEMMA SetToSeqLists ==
    ASSUME NEW S, IsFiniteSet(S)
    PROVE  SetToSeq(S) \in Seq(S) /\ Len(SetToSeq(S)) = Cardinality(S) /\ Cardinality(S) \in Nat
<1> DEFINE n == Cardinality(S)
<1>1. n \in Nat /\ ExistsBijection(1 .. n, S)
  BY FS_CardinalityType
<1>2. PICK f \in [1 .. n -> S] : IsInjective(f)
  BY <1>1 DEF ExistsBijection, Bijection, Injection
<1>3. SetToSeq(S) \in [1 .. n -> S]
  BY <1>2 DEF SetToSeq
<1> QED
  BY <1>1, <1>3, IsASeq, LenProperties

\* SetToSeq lists a finite set, each element once.
LEMMA SetToSeqListsOnce ==
    ASSUME NEW S, IsFiniteSet(S)
    PROVE  LET q == SetToSeq(S) IN
           /\ q \in Seq(S) /\ Len(q) \in Nat
           /\ \A i, j \in 1 .. Len(q) : q[i] = q[j] => i = j
           /\ \A s \in S : \E i \in 1 .. Len(q) : q[i] = s
<1> DEFINE n == Cardinality(S)
           q == SetToSeq(S)
<1>1. n \in Nat /\ ExistsBijection(1 .. n, S)
  BY FS_CardinalityType
<1>2. PICK f \in [1 .. n -> S] : IsInjective(f)
  BY <1>1 DEF ExistsBijection, Bijection, Injection
<1>3. q \in [1 .. n -> S] /\ IsInjective(q)
  BY <1>2 DEF SetToSeq
<1> HIDE DEF q
<1>4. q \in Injection(1 .. n, S)
  BY <1>3 DEF Injection
<1>5. Cardinality(1 .. n) = n
  BY <1>1, FS_Interval
<1>6. q \in Surjection(1 .. n, S)
  BY <1>4, <1>5, FS_Injection
<1>7. \A s \in S : \E i \in 1 .. n : q[i] = s
  BY <1>6 DEF Surjection
<1>8. q \in Seq(S) /\ Len(q) = n
  BY <1>1, <1>3, IsASeq, LenProperties
<1>9. \A i, j \in 1 .. n : q[i] = q[j] => i = j
  BY <1>3 DEF IsInjective
<1> QED
  BY <1>1, <1>7, <1>8, <1>9 DEF q

\* Two sequences one after the other, of known lengths.
LEMMA TwoJoined ==
    ASSUME NEW S, NEW a \in Seq(S), NEW b \in Seq(S), NEW m, m = Len(a), NEW n, n = Len(b)
    PROVE  /\ a \o b \in Seq(S) /\ Len(a \o b) = m + n
           /\ \A i \in 1 .. m + n : (a \o b)[i] = IF i <= m THEN a[i] ELSE b[i - m]
BY ConcatProperties

\* Three sequences one after the other.
LEMMA ThreeJoined ==
    ASSUME NEW S, NEW a \in Seq(S), NEW b \in Seq(S), NEW c \in Seq(S), NEW p, p = (a \o b) \o c
    PROVE  /\ p \in Seq(S)
           /\ Len(p) = Len(a) + Len(b) + Len(c)
           /\ \A i \in 1 .. Len(a) : p[i] = a[i]
           /\ \A i \in 1 .. Len(b) : p[Len(a) + i] = b[i]
           /\ \A i \in 1 .. Len(c) : p[Len(a) + Len(b) + i] = c[i]
<1> DEFINE ab == a \o b
<1>1. ab \in Seq(S)
  BY ConcatProperties
<1>2. /\ Len(ab) = Len(a) + Len(b)
      /\ \A i \in 1 .. Len(a) + Len(b) : ab[i] = IF i <= Len(a) THEN a[i] ELSE b[i - Len(a)]
  BY ConcatProperties
<1> HIDE DEF ab
<1>3. /\ p \in Seq(S)
      /\ Len(p) = Len(ab) + Len(c)
      /\ \A i \in 1 .. Len(ab) + Len(c) : p[i] = IF i <= Len(ab) THEN ab[i] ELSE c[i - Len(ab)]
  <2>1. /\ ab \o c \in Seq(S)
        /\ Len(ab \o c) = Len(ab) + Len(c)
        /\ \A i \in 1 .. Len(ab) + Len(c) : (ab \o c)[i] = IF i <= Len(ab) THEN ab[i] ELSE c[i - Len(ab)]
    BY <1>1, ConcatProperties
  <2>2. p = ab \o c
    BY DEF ab
  <2> QED
    BY <2>1, <2>2, Zenon
<1>4. Len(a) \in Nat /\ Len(b) \in Nat /\ Len(c) \in Nat
  BY LenProperties
<1> DEFINE l == Len(a)
           m == Len(b)
           n == Len(c)
<1>5. /\ l \in Nat /\ m \in Nat /\ n \in Nat
      /\ Len(ab) = l + m
      /\ Len(p) = Len(ab) + n
      /\ \A i \in 1 .. l + m : ab[i] = IF i <= l THEN a[i] ELSE b[i - l]
      /\ \A i \in 1 .. Len(ab) + n : p[i] = IF i <= Len(ab) THEN ab[i] ELSE c[i - Len(ab)]
  BY <1>2, <1>3, <1>4
<1> HIDE DEF l, m, n
<1>6. Len(p) = l + m + n
  BY <1>5
<1>7. \A i \in 1 .. l + m + n : p[i] = IF i <= l + m THEN ab[i] ELSE c[i - (l + m)]
  BY <1>5
<1>8. \A i \in 1 .. l : p[i] = a[i]
  <2> TAKE i \in 1 .. l
  <2>1. i \in 1 .. l + m /\ i \in 1 .. l + m + n /\ i <= l /\ i <= l + m
    BY <1>5
  <2> QED
    BY <1>5, <1>7, <2>1
<1>9. \A i \in 1 .. m : p[l + i] = b[i]
  <2> TAKE i \in 1 .. m
  <2>1. l + i \in 1 .. l + m /\ l + i \in 1 .. l + m + n /\ ~(l + i <= l) /\ l + i <= l + m /\ (l + i) - l = i
    BY <1>5
  <2> QED
    BY <1>5, <1>7, <2>1
<1>10. \A i \in 1 .. n : p[l + m + i] = c[i]
  <2> TAKE i \in 1 .. n
  <2>1. l + m + i \in 1 .. l + m + n /\ ~(l + m + i <= l + m) /\ (l + m + i) - (l + m) = i
    BY <1>5
  <2> QED
    BY <1>7, <2>1
<1> QED
  BY <1>3, <1>6, <1>8, <1>9, <1>10, Zenon DEF l, m, n

--------------------------------------------------------------------------------
(* Sums over finite sets.                                                  *)

\* The values of a function on a finite set, in the order of SetToSeq.
LEMMA RowType ==
    ASSUME NEW T, IsFiniteSet(T), NEW S, NEW f \in [T -> S]
    PROVE  LET q == SetToSeq(T)
               r == [i \in DOMAIN q |-> f[q[i]]] IN
           r \in Seq(S) /\ Len(r) = Len(q) /\ \A i \in 1 .. Len(q) : r[i] = f[q[i]]
<1> DEFINE q == SetToSeq(T)
           n == Len(q)
<1>1. q \in Seq(T) /\ n \in Nat /\ \A i \in 1 .. n : q[i] \in T
  BY SetToSeqListsOnce, ElementOfSeq
<1>2. DOMAIN q = 1 .. n
  BY <1>1
<1> HIDE DEF q, n
<1>3. [i \in DOMAIN q |-> f[q[i]]] \in [1 .. n -> S]
  BY <1>1, <1>2
<1> QED
  BY <1>1, <1>2, <1>3, IsASeq, LenProperties DEF q, n

\* A value that changes changes the sum over a finite set by as much;
THEOREM TotalChange ==
    ASSUME NEW T, IsFiniteSet(T), NEW f \in [T -> Int], NEW g \in [T -> Int], NEW s \in T,
           \A u \in T : u # s => g[u] = f[u]
    PROVE  TotalOf(T, g) = TotalOf(T, f) + (g[s] - f[s])
<1> DEFINE q == SetToSeq(T)
           a == [i \in DOMAIN q |-> f[q[i]]]
           b == [i \in DOMAIN q |-> g[q[i]]]
           n == Len(q)
<1>1. a \in Seq(Int) /\ b \in Seq(Int) /\ Len(a) = n /\ Len(b) = n
      /\ \A i \in 1 .. n : a[i] = f[q[i]] /\ b[i] = g[q[i]]
  <2>1. a \in Seq(Int) /\ Len(a) = n /\ \A i \in 1 .. n : a[i] = f[q[i]]
    BY RowType
  <2>2. b \in Seq(Int) /\ Len(b) = n /\ \A i \in 1 .. n : b[i] = g[q[i]]
    BY RowType
  <2> HIDE DEF a, b, q, n
  <2> QED
    BY <2>1, <2>2
<1>2. q \in Seq(T) /\ n \in Nat /\ \A i, j \in 1 .. n : q[i] = q[j] => i = j
  BY SetToSeqListsOnce
<1>3. PICK k \in 1 .. n : q[k] = s
  BY SetToSeqListsOnce
<1> HIDE DEF q, n
<1>4. \A i \in 1 .. n : q[i] \in T
  BY <1>2, ElementOfSeq DEF n
<1> HIDE DEF a, b
<1>5. \A i \in 1 .. Len(a) : i # k => b[i] = a[i]
  <2> SUFFICES ASSUME NEW i \in 1 .. n, i # k PROVE b[i] = a[i]
    BY <1>1
  <2>1. q[i] # q[k] /\ q[i] \in T
    BY <1>2, <1>4
  <2> QED
    BY <1>1, <1>3, <2>1
<1>6. SumOf(b) = SumOf(a) + (b[k] - a[k])
  <2>1. a \in Seq(Int) /\ b \in Seq(Int) /\ Len(a) = Len(b) /\ k \in 1 .. Len(a)
    BY <1>1, <1>3
  <2> QED
    BY <1>5, <2>1, SumOfChange
<1>7. b[k] = g[s] /\ a[k] = f[s]
  BY <1>1, <1>3
<1>8. TotalOf(T, f) = SumOf(a) /\ TotalOf(T, g) = SumOf(b)
  BY DEF TotalOf, a, b, q
<1> QED
  BY <1>6, <1>7, <1>8

\* what is less value by value is less in sum;
THEOREM TotalMonotone ==
    ASSUME NEW T, IsFiniteSet(T), NEW f \in [T -> Int], NEW g \in [T -> Int],
           \A u \in T : f[u] <= g[u]
    PROVE  TotalOf(T, f) <= TotalOf(T, g)
<1> DEFINE q == SetToSeq(T)
           a == [i \in DOMAIN q |-> f[q[i]]]
           b == [i \in DOMAIN q |-> g[q[i]]]
           n == Len(q)
<1>1. a \in Seq(Int) /\ b \in Seq(Int) /\ Len(a) = n /\ Len(b) = n
      /\ \A i \in 1 .. n : a[i] = f[q[i]] /\ b[i] = g[q[i]]
  <2>1. a \in Seq(Int) /\ Len(a) = n /\ \A i \in 1 .. n : a[i] = f[q[i]]
    BY RowType
  <2>2. b \in Seq(Int) /\ Len(b) = n /\ \A i \in 1 .. n : b[i] = g[q[i]]
    BY RowType
  <2> HIDE DEF a, b, q, n
  <2> QED
    BY <2>1, <2>2
<1>2. \A i \in 1 .. n : q[i] \in T
  BY SetToSeqListsOnce, ElementOfSeq
<1> HIDE DEF a, b, q, n
<1>3. \A i \in 1 .. Len(a) : a[i] <= b[i]
  BY <1>1, <1>2
<1>4. SumOf(a) <= SumOf(b)
  BY <1>1, <1>3, SumMonotone
<1> QED
  BY <1>4 DEF TotalOf, a, b, q

\* zeros sum to zero;
THEOREM TotalZeros ==
    ASSUME NEW T, IsFiniteSet(T), NEW f \in [T -> Int], \A u \in T : f[u] = 0
    PROVE  TotalOf(T, f) = 0
<1> DEFINE q == SetToSeq(T)
           a == [i \in DOMAIN q |-> f[q[i]]]
           n == Len(q)
<1>1. a \in Seq(Int) /\ Len(a) = n /\ \A i \in 1 .. n : a[i] = f[q[i]]
  BY RowType
<1>2. \A i \in 1 .. n : q[i] \in T
  BY SetToSeqListsOnce, ElementOfSeq
<1> HIDE DEF a, q, n
<1>3. \A i \in 1 .. Len(a) : a[i] = 0
  BY <1>1, <1>2
<1>4. SumOf(a) = 0
  BY <1>1, <1>3, SumOfZeros
<1> QED
  BY <1>4 DEF TotalOf, a, q

\* and no natural number is more than the sum it is in.
THEOREM TotalNaturals ==
    ASSUME NEW T, IsFiniteSet(T), NEW f \in [T -> Nat]
    PROVE  TotalOf(T, f) \in Nat /\ \A u \in T : f[u] <= TotalOf(T, f)
<1> DEFINE q == SetToSeq(T)
           a == [i \in DOMAIN q |-> f[q[i]]]
           n == Len(q)
<1>1. a \in Seq(Nat) /\ Len(a) = n /\ \A i \in 1 .. n : a[i] = f[q[i]]
  BY RowType
<1>2. \A s \in T : \E i \in 1 .. n : q[i] = s
  BY SetToSeqListsOnce
<1>3. TotalOf(T, f) = SumOf(a)
  BY DEF TotalOf
<1> HIDE DEF a, q, n
<1>4. SumOf(a) \in Nat /\ \A k \in 1 .. Len(a) : a[k] <= SumOf(a)
  BY <1>1, SumOfNaturals
<1>5. ASSUME NEW u \in T PROVE f[u] <= SumOf(a)
  <2>1. PICK i \in 1 .. n : q[i] = u
    BY <1>2
  <2>2. a[i] = f[u] /\ a[i] <= SumOf(a)
    BY <1>1, <1>4, <2>1
  <2> QED
    BY <2>2
<1> QED
  BY <1>3, <1>4, <1>5

--------------------------------------------------------------------------------
(* Sequences of sequences, put together.                                   *)

\* f puts the first n sequences of ss together.
Joins(f, ss, n) == f[1] = ss[1] /\ \A i \in 2 .. n : f[i] = f[i - 1] \o ss[i]

\* r is made of the first n sequences of ss, in their order.
PiecedFrom(r, ss, n) ==
    /\ \A j \in 1 .. Len(r) : \E k \in 1 .. n : \E a \in 1 .. Len(ss[k]) : r[j] = ss[k][a]
    /\ \A k \in 1 .. n : \A a \in 1 .. Len(ss[k]) : \E j \in 1 .. Len(r) : r[j] = ss[k][a]
    /\ \A i, j \in 1 .. Len(r) : i < j =>
         \E k, l \in 1 .. n : \E a \in 1 .. Len(ss[k]), b \in 1 .. Len(ss[l]) :
            /\ r[i] = ss[k][a] /\ r[j] = ss[l][b]
            /\ k < l \/ (k = l /\ a < b)

\* One more sequence.
LEMMA JoinOneMore ==
    ASSUME NEW S, NEW ss \in Seq(Seq(S)), NEW n \in 1 .. Len(ss), n - 1 \in 1 .. Len(ss),
           NEW r \in Seq(S), PiecedFrom(r, ss, n - 1)
    PROVE  r \o ss[n] \in Seq(S) /\ PiecedFrom(r \o ss[n], ss, n)
<1>2. PICK t \in Seq(S) : t = ss[n]
  BY ElementOfSeq
<1>1. PICK q \in Seq(S) : q = r \o ss[n]
  BY <1>2, ConcatProperties
<1>3. PICK m \in Nat : m = Len(r)
  BY LenProperties
<1>4. PICK c \in Nat : c = Len(t)
  BY LenProperties
<1>5. /\ Len(q) = m + c
      /\ \A j \in 1 .. m : q[j] = r[j]
      /\ \A a \in 1 .. c : q[m + a] = t[a]
  BY <1>1, <1>2, <1>3, <1>4, ConcatProperties
<1>6. /\ \A j \in 1 .. m : \E k \in 1 .. n - 1 : \E a \in 1 .. Len(ss[k]) : r[j] = ss[k][a]
      /\ \A k \in 1 .. n - 1 : \A a \in 1 .. Len(ss[k]) : \E j \in 1 .. m : r[j] = ss[k][a]
      /\ \A i, j \in 1 .. m : i < j =>
           \E k, l \in 1 .. n - 1 : \E a \in 1 .. Len(ss[k]), b \in 1 .. Len(ss[l]) :
              /\ r[i] = ss[k][a] /\ r[j] = ss[l][b]
              /\ k < l \/ (k = l /\ a < b)
  BY <1>3 DEF PiecedFrom
<1>7. Len(ss) \in Nat /\ n \in Nat /\ n >= 2 /\ n \in 1 .. n /\ \A k \in 1 .. n - 1 : k \in 1 .. n /\ k < n
  BY LenProperties
<1>8. \A j \in 1 .. m + c : \E k \in 1 .. n : \E a \in 1 .. Len(ss[k]) : q[j] = ss[k][a]
  <2> TAKE j \in 1 .. m + c
  <2>1. CASE j \in 1 .. m
    <3>1. PICK k \in 1 .. n - 1 : \E a \in 1 .. Len(ss[k]) : r[j] = ss[k][a]
      BY <1>6, <2>1
    <3>2. q[j] = r[j] /\ k \in 1 .. n
      BY <1>5, <1>7, <2>1
    <3> QED
      BY <3>1, <3>2
  <2>2. CASE j \notin 1 .. m
    <3>1. j - m \in 1 .. c /\ j = m + (j - m)
      BY <2>2
    <3>2. q[j] = t[j - m]
      BY <1>5, <3>1
    <3> QED
      BY <1>2, <1>4, <1>7, <3>1, <3>2
  <2> QED
    BY <2>1, <2>2
<1>9. \A k \in 1 .. n : \A a \in 1 .. Len(ss[k]) : \E j \in 1 .. m + c : q[j] = ss[k][a]
  <2> TAKE k \in 1 .. n
  <2> TAKE a \in 1 .. Len(ss[k])
  <2>1. CASE k = n
    <3>1. a \in 1 .. c /\ ss[k][a] = t[a]
      BY <1>2, <1>4, <2>1
    <3>2. m + a \in 1 .. m + c /\ q[m + a] = t[a]
      BY <1>5, <3>1
    <3> QED
      BY <3>1, <3>2
  <2>2. CASE k # n
    <3>1. k \in 1 .. n - 1
      BY <1>7, <2>2
    <3>2. PICK j \in 1 .. m : r[j] = ss[k][a]
      BY <1>6, <3>1
    <3>3. j \in 1 .. m + c /\ q[j] = r[j]
      BY <1>5
    <3> QED
      BY <3>2, <3>3
  <2> QED
    BY <2>1, <2>2
<1>10. ASSUME NEW i \in 1 .. m + c, NEW j \in 1 .. m + c, i < j
       PROVE  \E k, l \in 1 .. n : \E a \in 1 .. Len(ss[k]), b \in 1 .. Len(ss[l]) :
                 /\ q[i] = ss[k][a] /\ q[j] = ss[l][b]
                 /\ k < l \/ (k = l /\ a < b)
  <2>1. CASE j \in 1 .. m
    <3>1. i \in 1 .. m
      BY <1>10, <2>1
    <3>2. PICK k \in 1 .. n - 1, l \in 1 .. n - 1 :
             \E a \in 1 .. Len(ss[k]), b \in 1 .. Len(ss[l]) :
                r[i] = ss[k][a] /\ r[j] = ss[l][b] /\ (k < l \/ (k = l /\ a < b))
      BY <1>6, <1>10, <2>1, <3>1
    <3>3. q[i] = r[i] /\ q[j] = r[j] /\ k \in 1 .. n /\ l \in 1 .. n
      BY <1>5, <1>7, <2>1, <3>1
    <3> QED
      BY <3>2, <3>3
  <2>2. CASE j \notin 1 .. m
    <3>1. j - m \in 1 .. c /\ j = m + (j - m)
      BY <2>2
    <3>2. q[j] = ss[n][j - m] /\ j - m \in 1 .. Len(ss[n])
      BY <1>2, <1>4, <1>5, <3>1
    <3>3. CASE i \in 1 .. m
      <4>1. PICK k \in 1 .. n - 1 : \E a \in 1 .. Len(ss[k]) : r[i] = ss[k][a]
        BY <1>6, <3>3
      <4>2. q[i] = r[i] /\ k \in 1 .. n /\ k < n
        BY <1>5, <1>7, <3>3
      <4> QED
        BY <1>7, <3>2, <4>1, <4>2
    <3>4. CASE i \notin 1 .. m
      <4>1. i - m \in 1 .. c /\ i = m + (i - m) /\ i - m < j - m
        BY <1>10, <3>4
      <4>2. q[i] = ss[n][i - m] /\ i - m \in 1 .. Len(ss[n])
        BY <1>2, <1>4, <1>5, <4>1
      <4> QED
        BY <1>7, <3>2, <4>1, <4>2
    <3> QED
      BY <3>3, <3>4
  <2> QED
    BY <2>1, <2>2
<1>11. PiecedFrom(q, ss, n)
  BY <1>5, <1>8, <1>9, <1>10 DEF PiecedFrom
<1> QED
  BY <1>1, <1>11

\* There are functions that join.
LEMMA Joined ==
    ASSUME NEW S, NEW ss \in Seq(Seq(S)), NEW n \in 1 .. Len(ss)
    PROVE  \E f \in [1 .. n -> Seq(S)] : Joins(f, ss, n) /\ PiecedFrom(f[n], ss, n)
<1> DEFINE Bad == {m \in 1 .. Len(ss) : ~\E f \in [1 .. m -> Seq(S)] : Joins(f, ss, m) /\ PiecedFrom(f[m], ss, m)}
<1> SUFFICES ASSUME Bad # {} PROVE FALSE
  OBVIOUS
<1>0. Len(ss) \in Nat
  BY LenProperties
<1>1. PICK m \in Bad : \A k \in Bad : m <= k
  <2>1. Bad \subseteq Nat /\ Bad # {}
    BY <1>0
  <2> HIDE DEF Bad
  <2> QED
    BY <2>1, LeastCounterexample
<1>2. m # 1
  <2>1. PICK f \in [1 .. 1 -> Seq(S)] : f[1] = ss[1]
    <3>1. ss[1] \in Seq(S)
      BY <1>0, <1>1
    <3>2. [i \in 1 .. 1 |-> ss[1]] \in [1 .. 1 -> Seq(S)]
      BY <3>1
    <3>3. 1 \in 1 .. 1
      OBVIOUS
    <3>4. [i \in 1 .. 1 |-> ss[1]][1] = ss[1]
      BY <3>3
    <3> QED
      BY <3>2, <3>4
  <2>2. Joins(f, ss, 1)
    BY <2>1 DEF Joins
  <2>3. PiecedFrom(ss[1], ss, 1)
    <3>1. PICK r \in Seq(S) : r = ss[1]
      BY <1>0, <1>1
    <3>2. \A k \in 1 .. 1 : k = 1
      OBVIOUS
    <3>3. 1 \in 1 .. 1
      OBVIOUS
    <3> QED
      BY <3>1, <3>2, <3>3, Zenon DEF PiecedFrom
  <2> QED
    BY <1>1, <2>1, <2>2, <2>3
<1>3. m - 1 \in 1 .. Len(ss) /\ m - 1 \notin Bad /\ m \in 1 .. Len(ss)
  <2>1. m \in 1 .. Len(ss)
    BY <1>1
  <2>2. m - 1 \in 1 .. Len(ss) /\ ~(m <= m - 1)
    BY <1>0, <1>2, <2>1
  <2>3. m - 1 \notin Bad
    <3> HIDE DEF Bad
    <3> QED
      BY <1>1, <2>2
  <2> QED
    BY <2>1, <2>2, <2>3
<1>4. PICK f \in [1 .. m - 1 -> Seq(S)] : Joins(f, ss, m - 1) /\ PiecedFrom(f[m - 1], ss, m - 1)
  BY <1>3
<1>5. f[m - 1] \in Seq(S)
  BY <1>3, <1>4
<1>6. f[m - 1] \o ss[m] \in Seq(S) /\ PiecedFrom(f[m - 1] \o ss[m], ss, m)
  BY <1>3, <1>4, <1>5, JoinOneMore
<1>7. PICK g \in [1 .. m -> Seq(S)] : \A i \in 1 .. m : g[i] = IF i = m THEN f[m - 1] \o ss[m] ELSE f[i]
  <2> DEFINE g == [i \in 1 .. m |-> IF i = m THEN f[m - 1] \o ss[m] ELSE f[i]]
  <2>1. \A i \in 1 .. m : i # m => i \in 1 .. m - 1
    BY <1>0, <1>1
  <2>2. g \in [1 .. m -> Seq(S)]
    BY <1>4, <1>6, <2>1
  <2> QED
    BY <2>2
<1>8. Joins(g, ss, m)
  <2>1. 1 \in 1 .. m /\ 1 # m /\ m \in 1 .. m /\ m - 1 \in 1 .. m /\ m - 1 # m
    BY <1>0, <1>1, <1>2
  <2>2. g[1] = ss[1]
    BY <1>4, <1>7, <2>1 DEF Joins
  <2>3. \A i \in 2 .. m : g[i] = g[i - 1] \o ss[i]
    <3> TAKE i \in 2 .. m
    <3>1. CASE i = m
      BY <1>7, <2>1, <3>1
    <3>2. CASE i # m
      <4>1. i \in 2 .. m - 1 /\ i \in 1 .. m /\ i - 1 \in 1 .. m /\ i - 1 # m
        BY <1>0, <1>1, <3>2
      <4>2. g[i] = f[i] /\ g[i - 1] = f[i - 1]
        BY <1>7, <3>2, <4>1
      <4> QED
        BY <1>4, <4>1, <4>2 DEF Joins
    <3> QED
      BY <3>1, <3>2
  <2> QED
    BY <2>2, <2>3 DEF Joins
<1>9. PiecedFrom(g[m], ss, m)
  <2>1. m \in 1 .. m
    BY <1>0, <1>3
  <2>2. g[m] = f[m - 1] \o ss[m]
    BY <1>7, <2>1
  <2> QED
    BY <1>6, <2>2
<1> QED
  BY <1>1, <1>8, <1>9

\* What FlattenSeq makes of sequences.
LEMMA FlattenSeqProperties ==
    ASSUME NEW S, NEW ss \in Seq(Seq(S))
    PROVE  FlattenSeq(ss) \in Seq(S) /\ PiecedFrom(FlattenSeq(ss), ss, Len(ss))
<1>0. PICK n \in Nat : n = Len(ss)
  BY LenProperties
<1>1. CASE n = 0
  <2>1. ss = <<>> /\ FlattenSeq(ss) = <<>>
    BY <1>0, <1>1, EmptySeq DEF FlattenSeq
  <2>2. 1 .. 0 = {} /\ Len(<<>>) = 0 /\ <<>> \in Seq(S)
    OBVIOUS
  <2>3. PiecedFrom(<<>>, ss, 0)
    BY <2>2 DEF PiecedFrom
  <2> QED
    BY <1>0, <1>1, <2>1, <2>2, <2>3
<1>2. CASE n # 0
  <2> DEFINE Is(f) == f = [i \in 1 .. Len(ss) |-> IF i = 1 THEN ss[i] ELSE f[i - 1] \o ss[i]]
             s == CHOOSE f : Is(f)
  <2>0. 1 \in 1 .. n /\ n \in 1 .. n /\ \A i \in 2 .. n : i \in 1 .. n /\ i # 1 /\ i - 1 \in 1 .. n
    BY <1>2
  <2>1. PICK f \in [1 .. n -> Seq(S)] : Joins(f, ss, n) /\ PiecedFrom(f[n], ss, n)
    BY <1>0, <2>0, Joined
  <2>2. Is(f)
    <3>1. \A i \in 1 .. n : f[i] = IF i = 1 THEN ss[i] ELSE f[i - 1] \o ss[i]
      <4> TAKE i \in 1 .. n
      <4>1. i = 1 \/ i \in 2 .. n
        OBVIOUS
      <4>2. f[1] = ss[1] /\ \A k \in 2 .. n : f[k] = f[k - 1] \o ss[k]
        BY <2>1 DEF Joins
      <4>3. \A k \in 2 .. n : k # 1
        OBVIOUS
      <4> QED
        BY <4>1, <4>2, <4>3
    <3> QED
      BY <1>0, <2>1, <3>1
  <2>3. Is(s)
    BY <2>2
  <2>4. FlattenSeq(ss) = s[n]
    BY <1>0, <1>2 DEF FlattenSeq
  <2> HIDE DEF s
  <2>5. s[1] = ss[1] /\ \A i \in 2 .. n : s[i] = s[i - 1] \o ss[i]
    <3>1. \A i \in 1 .. n : s[i] = IF i = 1 THEN ss[i] ELSE s[i - 1] \o ss[i]
      BY <1>0, <2>3
    <3> QED
      BY <2>0, <3>1
  <2>6. \A i \in 1 .. n : s[i] = f[i]
    <3> DEFINE Bad == {i \in 1 .. n : s[i] # f[i]}
    <3> SUFFICES ASSUME Bad # {} PROVE FALSE
      OBVIOUS
    <3>1. PICK i \in Bad : \A k \in Bad : i <= k
      <4>1. Bad \subseteq Nat /\ Bad # {}
        OBVIOUS
      <4> HIDE DEF Bad
      <4> QED
        BY <4>1, LeastCounterexample
    <3>2. i # 1
      BY <2>1, <2>5, <3>1 DEF Joins
    <3>3. i \in 2 .. n /\ i - 1 \in 1 .. n /\ ~(i <= i - 1)
      BY <3>1, <3>2
    <3>4. s[i - 1] = f[i - 1]
      BY <3>1, <3>3
    <3> QED
      BY <2>1, <2>5, <3>1, <3>3, <3>4 DEF Joins
  <2> QED
    BY <1>0, <2>0, <2>1, <2>4, <2>6
<1> QED
  BY <1>1, <1>2

\* The elements of a sequence are finitely many.
LEMMA ToSetFinite == ASSUME NEW S, NEW s \in Seq(S) PROVE IsFiniteSet(ToSet(s))
<1>1. PICK n \in Nat : n = Len(s)
  BY LenProperties
<1>2. DOMAIN s = 1 .. n
  BY <1>1, LenProperties
<1>3. IsFiniteSet(1 .. n)
  BY FS_Interval
<1>4. s \in Surjection(1 .. n, ToSet(s))
  <2>1. s \in [1 .. n -> ToSet(s)]
    <3>1. \A i \in 1 .. n : s[i] \in ToSet(s)
      BY <1>2 DEF ToSet
    <3>2. s \in [1 .. n -> S]
      BY <1>1, LenProperties
    <3> QED
      BY <3>1, <3>2
  <2>2. \A x \in ToSet(s) : \E i \in 1 .. n : s[i] = x
    BY <1>2 DEF ToSet
  <2> QED
    BY <2>1, <2>2 DEF Surjection
<1> QED
  BY <1>3, <1>4, FS_Surjection

\* The elements of two sequences one after the other.
LEMMA ToSetOfConcat ==
    ASSUME NEW S, NEW s \in Seq(S), NEW t \in Seq(S) PROVE ToSet(s \o t) = ToSet(s) \cup ToSet(t)
<1>1. PICK m \in Nat, n \in Nat : m = Len(s) /\ n = Len(t)
  BY LenProperties
<1>2. PICK q : q = s \o t
  OBVIOUS
<1>3. /\ q \in Seq(S) /\ Len(q) = m + n
      /\ \A i \in 1 .. m + n : q[i] = IF i <= m THEN s[i] ELSE t[i - m]
  BY <1>1, <1>2, TwoJoined
<1>4. DOMAIN q = 1 .. m + n /\ DOMAIN s = 1 .. m /\ DOMAIN t = 1 .. n
  BY <1>1, <1>3, LenProperties
<1>5. \A i \in 1 .. m + n : q[i] \in ToSet(s) \cup ToSet(t)
  <2> TAKE i \in 1 .. m + n
  <2>1. CASE i <= m
    <3>1. i \in 1 .. m /\ q[i] = s[i]
      BY <1>3, <2>1
    <3> QED
      BY <1>4, <3>1 DEF ToSet
  <2>2. CASE ~(i <= m)
    <3>1. i - m \in 1 .. n /\ q[i] = t[i - m]
      BY <1>3, <2>2
    <3> QED
      BY <1>4, <3>1 DEF ToSet
  <2> QED
    BY <2>1, <2>2
<1>6. \A i \in 1 .. m : s[i] \in ToSet(q)
  <2> TAKE i \in 1 .. m
  <2>1. i \in 1 .. m + n /\ q[i] = s[i]
    BY <1>3
  <2> QED
    BY <1>4, <2>1 DEF ToSet
<1>7. \A i \in 1 .. n : t[i] \in ToSet(q)
  <2> TAKE i \in 1 .. n
  <2>1. m + i \in 1 .. m + n /\ ~(m + i <= m) /\ (m + i) - m = i
    OBVIOUS
  <2>2. q[m + i] = t[i]
    BY <1>3, <2>1
  <2> QED
    BY <1>4, <2>1, <2>2 DEF ToSet
<1>8. ToSet(q) \subseteq ToSet(s) \cup ToSet(t)
  BY <1>4, <1>5 DEF ToSet
<1>9. ToSet(s) \cup ToSet(t) \subseteq ToSet(q)
  <2>1. ToSet(s) = {s[i] : i \in 1 .. m} /\ ToSet(t) = {t[i] : i \in 1 .. n}
    BY <1>4 DEF ToSet
  <2> QED
    BY <1>6, <1>7, <2>1
<1> QED
  BY <1>2, <1>8, <1>9

--------------------------------------------------------------------------------
(* What may come after what: R[x] are the elements that may come after x.   *)

Ordered(s, R) == \A i, j \in 1 .. Len(s) : i < j => s[j] \in R[s[i]]
AllAfter(A, B, R) == \A x \in A : \A y \in B : y \in R[x]

\* A sequence of one element is in any order.
LEMMA OrderedOne == ASSUME NEW x, NEW R PROVE Ordered(<<x>>, R) /\ Ordered(<<>>, R)
<1>1. Len(<<x>>) = 1 /\ Len(<<>>) = 0
  OBVIOUS
<1>2. \A i, j \in 1 .. 1 : ~(i < j)
  OBVIOUS
<1>3. \A i, j \in 1 .. 0 : ~(i < j)
  OBVIOUS
<1> QED
  BY <1>1, <1>2, <1>3 DEF Ordered

\* The sequence of one element, and what is in it.
LEMMA OneElement ==
    ASSUME NEW S, NEW x \in S, NEW R
    PROVE  \E f \in Seq(S) : f = <<x>> /\ ToSet(f) = {x} /\ Ordered(f, R)
<1>1. <<x>> \in Seq(S) /\ ToSet(<<x>>) = {x}
  BY DEF ToSet
<1> QED
  BY <1>1, OrderedOne

\* Two ordered sequences, the second of which may come after the first.
LEMMA OrderedConcat ==
    ASSUME NEW S, NEW s \in Seq(S), NEW t \in Seq(S), NEW R
    PROVE  Ordered(s \o t, R) <=> Ordered(s, R) /\ Ordered(t, R) /\ AllAfter(ToSet(s), ToSet(t), R)
<1>1. PICK m \in Nat, n \in Nat : m = Len(s) /\ n = Len(t)
  BY LenProperties
<1>2. PICK q : q = s \o t
  OBVIOUS
<1>3. /\ q \in Seq(S) /\ Len(q) = m + n
      /\ \A i \in 1 .. m + n : q[i] = IF i <= m THEN s[i] ELSE t[i - m]
  BY <1>1, <1>2, TwoJoined
<1>4. DOMAIN s = 1 .. m /\ DOMAIN t = 1 .. n
  BY <1>1, LenProperties
<1>5. \A i \in 1 .. m : i \in 1 .. m + n /\ q[i] = s[i]
  BY <1>3
<1>6. \A i \in 1 .. n : m + i \in 1 .. m + n /\ q[m + i] = t[i]
  <2> TAKE i \in 1 .. n
  <2>1. m + i \in 1 .. m + n /\ ~(m + i <= m) /\ (m + i) - m = i
    OBVIOUS
  <2> QED
    BY <1>3, <2>1
<1>7. ASSUME Ordered(q, R)
      PROVE  Ordered(s, R) /\ Ordered(t, R) /\ AllAfter(ToSet(s), ToSet(t), R)
  <2>0. \A i, j \in 1 .. m + n : i < j => q[j] \in R[q[i]]
    BY <1>3, <1>7 DEF Ordered
  <2>1. Ordered(s, R)
    <3> SUFFICES ASSUME NEW i \in 1 .. m, NEW j \in 1 .. m, i < j PROVE s[j] \in R[s[i]]
      BY <1>1 DEF Ordered
    <3>1. i \in 1 .. m + n /\ j \in 1 .. m + n /\ q[i] = s[i] /\ q[j] = s[j]
      BY <1>5
    <3>2. q[j] \in R[q[i]]
      BY <2>0, <3>1
    <3> QED
      BY <3>1, <3>2
  <2>2. Ordered(t, R)
    <3> SUFFICES ASSUME NEW i \in 1 .. n, NEW j \in 1 .. n, i < j PROVE t[j] \in R[t[i]]
      BY <1>1 DEF Ordered
    <3>1. m + i \in 1 .. m + n /\ m + j \in 1 .. m + n /\ q[m + i] = t[i] /\ q[m + j] = t[j]
      BY <1>6
    <3>2. m + i < m + j
      OBVIOUS
    <3>3. q[m + j] \in R[q[m + i]]
      BY <2>0, <3>1, <3>2
    <3> QED
      BY <3>1, <3>3
  <2>3. \A i \in 1 .. m, j \in 1 .. n : t[j] \in R[s[i]]
    <3> TAKE i \in 1 .. m, j \in 1 .. n
    <3>1. i \in 1 .. m + n /\ m + j \in 1 .. m + n /\ q[i] = s[i] /\ q[m + j] = t[j] /\ i < m + j
      BY <1>5, <1>6
    <3>2. q[m + j] \in R[q[i]]
      BY <2>0, <3>1
    <3> QED
      BY <3>1, <3>2
  <2>4. AllAfter(ToSet(s), ToSet(t), R)
    BY <1>4, <2>3 DEF AllAfter, ToSet
  <2> QED
    BY <2>1, <2>2, <2>4
<1>8. ASSUME Ordered(s, R), Ordered(t, R), AllAfter(ToSet(s), ToSet(t), R)
      PROVE  Ordered(q, R)
  <2> SUFFICES ASSUME NEW i \in 1 .. m + n, NEW j \in 1 .. m + n, i < j PROVE q[j] \in R[q[i]]
    BY <1>3 DEF Ordered
  <2>1. CASE j <= m
    <3>1. i \in 1 .. m /\ j \in 1 .. m
      BY <2>1
    <3>2. q[i] = s[i] /\ q[j] = s[j] /\ s[j] \in R[s[i]]
      BY <1>1, <1>5, <1>8, <3>1 DEF Ordered
    <3> QED
      BY <3>2
  <2>2. CASE ~(j <= m)
    <3>1. j - m \in 1 .. n /\ q[j] = t[j - m]
      BY <1>3, <2>2
    <3>2. CASE i <= m
      <4>1. i \in 1 .. m /\ q[i] = s[i]
        BY <1>5, <3>2
      <4>2. s[i] \in ToSet(s) /\ t[j - m] \in ToSet(t)
        BY <1>4, <3>1, <4>1 DEF ToSet
      <4>3. t[j - m] \in R[s[i]]
        BY <1>8, <4>2 DEF AllAfter
      <4> QED
        BY <3>1, <4>1, <4>3
    <3>3. CASE ~(i <= m)
      <4>1. i - m \in 1 .. n /\ q[i] = t[i - m] /\ i - m < j - m
        BY <1>3, <3>3
      <4>2. t[j - m] \in R[t[i - m]]
        BY <1>1, <1>8, <3>1, <4>1 DEF Ordered
      <4> QED
        BY <3>1, <4>1, <4>2
    <3> QED
      BY <3>2, <3>3
  <2> QED
    BY <2>1, <2>2
<1>9. Ordered(q, R) <=> Ordered(s, R) /\ Ordered(t, R) /\ AllAfter(ToSet(s), ToSet(t), R)
  BY <1>7, <1>8
<1> QED
  BY <1>2, <1>9

--------------------------------------------------------------------------------
(* The feeds of the exchanges.                                             *)

\* The streams of an exchange are finitely many.
LEMMA StreamsFinite ==
    ASSUME feedOf \in FeedExchanges
    PROVE  IsFiniteSet(Streams) /\ \A s \in Streams : StatOf(s) \in AssetTypes \X Kinds
<1> DEFINE symbols == SymbolsOf[feedOf]
           most == SpotSymbols + FuturesSymbols + 9
           Pairs == (AssetTypes \X Kinds) \X (1 .. most)
           Triple(p) == <<p[1][1], p[1][2], p[2]>>
<1>1. IsFiniteSet(AssetTypes) /\ SpotSymbols \in Nat /\ FuturesSymbols \in Nat /\ feedOf \in DOMAIN SymbolsOf
  BY FeedAssumption DEF FeedAssumption
<1>2. \A a \in AssetTypes : symbols[a] \in {SpotSymbols, FuturesSymbols}
  BY <1>1 DEF SymbolsOf, binance_new, bybit_new, okx_new, upbit_new, coinbase_new, bithumb_new, deribit_new,
              ByAssetType, SpotOnly
<1> HIDE DEF symbols
<1>3. \A a \in AssetTypes : \A i \in 1 .. (symbols[a] + SYMBOLS_PER_CONNECTION - 1) \div SYMBOLS_PER_CONNECTION : i \in 1 .. most
  BY <1>1, <1>2 DEF SYMBOLS_PER_CONNECTION
<1>4. IsFiniteSet(Pairs)
  <2>1. IsFiniteSet(Kinds) /\ most \in Int
    <3>1. IsFiniteSet({"trade"}) /\ IsFiniteSet({"orderbook"}) /\ Kinds = {"trade"} \cup {"orderbook"}
      BY FS_Singleton DEF Kinds
    <3>2. IsFiniteSet({"trade"} \cup {"orderbook"})
      BY <3>1, FS_Union
    <3> QED
      BY <1>1, <3>1, <3>2
  <2> HIDE DEF most
  <2>2. IsFiniteSet(1 .. most)
    BY <2>1, FS_Interval
  <2>3. IsFiniteSet(AssetTypes \X Kinds)
    BY <1>1, <2>1, FS_Product
  <2> QED
    BY <2>2, <2>3, FS_Product
<1> DEFINE f == [p \in Pairs |-> Triple(p)]
           T == {f[p] : p \in Pairs}
<1>5. IsFiniteSet(T)
  <2>1. f \in Surjection(Pairs, T)
    BY DEF Surjection
  <2> HIDE DEF f, T, Pairs
  <2> QED
    BY <1>4, <2>1, FS_Surjection
<1>6. ASSUME NEW s \in Streams PROVE s \in T /\ StatOf(s) \in AssetTypes \X Kinds
  <2>1. PICK a \in AssetTypes :
          s \in {a} \X Kinds \X (1 .. (symbols[a] + SYMBOLS_PER_CONNECTION - 1) \div SYMBOLS_PER_CONNECTION)
    BY <1>6 DEF Streams, Chunked, symbols
  <2>2. PICK k \in Kinds, i \in 1 .. (symbols[a] + SYMBOLS_PER_CONNECTION - 1) \div SYMBOLS_PER_CONNECTION : s = <<a, k, i>>
    BY <2>1
  <2>3. <<<<a, k>>, i>> \in Pairs /\ Triple(<<<<a, k>>, i>>) = s
    BY <1>3, <2>2
  <2>4. StatOf(s) = <<a, k>>
    BY <2>2 DEF StatOf
  <2> QED
    BY <2>3, <2>4
<1>7. Streams \subseteq T
  BY <1>6
<1> QED
  BY <1>5, <1>6, <1>7, FS_Subset

\* The sums over the streams.
LEMMA StreamsListed ==
    ASSUME feedOf \in FeedExchanges
    PROVE  LET q == StreamOrder IN
           /\ q \in Seq(Streams) /\ Len(q) \in Nat
           /\ \A i, j \in 1 .. Len(q) : q[i] = q[j] => i = j
           /\ \A s \in Streams : \E i \in 1 .. Len(q) : q[i] = s
BY StreamsFinite, SetToSeqListsOnce DEF StreamOrder

\* The sum over the streams when the value of one stream changes;
LEMMA OverChange ==
    ASSUME feedOf \in FeedExchanges, NEW f \in [Streams -> Int], NEW g \in [Streams -> Int], NEW s \in Streams,
           \A u \in Streams : u # s => g[u] = f[u]
    PROVE  OverStreams(g) = OverStreams(f) + (g[s] - f[s])
BY StreamsFinite, TotalChange DEF OverStreams

\* when no value grows;
LEMMA OverMonotone ==
    ASSUME feedOf \in FeedExchanges, NEW f \in [Streams -> Int], NEW g \in [Streams -> Int],
           \A u \in Streams : f[u] <= g[u]
    PROVE  OverStreams(f) <= OverStreams(g)
BY StreamsFinite, TotalMonotone DEF OverStreams

\* when all are zero;
LEMMA OverZeros ==
    ASSUME feedOf \in FeedExchanges, NEW f \in [Streams -> Int], \A u \in Streams : f[u] = 0
    PROVE  OverStreams(f) = 0
BY StreamsFinite, TotalZeros DEF OverStreams

\* and each value is at most the sum.
LEMMA OverNaturals ==
    ASSUME feedOf \in FeedExchanges, NEW f \in [Streams -> Nat]
    PROVE  OverStreams(f) \in Nat /\ \A u \in Streams : f[u] <= OverStreams(f)
BY StreamsFinite, TotalNaturals DEF OverStreams

\* The feed of an exchange on its own.
FeedSpec == FeedInit /\ [][FeedNext]_fvars

\* The type of the connection statistics of a kind.
Stat == [connected : Nat, disconnected : Nat, total : Nat]

\* One per WebSocket of kind k, waiting in w or read by a task of t.
Held(t, w, k) == [s \in Streams |-> IF StatOf(s) = k THEN t[s] + (IF s \in w THEN 1 ELSE 0) ELSE 0]

\* The types of the variables.
FeedShape ==
    /\ feedOf \in FeedExchanges /\ phase \in {"connect", "start", "aborted"}
    /\ next \in Nat \ {0}
    /\ wsSlot \subseteq Streams
    /\ tasks \in [Streams -> Nat]
    /\ asked \in [Streams -> SUBSET Int]
    /\ stats \in [AssetTypes \X Kinds -> Stat]

\* active_connections counts the reading tasks, and there are none when a round begins.
TasksCounted ==
    /\ active = OverStreams(tasks)
    /\ phase = "connect" => \A s \in Streams : tasks[s] = 0

\* A stream has a WebSocket or a task, never two, and the task has the subscription of
\* the stream.
StreamsOnce ==
    \A s \in Streams :
      /\ tasks[s] + (IF s \in wsSlot THEN 1 ELSE 0) <= 1
      /\ tasks[s] > 0 => asked[s] = SubscriptionOf(feedOf, s)
      /\ phase = "start" /\ s \in wsSlot => asked[s] = SubscriptionOf(feedOf, s)

\* The statistics show at least as many connections as there are WebSockets.
HeldAreShown == \A k \in AssetTypes \X Kinds : OverStreams(Held(tasks, wsSlot, k)) <= stats[k].connected

FeedInv == FeedShape /\ TasksCounted /\ StreamsOnce /\ HeldAreShown

\* RoundsApart as the invariant has it.
LEMMA FeedInvImplies == FeedInv => RoundsApart
<1> SUFFICES ASSUME FeedInv PROVE RoundsApart
  OBVIOUS
<1>1. phase = "connect" => active = 0
  <2>1. tasks \in [Streams -> Int] /\ feedOf \in FeedExchanges
    BY DEF FeedInv, FeedShape
  <2> QED
    BY <2>1, OverZeros DEF FeedInv, TasksCounted
<1>2. \A k \in AssetTypes \X Kinds :
        OverStreams([s \in Streams |-> IF StatOf(s) = k THEN tasks[s] + (IF s \in wsSlot THEN 1 ELSE 0) ELSE 0])
          <= stats[k].connected
  BY DEF FeedInv, HeldAreShown, Held
<1> QED
  BY <1>1, <1>2 DEF FeedInv, TasksCounted, StreamsOnce, RoundsApart

\* A subscription is a set of integers.
LEMMA SubscriptionType ==
    ASSUME feedOf \in FeedExchanges, NEW s
    PROVE  SubscriptionOf(feedOf, s) \in SUBSET Int
<1>1. feedOf \in {"binance", "bybit", "okx", "upbit", "coinbase", "bithumb", "deribit"}
  BY FeedAssumption DEF FeedAssumption, SymbolsOf
<1>2. \A n : Slice(n, s) \in SUBSET Int
  BY DEF Slice
<1> QED
  BY <1>1, <1>2 DEF SubscriptionOf, binance_connect_websocket, bybit_subscribe, okx_subscribe, upbit_subscribe,
                    coinbase_subscribe, bithumb_subscribe, deribit_subscribe

\* The streams stay the same.
LEMMA SameExchange ==
    ASSUME feedOf' = feedOf
    PROVE  /\ Streams' = Streams /\ StreamOrder' = StreamOrder
           /\ OverStreams(tasks)' = OverStreams(tasks')
           /\ \A s : SubscriptionOf(feedOf, s)' = SubscriptionOf(feedOf, s)
           /\ \A k : OverStreams(Held(tasks, wsSlot, k))' = OverStreams(Held(tasks', wsSlot', k))
<1>1. Streams' = Streams
  BY DEF Streams, Chunked, SymbolsOf, binance_new, bybit_new, okx_new, upbit_new, coinbase_new, bithumb_new,
         deribit_new, ByAssetType, SpotOnly
<1>2. StreamOrder' = StreamOrder
  BY <1>1 DEF StreamOrder
<1>3. OverStreams(tasks)' = OverStreams(tasks')
  BY <1>1 DEF OverStreams
<1>4. \A k : OverStreams(Held(tasks, wsSlot, k))' = OverStreams(Held(tasks', wsSlot', k))
  BY <1>1, <1>2 DEF OverStreams, Held
<1>5. \A s : SubscriptionOf(feedOf, s)' = SubscriptionOf(feedOf, s)
  BY DEF SubscriptionOf, binance_connect_websocket, bybit_subscribe, okx_subscribe, upbit_subscribe,
         coinbase_subscribe, bithumb_subscribe, deribit_subscribe, Slice, ByAssetType
<1> QED
  BY <1>1, <1>2, <1>3, <1>4, <1>5

\* Held is a function to the natural numbers.
LEMMA HeldType ==
    ASSUME NEW t \in [Streams -> Nat], NEW w, NEW k
    PROVE  Held(t, w, k) \in [Streams -> Nat] /\ Held(t, w, k) \in [Streams -> Int]
BY DEF Held

\* What has to be shown of a step.
LEMMA FeedGoesOn ==
    ASSUME feedOf \in FeedExchanges, feedOf' = feedOf, phase' \in {"connect", "start", "aborted"}, next' \in Nat \ {0},
           wsSlot' \subseteq Streams, tasks' \in [Streams -> Nat], asked' \in [Streams -> SUBSET Int],
           stats' \in [AssetTypes \X Kinds -> Stat],
           active' = OverStreams(tasks'),
           phase' = "connect" => \A s \in Streams : tasks'[s] = 0,
           \A s \in Streams :
              /\ tasks'[s] + (IF s \in wsSlot' THEN 1 ELSE 0) <= 1
              /\ tasks'[s] > 0 => asked'[s] = SubscriptionOf(feedOf, s)
              /\ phase' = "start" /\ s \in wsSlot' => asked'[s] = SubscriptionOf(feedOf, s),
           \A k \in AssetTypes \X Kinds : OverStreams(Held(tasks', wsSlot', k)) <= stats'[k].connected
    PROVE  FeedInv'
<1>1. /\ Streams' = Streams /\ StreamOrder' = StreamOrder
      /\ OverStreams(tasks)' = OverStreams(tasks')
      /\ \A s : SubscriptionOf(feedOf, s)' = SubscriptionOf(feedOf, s)
      /\ \A k : OverStreams(Held(tasks, wsSlot, k))' = OverStreams(Held(tasks', wsSlot', k))
  BY SameExchange
<1>2. FeedShape'
  BY <1>1 DEF FeedShape, Stat
<1>3. TasksCounted'
  BY <1>1 DEF TasksCounted
<1>4. StreamsOnce'
  BY <1>1, Zenon DEF StreamsOnce
<1>5. HeldAreShown'
  BY <1>1, ZenonT(60) DEF HeldAreShown
<1> QED
  BY <1>2, <1>3, <1>4, <1>5 DEF FeedInv

\* The invariant holds at the start.
LEMMA FeedStarts == FeedInit => FeedInv
<1> SUFFICES ASSUME FeedInit PROVE FeedInv
  OBVIOUS
<1>1. FeedShape
  BY DEF FeedInit, FeedShape, Stat
<1>2. feedOf \in FeedExchanges /\ tasks \in [Streams -> Nat] /\ tasks \in [Streams -> Int]
      /\ \A s \in Streams : tasks[s] = 0 /\ wsSlot = {} /\ active = 0
  BY DEF FeedInit
<1>3. TasksCounted
  <2>1. OverStreams(tasks) = 0
    BY <1>2, OverZeros
  <2> QED
    BY <2>1 DEF FeedInit, TasksCounted
<1>4. StreamsOnce
  BY DEF FeedInit, StreamsOnce
<1>5. HeldAreShown
  <2> SUFFICES ASSUME NEW k \in AssetTypes \X Kinds
               PROVE  OverStreams(Held(tasks, wsSlot, k)) <= stats[k].connected
    BY DEF HeldAreShown
  <2>1. Held(tasks, wsSlot, k) \in [Streams -> Int]
    BY <1>2, HeldType
  <2>2. \A s \in Streams : Held(tasks, wsSlot, k)[s] = 0
    BY DEF Held, FeedInit
  <2>3. OverStreams(Held(tasks, wsSlot, k)) = 0
    BY <1>2, <2>1, <2>2, OverZeros
  <2>4. stats[k].connected = 0
    BY DEF FeedInit
  <2> QED
    BY <2>3, <2>4
<1> QED
  BY <1>1, <1>3, <1>4, <1>5 DEF FeedInv

\* The stream whose turn it is.
LEMMA CurrentType ==
    ASSUME FeedInv, next <= Len(StreamOrder)
    PROVE  Current \in Streams /\ StatOf(Current) \in AssetTypes \X Kinds
<1>1. feedOf \in FeedExchanges /\ next \in Nat \ {0}
  BY DEF FeedInv, FeedShape
<1>2. StreamOrder \in Seq(Streams) /\ Len(StreamOrder) \in Nat
  BY <1>1, StreamsListed
<1> DEFINE n == Len(StreamOrder)
<1>3. next \in 1 .. n
  BY <1>1, <1>2
<1> HIDE DEF n
<1>4. Current \in Streams
  BY <1>2, <1>3, ElementOfSeq DEF Current, n
<1> QED
  BY <1>1, <1>4, StreamsFinite

\* The facts of an invariant state, one by one.
LEMMA FeedFacts ==
    ASSUME FeedInv
    PROVE  /\ feedOf \in FeedExchanges /\ phase \in {"connect", "start", "aborted"} /\ next \in Nat \ {0}
           /\ wsSlot \subseteq Streams /\ tasks \in [Streams -> Nat] /\ asked \in [Streams -> SUBSET Int]
           /\ stats \in [AssetTypes \X Kinds -> Stat]
           /\ active = OverStreams(tasks)
           /\ phase = "connect" => \A s \in Streams : tasks[s] = 0
           /\ \A s \in Streams :
                /\ tasks[s] + (IF s \in wsSlot THEN 1 ELSE 0) <= 1
                /\ tasks[s] > 0 => asked[s] = SubscriptionOf(feedOf, s)
                /\ phase = "start" /\ s \in wsSlot => asked[s] = SubscriptionOf(feedOf, s)
           /\ \A k \in AssetTypes \X Kinds : OverStreams(Held(tasks, wsSlot, k)) <= stats[k].connected
BY Zenon DEF FeedInv, FeedShape, TasksCounted, StreamsOnce, HeldAreShown

\* Fewer WebSockets are held than before, and the monitor shows as many as it did.
LEMMA HeldFewer ==
    ASSUME FeedInv, NEW t \in [Streams -> Nat], NEW w, NEW k \in AssetTypes \X Kinds,
           \A s \in Streams : t[s] + (IF s \in w THEN 1 ELSE 0) <= tasks[s] + (IF s \in wsSlot THEN 1 ELSE 0)
    PROVE  OverStreams(Held(t, w, k)) <= stats[k].connected
<1> DEFINE old == Held(tasks, wsSlot, k)
           new == Held(t, w, k)
<1>1. feedOf \in FeedExchanges /\ tasks \in [Streams -> Nat] /\ stats[k].connected \in Nat /\ OverStreams(old) <= stats[k].connected
  BY FeedFacts DEF Stat
<1>2. new \in [Streams -> Nat] /\ new \in [Streams -> Int] /\ old \in [Streams -> Nat] /\ old \in [Streams -> Int]
  BY <1>1, HeldType
<1>3. \A s \in Streams : new[s] <= old[s]
  BY <1>1 DEF Held
<1> HIDE DEF old, new
<1>4. OverStreams(new) <= OverStreams(old)
  BY <1>1, <1>2, <1>3, OverMonotone
<1>5. OverStreams(new) \in Nat /\ OverStreams(old) \in Nat
  BY <1>1, <1>2, OverNaturals
<1> QED
  BY <1>1, <1>4, <1>5 DEF old, new

\* Connected: a WebSocket more for the stream, a connection more in the statistics.
LEMMA ConnectKeeps == ASSUME FeedInv, Connect PROVE FeedInv'
<1> DEFINE c == Current
           kc == StatOf(c)
           w == wsSlot \cup {c}
           sub == IF feedOf = "binance" THEN SubscriptionOf(feedOf, c) ELSE {}
           entry == [stats[kc] EXCEPT !.connected = stats[kc].connected + 1, !.total = stats[kc].total + 1]
<1>1. /\ phase = "connect" /\ next <= Len(StreamOrder)
      /\ wsSlot' = w /\ next' = next + 1 /\ asked' = [asked EXCEPT ![c] = sub]
      /\ UNCHANGED <<feedOf, phase, tasks, deaf, active, down>>
  BY DEF Connect
<1>2. stats' = [stats EXCEPT ![kc] = entry]
  BY DEF Connect
<1>3. c \in Streams /\ kc \in AssetTypes \X Kinds
  BY <1>1, CurrentType
<1>4. /\ feedOf \in FeedExchanges /\ next \in Nat \ {0} /\ wsSlot \subseteq Streams
      /\ tasks \in [Streams -> Nat] /\ asked \in [Streams -> SUBSET Int] /\ stats \in [AssetTypes \X Kinds -> Stat]
      /\ active = OverStreams(tasks) /\ \A s \in Streams : tasks[s] = 0
      /\ \A k \in AssetTypes \X Kinds : OverStreams(Held(tasks, wsSlot, k)) <= stats[k].connected
  BY <1>1, FeedFacts
<1>5. sub \in SUBSET Int
  BY <1>4, SubscriptionType
<1>6. entry \in Stat /\ entry.connected = stats[kc].connected + 1 /\ stats[kc].connected \in Nat
  <2> DEFINE x == stats[kc].connected + 1
             y == stats[kc].total + 1
  <2>1. stats[kc] \in Stat /\ x \in Nat /\ y \in Nat
    BY <1>3, <1>4 DEF Stat
  <2>2. entry = [stats[kc] EXCEPT !.connected = x, !.total = y]
    OBVIOUS
  <2> HIDE DEF x, y
  <2>3. entry \in Stat /\ entry.connected = x
    BY <2>1, <2>2 DEF Stat
  <2>4. stats[kc].connected \in Nat
    BY <2>1 DEF Stat
  <2> QED
    BY <2>3, <2>4 DEF x
<1> HIDE DEF c, kc, w, sub, entry
<1>7. /\ w \subseteq Streams /\ next' \in Nat \ {0} /\ asked' \in [Streams -> SUBSET Int]
      /\ stats' \in [AssetTypes \X Kinds -> Stat]
      /\ \A k \in AssetTypes \X Kinds : stats'[k] = IF k = kc THEN entry ELSE stats[k]
  BY <1>1, <1>2, <1>3, <1>4, <1>5, <1>6 DEF w
<1>8. \A k \in AssetTypes \X Kinds : OverStreams(Held(tasks, w, k)) <= stats'[k].connected
  <2> TAKE k \in AssetTypes \X Kinds
  <2> DEFINE old == Held(tasks, wsSlot, k)
             new == Held(tasks, w, k)
  <2>1. new \in [Streams -> Nat] /\ new \in [Streams -> Int] /\ old \in [Streams -> Nat] /\ old \in [Streams -> Int]
    BY <1>4, HeldType
  <2>2. \A s \in Streams : s # c => new[s] = old[s]
    BY DEF Held, w
  <2>3. new[c] <= old[c] + 1 /\ (k # kc => new[c] = old[c])
    BY <1>3, <1>4 DEF Held, w, kc
  <2> HIDE DEF old, new
  <2>4. OverStreams(new) = OverStreams(old) + (new[c] - old[c])
    BY <1>3, <1>4, <2>1, <2>2, OverChange
  <2>5. OverStreams(new) \in Nat /\ OverStreams(old) \in Nat /\ new[c] \in Nat /\ old[c] \in Nat
    BY <1>3, <1>4, <2>1, OverNaturals
  <2>6. OverStreams(old) <= stats[k].connected /\ stats[k].connected \in Nat
    BY <1>4 DEF Stat, old
  <2>7. CASE k = kc
    <3>1. stats'[k].connected = stats[k].connected + 1
      BY <1>6, <1>7, <2>7
    <3> QED
      BY <2>3, <2>4, <2>5, <2>6, <3>1 DEF new
  <2>8. CASE k # kc
    <3>1. stats'[k].connected = stats[k].connected
      BY <1>7, <2>8
    <3> QED
      BY <2>3, <2>4, <2>5, <2>6, <2>8, <3>1 DEF new
  <2> QED
    BY <2>7, <2>8
<1>9. \A s \in Streams : tasks[s] + (IF s \in w THEN 1 ELSE 0) <= 1
  BY <1>4
<1> QED
  BY <1>1, <1>4, <1>7, <1>8, <1>9, FeedGoesOn

\* Not connected.
LEMMA ConnectFailsKeeps == ASSUME FeedInv, ConnectFails PROVE FeedInv'
<1>1. /\ phase = "connect" /\ next' \in {next, next + 1} /\ wsSlot' \subseteq wsSlot
      /\ UNCHANGED <<feedOf, phase, asked, tasks, active, stats>>
  BY DEF ConnectFails
<1>2. /\ feedOf \in FeedExchanges /\ next \in Nat \ {0} /\ wsSlot \subseteq Streams
      /\ tasks \in [Streams -> Nat] /\ asked \in [Streams -> SUBSET Int] /\ stats \in [AssetTypes \X Kinds -> Stat]
      /\ active = OverStreams(tasks) /\ \A s \in Streams : tasks[s] = 0
  BY <1>1, FeedFacts
<1>3. next' \in Nat \ {0} /\ wsSlot' \subseteq Streams
  BY <1>1, <1>2
<1>4. \A s \in Streams : tasks'[s] = 0 /\ tasks'[s] + (IF s \in wsSlot' THEN 1 ELSE 0) <= 1
  BY <1>1, <1>2
<1>5. \A k \in AssetTypes \X Kinds : OverStreams(Held(tasks, wsSlot', k)) <= stats[k].connected
  <2>1. \A s \in Streams : tasks[s] + (IF s \in wsSlot' THEN 1 ELSE 0) <= tasks[s] + (IF s \in wsSlot THEN 1 ELSE 0)
    BY <1>1, <1>2
  <2> QED
    BY <1>2, <2>1, HeldFewer
<1> QED
  BY <1>1, <1>2, <1>3, <1>4, <1>5, FeedGoesOn

\* The subscription of the stream is asked for.
LEMMA SubscribeKeeps == ASSUME FeedInv, Subscribe PROVE FeedInv'
<1>1. /\ phase = "connect" /\ next' = 1 /\ phase' = "start" /\ active' = 0
      /\ asked' = [s \in Streams |-> IF s \in wsSlot THEN SubscriptionOf(feedOf, s) ELSE asked[s]]
      /\ UNCHANGED <<feedOf, wsSlot, tasks, stats>>
  BY DEF Subscribe
<1>2. /\ feedOf \in FeedExchanges /\ wsSlot \subseteq Streams
      /\ tasks \in [Streams -> Nat] /\ tasks \in [Streams -> Int] /\ asked \in [Streams -> SUBSET Int]
      /\ stats \in [AssetTypes \X Kinds -> Stat]
      /\ active = OverStreams(tasks) /\ \A s \in Streams : tasks[s] = 0
      /\ \A k \in AssetTypes \X Kinds : OverStreams(Held(tasks, wsSlot, k)) <= stats[k].connected
  BY <1>1, FeedFacts
<1>3. active' = OverStreams(tasks)
  BY <1>1, <1>2, OverZeros
<1>4. asked' \in [Streams -> SUBSET Int]
  BY <1>1, <1>2, SubscriptionType
<1>5. \A s \in Streams :
        /\ tasks'[s] + (IF s \in wsSlot' THEN 1 ELSE 0) <= 1
        /\ tasks'[s] > 0 => asked'[s] = SubscriptionOf(feedOf, s)
        /\ phase' = "start" /\ s \in wsSlot' => asked'[s] = SubscriptionOf(feedOf, s)
  BY <1>1, <1>2
<1> QED
  BY <1>1, <1>2, <1>3, <1>4, <1>5, FeedGoesOn

\* The WebSocket goes to a task.
LEMMA SpawnKeeps == ASSUME FeedInv, Spawn PROVE FeedInv'
<1> DEFINE c == Current
           t == [tasks EXCEPT ![c] = tasks[c] + 1]
<1>1. /\ phase = "start" /\ next <= Len(StreamOrder) /\ next' = next + 1
      /\ UNCHANGED <<feedOf, phase, asked, stats>>
      /\ c \in wsSlot => wsSlot' = wsSlot \ {c} /\ tasks' = t /\ active' = active + 1
      /\ c \notin wsSlot => UNCHANGED <<wsSlot, tasks, active>>
  BY DEF Spawn
<1>2. c \in Streams
  BY <1>1, CurrentType
<1>3. /\ feedOf \in FeedExchanges /\ next \in Nat \ {0} /\ wsSlot \subseteq Streams
      /\ tasks \in [Streams -> Nat] /\ tasks \in [Streams -> Int] /\ asked \in [Streams -> SUBSET Int]
      /\ stats \in [AssetTypes \X Kinds -> Stat]
      /\ active = OverStreams(tasks)
      /\ \A s \in Streams :
           /\ tasks[s] + (IF s \in wsSlot THEN 1 ELSE 0) <= 1
           /\ tasks[s] > 0 => asked[s] = SubscriptionOf(feedOf, s)
           /\ s \in wsSlot => asked[s] = SubscriptionOf(feedOf, s)
      /\ \A k \in AssetTypes \X Kinds : OverStreams(Held(tasks, wsSlot, k)) <= stats[k].connected
  BY <1>1, FeedFacts
<1>4. next' \in Nat \ {0}
  BY <1>1, <1>3
<1> HIDE DEF c
<1>5. CASE c \in wsSlot
  <2>1. /\ t \in [Streams -> Nat] /\ t \in [Streams -> Int] /\ t[c] = tasks[c] + 1
        /\ \A s \in Streams : s # c => t[s] = tasks[s]
    BY <1>2, <1>3
  <2> HIDE DEF t
  <2>2. OverStreams(t) = OverStreams(tasks) + (t[c] - tasks[c])
    BY <1>2, <1>3, <2>1, OverChange
  <2>3. t[c] - tasks[c] = 1
    BY <1>2, <1>3, <2>1
  <2>4. active' = OverStreams(t)
    BY <1>1, <1>3, <1>5, <2>2, <2>3
  <2>5. \A s \in Streams : t[s] + (IF s \in wsSlot \ {c} THEN 1 ELSE 0) = tasks[s] + (IF s \in wsSlot THEN 1 ELSE 0)
    BY <1>2, <1>3, <1>5, <2>1
  <2>6. \A k \in AssetTypes \X Kinds : OverStreams(Held(t, wsSlot \ {c}, k)) <= stats[k].connected
    <3>1. \A s \in Streams : t[s] + (IF s \in wsSlot \ {c} THEN 1 ELSE 0) <= tasks[s] + (IF s \in wsSlot THEN 1 ELSE 0)
      BY <1>3, <2>5
    <3> QED
      BY <2>1, <3>1, HeldFewer
  <2>7. \A s \in Streams :
          /\ t[s] + (IF s \in wsSlot \ {c} THEN 1 ELSE 0) <= 1
          /\ t[s] > 0 => asked[s] = SubscriptionOf(feedOf, s)
          /\ s \in wsSlot \ {c} => asked[s] = SubscriptionOf(feedOf, s)
    BY <1>3, <1>5, <2>1, <2>5
  <2>8. wsSlot \ {c} \subseteq Streams
    BY <1>3
  <2> QED
    BY <1>1, <1>3, <1>4, <1>5, <2>1, <2>4, <2>6, <2>7, <2>8, FeedGoesOn
<1>6. CASE c \notin wsSlot
  BY <1>1, <1>3, <1>4, <1>6, FeedGoesOn
<1> QED
  BY <1>5, <1>6

\* The round is over when no task is left.
LEMMA ReturnKeeps == ASSUME FeedInv, Return PROVE FeedInv'
<1>1. /\ phase = "start" /\ active = 0 /\ phase' = "connect" /\ next' = 1
      /\ UNCHANGED <<feedOf, wsSlot, asked, tasks, active, stats>>
  BY DEF Return
<1>2. /\ feedOf \in FeedExchanges /\ wsSlot \subseteq Streams
      /\ tasks \in [Streams -> Nat] /\ asked \in [Streams -> SUBSET Int] /\ stats \in [AssetTypes \X Kinds -> Stat]
      /\ active = OverStreams(tasks)
      /\ \A s \in Streams : tasks[s] + (IF s \in wsSlot THEN 1 ELSE 0) <= 1
      /\ \A k \in AssetTypes \X Kinds : OverStreams(Held(tasks, wsSlot, k)) <= stats[k].connected
  BY <1>1, FeedFacts
<1>3. \A s \in Streams : tasks[s] = 0
  <2>1. \A s \in Streams : tasks[s] <= 0
    BY <1>1, <1>2, OverNaturals
  <2> QED
    BY <1>2, <2>1
<1> QED
  BY <1>1, <1>2, <1>3, FeedGoesOn

\* A task that ends, whether the monitor is told of it or not.
LEMMA TaskEnds ==
    ASSUME FeedInv, NEW c \in Streams, tasks[c] > 0, tasks' = [tasks EXCEPT ![c] = tasks[c] - 1], active' = active - 1,
           UNCHANGED <<feedOf, phase, next, wsSlot, asked>>,
           \/ stats' = stats
           \/ /\ stats[StatOf(c)].connected > 0
              /\ stats' = [stats EXCEPT ![StatOf(c)].connected = @ - 1, ![StatOf(c)].disconnected = @ + 1]
    PROVE  FeedInv'
<1> DEFINE t == [tasks EXCEPT ![c] = tasks[c] - 1]
           kc == StatOf(c)
<1>1. /\ feedOf \in FeedExchanges /\ phase \in {"connect", "start", "aborted"} /\ next \in Nat \ {0}
      /\ wsSlot \subseteq Streams
      /\ tasks \in [Streams -> Nat] /\ tasks \in [Streams -> Int] /\ asked \in [Streams -> SUBSET Int]
      /\ stats \in [AssetTypes \X Kinds -> Stat]
      /\ active = OverStreams(tasks)
      /\ phase = "connect" => \A s \in Streams : tasks[s] = 0
      /\ \A s \in Streams :
           /\ tasks[s] + (IF s \in wsSlot THEN 1 ELSE 0) <= 1
           /\ tasks[s] > 0 => asked[s] = SubscriptionOf(feedOf, s)
           /\ phase = "start" /\ s \in wsSlot => asked[s] = SubscriptionOf(feedOf, s)
      /\ \A k \in AssetTypes \X Kinds : OverStreams(Held(tasks, wsSlot, k)) <= stats[k].connected
  BY FeedFacts
<1>2. kc \in AssetTypes \X Kinds
  BY <1>1, StreamsFinite
<1>3. /\ t \in [Streams -> Nat] /\ t \in [Streams -> Int] /\ t[c] = tasks[c] - 1 /\ t[c] - tasks[c] = -1
      /\ \A s \in Streams : s # c => t[s] = tasks[s]
  BY <1>1
<1> HIDE DEF t
<1>4. tasks' = t
  BY DEF t
<1>5. OverStreams(t) = OverStreams(tasks) + (t[c] - tasks[c])
  BY <1>1, <1>3, OverChange
<1>6. active' = OverStreams(t)
  <2>1. OverStreams(tasks) \in Nat
    BY <1>1, OverNaturals
  <2> QED
    BY <1>1, <1>3, <1>5, <2>1
<1>7. \A s \in Streams :
        /\ t[s] + (IF s \in wsSlot THEN 1 ELSE 0) <= 1
        /\ t[s] > 0 => asked[s] = SubscriptionOf(feedOf, s)
        /\ phase = "start" /\ s \in wsSlot => asked[s] = SubscriptionOf(feedOf, s)
  BY <1>1, <1>3
<1>8. phase # "connect"
  BY <1>1
<1> DEFINE entry == [stats[kc] EXCEPT !.connected = stats[kc].connected - 1, !.disconnected = stats[kc].disconnected + 1]
<1>9. CASE stats' = stats
  <2>1. \A k \in AssetTypes \X Kinds : OverStreams(Held(t, wsSlot, k)) <= stats[k].connected
    <3>1. \A s \in Streams : t[s] + (IF s \in wsSlot THEN 1 ELSE 0) <= tasks[s] + (IF s \in wsSlot THEN 1 ELSE 0)
      BY <1>1, <1>3
    <3> QED
      BY <1>3, <3>1, HeldFewer
  <2> QED
    BY <1>1, <1>3, <1>4, <1>6, <1>7, <1>8, <1>9, <2>1, FeedGoesOn
<1>10. CASE stats[kc].connected > 0 /\ stats' = [stats EXCEPT ![kc] = entry]
  <2>1. entry \in Stat /\ entry.connected = stats[kc].connected - 1 /\ stats[kc].connected \in Nat
    <3> DEFINE x == stats[kc].connected - 1
               y == stats[kc].disconnected + 1
    <3>1. stats[kc] \in Stat /\ x \in Nat /\ y \in Nat
      BY <1>1, <1>2, <1>10 DEF Stat
    <3>2. entry = [stats[kc] EXCEPT !.connected = x, !.disconnected = y]
      OBVIOUS
    <3> HIDE DEF x, y
    <3>3. entry \in Stat /\ entry.connected = x
      BY <3>1, <3>2 DEF Stat
    <3>4. stats[kc].connected \in Nat
      BY <3>1 DEF Stat
    <3> QED
      BY <3>3, <3>4 DEF x
  <2> HIDE DEF entry, kc
  <2>2. /\ stats' \in [AssetTypes \X Kinds -> Stat]
        /\ \A k \in AssetTypes \X Kinds : stats'[k] = IF k = kc THEN entry ELSE stats[k]
    BY <1>1, <1>2, <1>10, <2>1
  <2>3. \A k \in AssetTypes \X Kinds : OverStreams(Held(t, wsSlot, k)) <= stats'[k].connected
    <3> TAKE k \in AssetTypes \X Kinds
    <3> DEFINE old == Held(tasks, wsSlot, k)
               new == Held(t, wsSlot, k)
    <3>1. new \in [Streams -> Nat] /\ new \in [Streams -> Int] /\ old \in [Streams -> Nat] /\ old \in [Streams -> Int]
      BY <1>1, <1>3, HeldType
    <3>2. \A s \in Streams : s # c => new[s] = old[s]
      BY <1>3 DEF Held
    <3>3. IF k = kc THEN new[c] = old[c] - 1 ELSE new[c] = old[c]
      <4>1. tasks[c] \in Nat /\ t[c] = tasks[c] - 1
        BY <1>1, <1>3
      <4> QED
        BY <4>1 DEF Held, kc
    <3> HIDE DEF old, new
    <3>4. OverStreams(new) = OverStreams(old) + (new[c] - old[c])
      BY <1>1, <3>1, <3>2, OverChange
    <3>5. OverStreams(new) \in Nat /\ OverStreams(old) \in Nat /\ new[c] \in Nat /\ old[c] \in Nat
      BY <1>1, <3>1, OverNaturals
    <3>6. OverStreams(old) <= stats[k].connected /\ stats[k].connected \in Nat
      BY <1>1 DEF Stat, old
    <3>7. CASE k = kc
      <4>1. stats'[k].connected = stats[k].connected - 1
        BY <2>1, <2>2, <3>7
      <4> QED
        BY <3>3, <3>4, <3>5, <3>6, <3>7, <4>1 DEF new
    <3>8. CASE k # kc
      <4>1. stats'[k].connected = stats[k].connected
        BY <2>2, <3>8
      <4> QED
        BY <3>3, <3>4, <3>5, <3>6, <3>8, <4>1 DEF new
    <3> QED
      BY <3>7, <3>8
  <2> QED
    BY <1>1, <1>3, <1>4, <1>6, <1>7, <1>8, <2>2, <2>3, FeedGoesOn
<1> QED
  BY <1>9, <1>10 DEF kc

\* The feed gives up.
LEMMA AbortKeeps == ASSUME FeedInv, Abort PROVE FeedInv'
<1>1. /\ phase' = "aborted" /\ wsSlot' = {}
      /\ UNCHANGED <<feedOf, next, asked, tasks, active, stats>>
  BY DEF Abort
<1>2. /\ feedOf \in FeedExchanges /\ next \in Nat \ {0}
      /\ tasks \in [Streams -> Nat] /\ asked \in [Streams -> SUBSET Int] /\ stats \in [AssetTypes \X Kinds -> Stat]
      /\ active = OverStreams(tasks)
      /\ \A s \in Streams :
           /\ tasks[s] + (IF s \in wsSlot THEN 1 ELSE 0) <= 1
           /\ tasks[s] > 0 => asked[s] = SubscriptionOf(feedOf, s)
  BY FeedFacts
<1>3. \A s \in Streams : tasks[s] + (IF s \in {} THEN 1 ELSE 0) <= 1
  BY <1>2
<1>4. \A k \in AssetTypes \X Kinds : OverStreams(Held(tasks, {}, k)) <= stats[k].connected
  <2>1. \A s \in Streams : tasks[s] + (IF s \in {} THEN 1 ELSE 0) <= tasks[s] + (IF s \in wsSlot THEN 1 ELSE 0)
    BY <1>2
  <2> QED
    BY <1>2, <2>1, HeldFewer
<1>5. {} \subseteq Streams /\ phase' # "connect" /\ phase' # "start"
  BY <1>1
<1> QED
  BY <1>1, <1>2, <1>3, <1>4, <1>5, FeedGoesOn

\* Every step of the feed keeps the invariant.
LEMMA FeedSteps == FeedInv /\ [FeedNext]_fvars => FeedInv'
<1> SUFFICES ASSUME FeedInv, [FeedNext]_fvars PROVE FeedInv'
  OBVIOUS
<1>1. ASSUME UNCHANGED <<feedOf, phase, wsSlot, asked, tasks, active, stats>>, next' \in Nat \ {0}
      PROVE  FeedInv'
  <2>1. /\ feedOf \in FeedExchanges /\ phase \in {"connect", "start", "aborted"}
        /\ wsSlot \subseteq Streams /\ tasks \in [Streams -> Nat] /\ asked \in [Streams -> SUBSET Int]
        /\ stats \in [AssetTypes \X Kinds -> Stat]
        /\ active = OverStreams(tasks)
        /\ phase = "connect" => \A s \in Streams : tasks[s] = 0
        /\ \A s \in Streams :
             /\ tasks[s] + (IF s \in wsSlot THEN 1 ELSE 0) <= 1
             /\ tasks[s] > 0 => asked[s] = SubscriptionOf(feedOf, s)
             /\ phase = "start" /\ s \in wsSlot => asked[s] = SubscriptionOf(feedOf, s)
        /\ \A k \in AssetTypes \X Kinds : OverStreams(Held(tasks, wsSlot, k)) <= stats[k].connected
    BY FeedFacts
  <2> QED
    BY <1>1, <2>1, FeedGoesOn
<1>2. next \in Nat \ {0}
  BY FeedFacts
<1>3. CASE SubscribeFails
  BY <1>1, <1>3 DEF SubscribeFails
<1>4. CASE Shutdown
  BY <1>1, <1>2, <1>4 DEF Shutdown
<1>5. CASE UNCHANGED fvars
  BY <1>1, <1>2, <1>5 DEF fvars
<1>6. ASSUME NEW s \in Streams, NEW why, Lose(s, why)
      PROVE  FeedInv'
  <2>1. /\ tasks[s] > 0 /\ tasks' = [tasks EXCEPT ![s] = tasks[s] - 1] /\ active' = active - 1
        /\ UNCHANGED <<feedOf, phase, next, wsSlot, asked>>
    BY <1>6 DEF Lose
  <2>2. \/ stats' = stats
        \/ /\ stats[StatOf(s)].connected > 0
           /\ stats' = [stats EXCEPT ![StatOf(s)].connected = @ - 1, ![StatOf(s)].disconnected = @ + 1]
    BY <1>6 DEF Lose, CountLoss
  <2> QED
    BY <2>1, <2>2, TaskEnds
<1>7. ASSUME NEW s \in Streams, HearShutdown(s)
      PROVE  FeedInv'
  <2>1. /\ tasks[s] > 0 /\ tasks' = [tasks EXCEPT ![s] = tasks[s] - 1] /\ active' = active - 1
        /\ UNCHANGED <<feedOf, phase, next, wsSlot, asked>> /\ stats' = stats
    BY <1>7 DEF HearShutdown
  <2> QED
    BY <2>1, TaskEnds
<1> QED
  BY <1>3, <1>4, <1>5, <1>6, <1>7, ConnectKeeps, ConnectFailsKeeps, SubscribeKeeps, SpawnKeeps, ReturnKeeps, AbortKeeps, Zenon
     DEF FeedNext, FeedLoop

\* For each exchange and any number of symbols and asset types: rounds of connections do
\* not overlap, a stream is read by one task, which has subscribed to that stream, and
\* no open connection is missing in the statistics.
THEOREM RoundsAlwaysApart == FeedSpec => []RoundsApart
BY FeedInvImplies, FeedStarts, FeedSteps, PTL DEF FeedSpec

--------------------------------------------------------------------------------
(* From the WebSocket to the builders of books.                            *)

MsgSpec == MsgInit /\ [][MsgNext]_mvars

Whole == [Levels -> Nat]
Changed == UNION {[D -> Nat] : D \in SUBSET Levels}
Message ==
    [kind : {"book"}, type : {"snapshot", "update"}, levels : Changed, after : Whole]
      \cup [kind : {"trade"}, id : Nat, mapped : BOOLEAN] \cup [kind : {"ticker"}, id : {0}]
Entry == [type : {"unknown", "snapshot", "update", "change"}, levels : Changed, after : Whole \cup {NoBook}]

MessagesShape ==
    /\ wire \in Seq(Message) /\ chan \in Seq(Entry)
    /\ venue \in Whole /\ book \in Whole \cup {NoBook} /\ mirrored \in Whole \cup {NoBook}
    /\ sent \in [trades : Seq(Nat), books : Seq(Whole)]
    /\ reconnects \in Nat /\ trades \in Nat /\ lost \in BOOLEAN
    /\ \A i \in 1 .. Len(chan) :
         chan[i].type \in IF msgOf = "bybit" THEN {"unknown"}
                          ELSE IF msgOf = "deribit" THEN {"change"} ELSE {"snapshot", "update"}

\* Message m takes the exchange's book from b to a.
TakesTo(b, m, a) ==
    IF m.kind = "book"
      THEN m.after = a /\ a = Upsert(IF m.type = "snapshot" THEN Empty ELSE b, m.levels)
      ELSE a = b

\* The exchange's book after the last update that got into the channel.
LastTaken == IF chan = <<>> THEN mirrored ELSE chan[Len(chan)].after

\* f[i] is the exchange's book behind the i-th message under way, f[0] before them.
WireLeadsTo(f) ==
    /\ ~lost => f[0] = LastTaken
    /\ f[Len(wire)] = venue
    /\ \A i \in 1 .. Len(wire) : TakesTo(f[i - 1], wire[i], f[i])
WireTells == \E f \in [Nat -> Whole] : WireLeadsTo(f)

\* Update u takes the book from b to what it was at the exchange, unless one was lost.
EntryTells(b, u) ==
    /\ u.type = "snapshot" => u.after = Upsert(Empty, u.levels)
    /\ (u.type = "update" \/ (u.type = "change" /\ reconnects = 0)) /\ u.after /= NoBook =>
         b /= NoBook /\ u.after = Upsert(b, u.levels)
ChanTells ==
    /\ \A i \in 1 .. Len(chan) : EntryTells(IF i = 1 THEN mirrored ELSE chan[i - 1].after, chan[i])
    /\ ~lost => LastTaken /= NoBook

\* Deribit: until it reconnects the only snapshot is the first message.
SnapshotComesFirst ==
    msgOf = "deribit" =>
      /\ book = NoBook => mirrored = Empty
      /\ reconnects = 0 =>
           \A i \in 1 .. Len(wire) :
             wire[i].kind = "book" /\ wire[i].type = "snapshot" =>
               i = 1 /\ chan = <<>> /\ mirrored = Empty /\ ~lost

MessagesInv ==
    msgOf \in Deltas => MessagesShape /\ WireTells /\ ChanTells /\ SnapshotComesFirst /\ BooksMirror

\* Levels put into a book make a book, and a book is never none.
LEMMA UpsertType ==
    ASSUME NEW b \in Whole, NEW levels \in Changed
    PROVE  Upsert(b, levels) \in Whole
<1> SUFFICES ASSUME NEW l \in Levels PROVE (IF l \in DOMAIN levels THEN levels[l] ELSE b[l]) \in Nat
  BY DEF Upsert, Whole
<1>1. PICK D \in SUBSET Levels : levels \in [D -> Nat]
  BY DEF Changed
<1> QED
  BY <1>1 DEF Whole

\* A book of every level is not NoBook.
LEMMA WholeIsBook == ASSUME NEW b \in Whole PROVE b /= NoBook /\ Empty \in Whole
<1>1. DOMAIN b = Levels /\ DOMAIN NoBook = {} /\ Levels # {}
  BY MessagesAssumption DEF Whole, NoBook
<1>2. Empty \in Whole
  BY DEF Empty, Whole
<1> QED
  BY <1>1, <1>2

\* A snapshot tells the book it is of, whatever was before.
LEMMA SnapshotTells ==
    ASSUME NEW b \in Whole, NEW c \in Whole
    PROVE  SnapshotOf(b) \in Message /\ TakesTo(c, SnapshotOf(b), b)
           /\ SnapshotOf(b).kind = "book" /\ SnapshotOf(b).type = "snapshot"
<1> DEFINE D == {k \in Levels : b[k] > 0}
           v == [l \in D |-> b[l]]
<1>1. D \in SUBSET Levels /\ v \in [D -> Nat]
  BY DEF Whole
<1>2. v \in Changed
  BY <1>1 DEF Changed
<1>3. SnapshotOf(b) = [kind |-> "book", type |-> "snapshot", levels |-> v, after |-> b]
  BY DEF SnapshotOf
<1>4. b = Upsert(Empty, v)
  <2>1. \A l \in Levels : b[l] = IF l \in DOMAIN v THEN v[l] ELSE Empty[l]
    BY DEF Whole, Empty
  <2> QED
    BY <2>1 DEF Upsert, Whole
<1> HIDE DEF v
<1> QED
  BY <1>2, <1>3, <1>4 DEF Message, TakesTo

\* A change tells the book after it, if one knows the book before it.
LEMMA LevelChangeTells ==
    ASSUME msgOf \in Deltas, NEW b \in Whole, NEW l \in Levels, NEW a \in Whole,
           \A k \in Levels : k # l => a[k] = b[k]
    PROVE  ChangeOf(l, a) \in Message /\ TakesTo(b, ChangeOf(l, a), a)
           /\ ChangeOf(l, a).kind = "book" /\ ChangeOf(l, a).type = "update"
<1> DEFINE v == [k \in {l} |-> a[k]]
<1>2. v \in Changed
  <2>1. {l} \in SUBSET Levels /\ v \in [{l} -> Nat]
    BY DEF Whole
  <2> QED
    BY <2>1 DEF Changed
<1>3. ChangeOf(l, a) = [kind |-> "book", type |-> "update", levels |-> v, after |-> a]
  BY DEF ChangeOf
<1>4. a = Upsert(b, v)
  <2>1. \A k \in Levels : a[k] = IF k \in DOMAIN v THEN v[k] ELSE b[k]
    BY DEF Whole
  <2>2. Upsert(b, v) = [k \in Levels |-> a[k]]
    BY <2>1 DEF Upsert
  <2> QED
    BY <2>2 DEF Whole
<1> HIDE DEF v
<1>5. ChangeOf(l, a) \in [kind : {"book"}, type : {"snapshot", "update"}, levels : Changed, after : Whole]
  BY <1>2, <1>3
<1>6. ChangeOf(l, a) \in Message
  BY <1>5 DEF Message
<1>7. ChangeOf(l, a).kind = "book" /\ ChangeOf(l, a).type = "update" /\ ChangeOf(l, a).after = a
      /\ ChangeOf(l, a).levels = v
  BY <1>3
<1> QED
  BY <1>4, <1>6, <1>7 DEF TakesTo

\* The invariant holds at the start.
LEMMA MessagesStart == MsgInit => MessagesInv
<1> SUFFICES ASSUME MsgInit, msgOf \in Deltas
             PROVE  MessagesShape /\ WireTells /\ ChanTells /\ SnapshotComesFirst /\ BooksMirror
  BY DEF MessagesInv
<1>1. venue \in Whole /\ Empty \in Whole
  BY MessagesAssumption, WholeIsBook DEF MsgInit, Whole
<1>2. SnapshotOf(venue) \in Message /\ TakesTo(venue, SnapshotOf(venue), venue)
      /\ TakesTo(Empty, SnapshotOf(venue), venue)
  BY <1>1, SnapshotTells
<1>3. Empty /= NoBook
  BY <1>1, WholeIsBook
<1>4. MessagesShape
  <2>1. wire \in Seq(Message) /\ chan \in Seq(Entry) /\ chan = <<>> /\ Len(chan) = 0
    BY <1>2 DEF MsgInit
  <2>2. sent \in [trades : Seq(Nat), books : Seq(Whole)]
    BY DEF MsgInit
  <2>3. book = NoBook /\ mirrored = Empty /\ reconnects = 0 /\ trades = 0 /\ lost = FALSE
    BY DEF MsgInit
  <2>4. \A i \in 1 .. Len(chan) : FALSE
    BY <2>1
  <2> QED
    BY <1>1, <2>1, <2>2, <2>3, <2>4 DEF MessagesShape
<1>5. WireTells
  <2> DEFINE f == [i \in Nat |-> IF i = 0 THEN Empty ELSE venue]
  <2>1. f \in [Nat -> Whole] /\ f[0] = Empty /\ f[1] = venue
    BY <1>1
  <2> HIDE DEF f
  <2>2. wire = <<SnapshotOf(venue)>> /\ Len(wire) = 1 /\ wire[1] = SnapshotOf(venue) /\ chan = <<>> /\ mirrored = Empty
    BY DEF MsgInit
  <2>3. WireLeadsTo(f)
    BY <2>1, <2>2, <1>2 DEF WireLeadsTo, LastTaken
  <2> QED
    BY <2>1, <2>3 DEF WireTells
<1>6. ChanTells
  BY <1>3 DEF MsgInit, ChanTells, LastTaken
<1>7. SnapshotComesFirst
  BY DEF MsgInit, SnapshotComesFirst
<1>8. BooksMirror
  BY DEF MsgInit, BooksMirror
<1> QED
  BY <1>4, <1>5, <1>6, <1>7, <1>8

\* What the exchange adds to the connection: nothing else moves but its book.
LEMMA SentOnKeeps ==
    ASSUME MessagesInv, msgOf \in Deltas, NEW m \in Message, NEW a \in Whole,
           wire' = Append(wire, m), venue' = a, TakesTo(venue, m, a),
           m.kind = "book" => m.type = "update", trades' \in Nat,
           UNCHANGED <<msgOf, chan, book, sent, reconnects, lost, mirrored>>
    PROVE  MessagesInv'
<1> DEFINE n == Len(wire)
<1>1. wire \in Seq(Message) /\ n \in Nat /\ Deltas' = Deltas
  BY DEF MessagesInv, MessagesShape, Deltas
<1>2. wire' \in Seq(Message) /\ Len(wire') = n + 1 /\ wire'[n + 1] = m /\ \A i \in 1 .. n : wire'[i] = wire[i]
  BY <1>1
<1>3. MessagesShape'
  BY <1>2 DEF MessagesInv, MessagesShape
<1> HIDE DEF n
<1>4. WireTells'
  <2>1. PICK f \in [Nat -> Whole] : WireLeadsTo(f)
    BY DEF MessagesInv, WireTells
  <2>2. PICK g \in [Nat -> Whole] : g[n + 1] = a /\ \A i \in 0 .. n : g[i] = f[i]
    <3> DEFINE h == [f EXCEPT ![n + 1] = a]
    <3>1. h \in [Nat -> Whole] /\ h[n + 1] = a /\ \A i \in 0 .. n : h[i] = f[i]
      BY <1>1
    <3> QED
      BY <3>1
  <2>3. ~lost' => g[0] = LastTaken'
    BY <1>1, <2>1, <2>2 DEF WireLeadsTo, LastTaken
  <2>4. g[n + 1] = venue'
    BY <2>2
  <2>5. ASSUME NEW i \in 1 .. n + 1 PROVE TakesTo(g[i - 1], wire'[i], g[i])
    <3>1. CASE i = n + 1
      <4>1. g[i - 1] = venue /\ g[i] = a /\ wire'[i] = m
        BY <1>1, <1>2, <2>1, <2>2, <3>1 DEF WireLeadsTo, n
      <4> QED
        BY <4>1
    <3>2. CASE i \in 1 .. n
      <4>1. g[i - 1] = f[i - 1] /\ g[i] = f[i] /\ wire'[i] = wire[i]
        BY <1>1, <1>2, <2>2, <3>2
      <4>2. TakesTo(f[i - 1], wire[i], f[i])
        BY <2>1, <3>2 DEF WireLeadsTo, n
      <4> QED
        BY <4>1, <4>2
    <3>3. i = n + 1 \/ i \in 1 .. n
      BY <1>1
    <3> QED
      BY <3>1, <3>2, <3>3
  <2>6. WireLeadsTo(g)'
    BY <1>2, <2>3, <2>4, <2>5 DEF WireLeadsTo
  <2> QED
    BY <2>2, <2>6 DEF WireTells
<1>5. ChanTells'
  BY DEF MessagesInv, ChanTells, EntryTells, LastTaken, Upsert, Empty, NoBook
<1>6. SnapshotComesFirst'
  BY <1>1, <1>2 DEF MessagesInv, SnapshotComesFirst, NoBook, Empty, n
<1>7. BooksMirror'
  BY DEF MessagesInv, BooksMirror
<1> QED
  BY <1>3, <1>4, <1>5, <1>6, <1>7 DEF MessagesInv

\* A level changes at the exchange.
LEMMA ChangeKeeps == ASSUME MessagesInv, NEW l \in Levels, NEW q \in Quantities, Change(l, q) PROVE MessagesInv'
<1> SUFFICES ASSUME msgOf \in Deltas PROVE MessagesInv'
  BY DEF Change, MessagesInv, Deltas
<1>1. /\ venue' = [venue EXCEPT ![l] = q] /\ wire' = Append(wire, ChangeOf(l, venue'))
      /\ UNCHANGED <<msgOf, chan, book, buffers, sent, trades, reconnects, lost, mirrored>>
  BY DEF Change
<1>2. venue \in Whole /\ trades \in Nat /\ q \in Nat
  BY MessagesAssumption DEF MessagesInv, MessagesShape
<1>3. PICK a \in Whole : a = venue' /\ \A k \in Levels : k # l => a[k] = venue[k]
  BY <1>1, <1>2 DEF Whole
<1>4. PICK m : m = ChangeOf(l, a)
  OBVIOUS
<1>5. m \in Message /\ TakesTo(venue, m, a) /\ m.kind = "book" /\ m.type = "update"
  BY <1>2, <1>3, <1>4, LevelChangeTells
<1>6. wire' = Append(wire, m) /\ venue' = a /\ trades' \in Nat
  BY <1>1, <1>2, <1>3, <1>4
<1> QED
  BY <1>1, <1>5, <1>6, SentOnKeeps

\* A trade or a ticker says nothing of the book.
LEMMA TradeKeeps ==
    ASSUME MessagesInv, Ticker \/ \E mapped \in BOOLEAN : Trade(mapped)
    PROVE  MessagesInv'
<1> SUFFICES ASSUME msgOf \in Deltas PROVE MessagesInv'
  BY DEF Ticker, Trade, MessagesInv, Deltas
<1>1. trades \in Nat /\ venue \in Whole
  BY DEF MessagesInv, MessagesShape
<1>2. /\ trades' \in Nat /\ venue' = venue
      /\ UNCHANGED <<msgOf, chan, book, sent, reconnects, lost, mirrored>>
  <2>1. trades' = trades + 1 /\ UNCHANGED <<venue, msgOf, chan, book, sent, reconnects, lost, mirrored>>
    BY DEF Ticker, Trade
  <2> QED
    BY <1>1, <2>1
<1>3. PICK m \in Message : wire' = Append(wire, m) /\ m.kind # "book"
  <2>1. CASE Ticker
    <3>1. [kind |-> "ticker", id |-> 0] \in Message
      BY DEF Message
    <3> QED
      BY <2>1, <3>1 DEF Ticker
  <2>2. ASSUME NEW mapped \in BOOLEAN, Trade(mapped)
        PROVE  \E m \in Message : wire' = Append(wire, m) /\ m.kind # "book"
    <3>1. [kind |-> "trade", id |-> trades', mapped |-> mapped] \in Message
      BY <1>2 DEF Message
    <3> QED
      BY <2>2, <3>1 DEF Trade
  <2> QED
    BY <2>1, <2>2
<1>4. TakesTo(venue, m, venue) /\ m.kind # "book"
  BY <1>3 DEF TakesTo
<1> QED
  BY <1>1, <1>2, <1>3, <1>4, SentOnKeeps

\* The last update taken tells a book, or that one was lost.
LEMMA LastTakenType == ASSUME MessagesShape PROVE LastTaken \in Whole \cup {NoBook}
<1>1. CASE chan = <<>>
  BY <1>1 DEF LastTaken, MessagesShape
<1>2. CASE chan # <<>>
  <2> DEFINE u == chan[Len(chan)]
  <2>1. u \in Entry
    BY <1>2 DEF MessagesShape
  <2> HIDE DEF u
  <2>2. u.after \in Whole \cup {NoBook}
    BY <2>1 DEF Entry
  <2> QED
    BY <1>2, <2>2 DEF LastTaken, u
<1> QED
  BY <1>1, <1>2

\* A new subscription begins with a snapshot.
LEMMA ReconnectKeeps ==
    ASSUME MessagesInv, NEW l \in Levels, NEW q \in Quantities, Reconnect(l, q) PROVE MessagesInv'
<1> SUFFICES ASSUME msgOf \in Deltas PROVE MessagesInv'
  BY DEF Reconnect, MessagesInv, Deltas
<1> DEFINE m == SnapshotOf(venue')
<1>1. /\ venue' = [venue EXCEPT ![l] = q] /\ wire' = <<m>> /\ reconnects' = reconnects + 1
      /\ UNCHANGED <<msgOf, chan, book, sent, trades, lost, mirrored>>
  BY DEF Reconnect
<1>2. reconnects' \in Nat /\ reconnects' # 0
  BY <1>1 DEF MessagesInv, MessagesShape
<1>3. venue' \in Whole
  BY <1>1, MessagesAssumption DEF MessagesInv, MessagesShape, Whole
<1>4. m \in Message /\ \A c \in Whole : TakesTo(c, m, venue')
  BY <1>3, SnapshotTells
<1> HIDE DEF m
<1>5. wire' \in Seq(Message) /\ Len(wire') = 1 /\ wire'[1] = m
  BY <1>1, <1>4
<1>6. MessagesShape'
  BY <1>1, <1>2, <1>3, <1>5 DEF MessagesInv, MessagesShape
<1>7. WireTells'
  <2>1. PICK b \in Whole : ~lost => b = LastTaken
    <3>1. Empty \in Whole
      BY <1>3, WholeIsBook
    <3>2. ~lost => LastTaken \in Whole
      BY LastTakenType DEF MessagesInv, ChanTells
    <3> QED
      BY <3>1, <3>2
  <2>2. PICK g \in [Nat -> Whole] : g[0] = b /\ g[1] = venue'
    <3> DEFINE h == [i \in Nat |-> IF i = 0 THEN b ELSE venue']
    <3>1. h \in [Nat -> Whole] /\ h[0] = b /\ h[1] = venue'
      BY <1>3
    <3> QED
      BY <3>1
  <2>3. ~lost' => g[0] = LastTaken'
    BY <1>1, <2>1, <2>2 DEF LastTaken
  <2>4. \A i \in 1 .. 1 : TakesTo(g[i - 1], wire'[i], g[i])
    BY <1>4, <1>5, <2>2
  <2>5. WireLeadsTo(g)'
    BY <1>5, <2>2, <2>3, <2>4 DEF WireLeadsTo
  <2> QED
    BY <2>5 DEF WireTells
<1>8. ChanTells'
  <2>1. LastTaken' = LastTaken
    BY <1>1 DEF LastTaken
  <2>2. chan' = chan /\ mirrored' = mirrored /\ lost' = lost
    BY <1>1
  <2> QED
    BY <1>2, <2>1, <2>2 DEF MessagesInv, ChanTells, EntryTells
<1>9. SnapshotComesFirst'
  BY <1>1, <1>2 DEF MessagesInv, SnapshotComesFirst
<1>10. BooksMirror'
  BY <1>1, <1>2 DEF MessagesInv, BooksMirror
<1> QED
  BY <1>6, <1>7, <1>8, <1>9, <1>10 DEF MessagesInv

\* What each message comes to, for the exchanges with builders.
LEMMA ProcessMakes ==
    ASSUME msgOf \in Deltas, NEW m \in Message
    PROVE  LET e == ProcessMessage(m) IN
           /\ e.book = NoBook /\ e.trades \in Seq(Nat)
           /\ IF m.kind = "book"
                THEN e.update = [type |-> IF msgOf = "bybit" THEN "unknown"
                                          ELSE IF msgOf = "deribit" THEN "change" ELSE m.type,
                                 levels |-> m.levels,
                                 after |-> IF lost /\ m.type # "snapshot" THEN NoBook ELSE m.after]
                ELSE e.update = NoEntry
<1> DEFINE u(type) == [type |-> type, levels |-> m.levels,
                       after |-> IF lost /\ m.type # "snapshot" THEN NoBook ELSE m.after]
           e == ProcessMessage(m)
<1>1. m.kind \in {"book", "trade", "ticker"} /\ (m.kind # "book" => m.id \in Nat)
  BY DEF Message
<1>2. /\ Nothing.book = NoBook /\ Nothing.trades = <<>> /\ Nothing.update = NoEntry
      /\ TradeOf(m).book = NoBook /\ TradeOf(m).trades = <<m.id>> /\ TradeOf(m).update = NoEntry
  BY DEF Nothing, TradeOf
<1>3. ASSUME NEW type PROVE UpdateOf(m, type).book = NoBook /\ UpdateOf(m, type).trades = <<>>
                            /\ UpdateOf(m, type).update = u(type)
  BY DEF Nothing, UpdateOf
<1> HIDE DEF u
<1>4. \/ m.kind # "book" /\ e \in {Nothing, TradeOf(m)}
      \/ m.kind = "book" /\ e = UpdateOf(m, IF msgOf = "bybit" THEN "unknown"
                                             ELSE IF msgOf = "deribit" THEN "change" ELSE m.type)
  <2>1. CASE msgOf = "bybit"
    BY <1>1, <2>1 DEF ProcessMessage, process_bybit_message, process_bybit_trade
  <2>2. CASE msgOf = "coinbase"
    BY <1>1, <2>2 DEF ProcessMessage, process_coinbase_message, process_coinbase_trades, process_coinbase_l2
  <2>3. CASE msgOf = "deribit"
    BY <1>1, <2>3 DEF ProcessMessage, process_deribit_message
  <2> QED
    BY <2>1, <2>2, <2>3 DEF Deltas
<1> HIDE DEF e
<1>5. CASE m.kind # "book"
  <2>1. e.book = NoBook /\ e.trades \in Seq(Nat) /\ e.update = NoEntry
    <3>1. <<>> \in Seq(Nat) /\ <<m.id>> \in Seq(Nat)
      BY <1>1, <1>5
    <3> QED
      BY <1>2, <1>4, <1>5, <3>1
  <2> QED
    BY <1>5, <2>1 DEF e
<1>6. CASE m.kind = "book"
  <2>1. e.book = NoBook /\ e.trades = <<>>
        /\ e.update = u(IF msgOf = "bybit" THEN "unknown" ELSE IF msgOf = "deribit" THEN "change" ELSE m.type)
    BY <1>3, <1>4, <1>6
  <2> QED
    BY <1>6, <2>1 DEF e, u
<1> QED
  BY <1>5, <1>6

\* The task of the stream takes a message.
LEMMA MessageProcessed == ASSUME MessagesInv, Process PROVE MessagesInv'
<1> SUFFICES ASSUME msgOf \in Deltas PROVE MessagesInv'
  BY DEF Process, MessagesInv, Deltas
<1> DEFINE m == Head(wire)
           n == Len(wire)
           kept == [type |-> IF msgOf = "bybit" THEN "unknown" ELSE IF msgOf = "deribit" THEN "change" ELSE m.type,
                    levels |-> m.levels,
                    after |-> IF lost /\ m.type # "snapshot" THEN NoBook ELSE m.after]
<1>0. MessagesShape /\ wire \in Seq(Message) /\ chan \in Seq(Entry)
  BY DEF MessagesInv, MessagesShape
<1>1. wire # <<>> /\ m \in Message /\ m = wire[1] /\ n \in Nat /\ n >= 1
  <2>1. wire # <<>>
    BY DEF Process
  <2> QED
    BY <1>0, <2>1
<1>2. wire' = Tail(wire) /\ wire' \in Seq(Message) /\ Len(wire') = n - 1 /\ \A i \in 1 .. n - 1 : wire'[i] = wire[i + 1]
  <2>1. wire' = Tail(wire)
    BY DEF Process
  <2> QED
    BY <1>0, <1>1, <2>1
<1>3. UNCHANGED <<msgOf, venue, book, trades, reconnects, mirrored>>
  BY DEF Process
<1>4. sent' \in [trades : Seq(Nat), books : Seq(Whole)] /\ sent'.books = sent.books
  <2> DEFINE e == ProcessMessage(m)
  <2>1. e.book = NoBook /\ e.trades \in Seq(Nat)
    BY <1>1, ProcessMakes
  <2> HIDE DEF m
  <2>2. sent' = [sent EXCEPT !.trades = @ \o e.trades]
    BY <2>1 DEF Process, PublishTrades, m
  <2>3. sent.trades \o e.trades \in Seq(Nat)
    BY <1>0, <2>1, ConcatProperties DEF MessagesShape
  <2> HIDE DEF e
  <2> QED
    BY <1>0, <2>2, <2>3 DEF MessagesShape
<1>5. \/ m.kind # "book" /\ chan' = chan /\ lost' = lost
      \/ m.kind = "book" /\ chan' = Append(chan, kept) /\ lost' = (lost /\ m.type # "snapshot")
      \/ m.kind = "book" /\ chan' = chan /\ lost' = TRUE
  <2> DEFINE e == ProcessMessage(m)
  <2>1. IF m.kind = "book" THEN e.update = kept ELSE e.update = NoEntry
    BY <1>1, ProcessMakes
  <2>2. kept # NoEntry
    <3>1. kept.type \in {"unknown", "change", "snapshot", "update"} \/ m.kind # "book"
      BY <1>1 DEF Message
    <3>2. NoEntry.type = "none"
      BY DEF NoEntry
    <3>3. DOMAIN kept = {"type", "levels", "after"} /\ DOMAIN NoEntry = {"type"}
      BY DEF NoEntry
    <3> QED
      BY <3>3
  <2>3. IF e.update = NoEntry THEN UNCHANGED <<chan, lost>>
        ELSE IF Len(chan) < ChannelCapacity
        THEN chan' = Append(chan, e.update) /\ lost' = (lost /\ m.type # "snapshot")
        ELSE chan' = chan /\ lost' = TRUE
    BY DEF Process
  <2> HIDE DEF e, m, kept
  <2> QED
    BY <2>1, <2>2, <2>3
<1>6. m.kind = "book" => /\ kept \in Entry /\ m.after \in Whole /\ kept.levels = m.levels
                         /\ m.type \in {"snapshot", "update"}
                         /\ kept.type = (IF msgOf = "bybit" THEN "unknown" ELSE IF msgOf = "deribit" THEN "change" ELSE m.type)
                         /\ kept.after = (IF lost /\ m.type # "snapshot" THEN NoBook ELSE m.after)
  <2> SUFFICES ASSUME m.kind = "book"
               PROVE  kept \in Entry /\ m.after \in Whole /\ m.type \in {"snapshot", "update"}
    OBVIOUS
  <2> HIDE DEF m
  <2>1. m.after \in Whole /\ m.type \in {"snapshot", "update"} /\ m.levels \in Changed
    BY <1>1 DEF Message
  <2> QED
    BY <2>1 DEF Entry
<1> HIDE DEF m, n, kept
<1>7. chan' \in Seq(Entry) /\ lost' \in BOOLEAN
      /\ \A i \in 1 .. Len(chan') :
           chan'[i].type \in IF msgOf = "bybit" THEN {"unknown"}
                             ELSE IF msgOf = "deribit" THEN {"change"} ELSE {"snapshot", "update"}
  <2>1. CASE chan' = chan
    BY <1>0, <1>5, <2>1 DEF MessagesShape
  <2>2. CASE m.kind = "book" /\ chan' = Append(chan, kept)
    <3>1. /\ chan' \in Seq(Entry) /\ Len(chan') = Len(chan) + 1 /\ Len(chan) \in Nat /\ chan'[Len(chan) + 1] = kept
          /\ \A i \in 1 .. Len(chan) : chan'[i] = chan[i]
      BY <1>0, <1>6, <2>2, AppendProperties, LenProperties
    <3>2. kept.type \in IF msgOf = "bybit" THEN {"unknown"}
                        ELSE IF msgOf = "deribit" THEN {"change"} ELSE {"snapshot", "update"}
      BY <1>6, <2>2
    <3>3. ASSUME NEW i \in 1 .. Len(chan')
          PROVE  chan'[i].type \in IF msgOf = "bybit" THEN {"unknown"}
                                   ELSE IF msgOf = "deribit" THEN {"change"} ELSE {"snapshot", "update"}
      <4>1. i = Len(chan) + 1 \/ i \in 1 .. Len(chan)
        BY <3>1
      <4> QED
        BY <1>0, <3>1, <3>2, <4>1 DEF MessagesShape
    <3>4. lost' \in BOOLEAN
      BY <1>0, <1>5 DEF MessagesShape
    <3> QED
      BY <3>1, <3>3, <3>4
  <2> QED
    BY <1>5, <2>1, <2>2
<1>8. MessagesShape'
  BY <1>0, <1>2, <1>3, <1>4, <1>7 DEF MessagesShape
<1>9. PICK f \in [Nat -> Whole] : WireLeadsTo(f)
  BY DEF MessagesInv, WireTells
<1>10. /\ ~lost => f[0] = LastTaken /\ LastTaken # NoBook
       /\ TakesTo(f[0], m, f[1])
       /\ f[n] = venue /\ \A i \in 1 .. n : TakesTo(f[i - 1], wire[i], f[i])
  <2>1. ~lost => f[0] = LastTaken /\ LastTaken # NoBook
    BY <1>9 DEF WireLeadsTo, MessagesInv, ChanTells
  <2>2. f[n] = venue /\ \A i \in 1 .. n : TakesTo(f[i - 1], wire[i], f[i])
    BY <1>9 DEF WireLeadsTo, n
  <2>3. 1 \in 1 .. n /\ 1 - 1 = 0
    BY <1>1
  <2>4. TakesTo(f[1 - 1], wire[1], f[1])
    BY <2>2, <2>3
  <2> QED
    BY <1>1, <2>1, <2>2, <2>3, <2>4
<1>11. ~lost' => f[1] = LastTaken' /\ LastTaken' # NoBook
  <2>1. CASE m.kind # "book" /\ chan' = chan /\ lost' = lost
    <3>1. f[1] = f[0] /\ LastTaken' = LastTaken
      BY <1>3, <1>10, <2>1 DEF TakesTo, LastTaken
    <3> QED
      BY <1>10, <2>1, <3>1
  <2>2. CASE m.kind = "book" /\ chan' = Append(chan, kept) /\ lost' = (lost /\ m.type # "snapshot")
    <3> SUFFICES ASSUME ~lost' PROVE f[1] = LastTaken' /\ LastTaken' # NoBook
      OBVIOUS
    <3>1. chan' # <<>> /\ chan'[Len(chan')] = kept
      BY <1>0, <1>6, <2>2, AppendProperties
    <3>2. LastTaken' = kept.after
      BY <3>1 DEF LastTaken
    <3>3. kept.after = m.after /\ m.after = f[1]
      BY <1>6, <1>10, <2>2 DEF TakesTo
    <3> QED
      BY <1>6, <2>2, <3>2, <3>3, WholeIsBook
  <2> QED
    BY <1>5, <2>1, <2>2
<1>12. WireTells'
  <2>1. PICK g \in [Nat -> Whole] : \A i \in Nat : g[i] = f[i + 1]
    <3> DEFINE h == [i \in Nat |-> f[i + 1]]
    <3>1. h \in [Nat -> Whole] /\ \A i \in Nat : h[i] = f[i + 1]
      OBVIOUS
    <3> QED
      BY <3>1
  <2>2. g[0] = f[1] /\ g[n - 1] = f[n]
    <3>1. n - 1 \in Nat /\ (n - 1) + 1 = n /\ 0 + 1 = 1
      BY <1>1
    <3> QED
      BY <2>1, <3>1
  <2>3. ASSUME NEW i \in 1 .. n - 1 PROVE TakesTo(g[i - 1], wire'[i], g[i])
    <3>1. i + 1 \in 1 .. n /\ i - 1 \in Nat /\ i \in Nat /\ (i - 1) + 1 = i /\ (i + 1) - 1 = i
      BY <1>1
    <3>2. g[i - 1] = f[i] /\ g[i] = f[i + 1] /\ wire'[i] = wire[i + 1]
      BY <1>2, <2>1, <3>1
    <3>3. TakesTo(f[(i + 1) - 1], wire[i + 1], f[i + 1])
      BY <1>10, <3>1
    <3> QED
      BY <3>1, <3>2, <3>3
  <2>4. WireLeadsTo(g)'
    BY <1>2, <1>3, <1>10, <1>11, <2>2, <2>3 DEF WireLeadsTo
  <2> QED
    BY <2>4 DEF WireTells
<1>13. ChanTells'
  <2> DEFINE before(i) == IF i = 1 THEN mirrored ELSE chan[i - 1].after
             k == Len(chan)
  <2>1. \A i \in 1 .. k : EntryTells(before(i), chan[i])
    BY DEF MessagesInv, ChanTells
  <2>2. CASE chan' = chan
    <3>1. \A b, u : EntryTells(b, u)' <=> EntryTells(b, u)
      BY <1>3 DEF EntryTells
    <3> QED
      BY <1>3, <1>11, <2>1, <2>2 DEF ChanTells, EntryTells
  <2>3. CASE m.kind = "book" /\ chan' = Append(chan, kept)
    <3>1. /\ k \in Nat /\ Len(chan') = k + 1 /\ chan'[k + 1] = kept /\ \A i \in 1 .. k : chan'[i] = chan[i]
      BY <1>0, <1>6, <2>3, AppendProperties, LenProperties
    <3>2. LastTaken = (IF k + 1 = 1 THEN mirrored ELSE chan[(k + 1) - 1].after)
      <4>1. chan = <<>> <=> k = 0
        BY <1>0
      <4>2. k \in Nat /\ (k + 1) - 1 = k /\ (k + 1 = 1 <=> k = 0)
        BY <3>1
      <4> QED
        BY <4>1, <4>2 DEF LastTaken
    <3>3. EntryTells(LastTaken, kept)
      <4>1. kept.type = "snapshot" => kept.after = Upsert(Empty, kept.levels)
        BY <1>6, <1>10, <2>3 DEF TakesTo
      <4>2. ASSUME kept.type = "update" \/ (kept.type = "change" /\ reconnects = 0), kept.after # NoBook
            PROVE  LastTaken # NoBook /\ kept.after = Upsert(LastTaken, kept.levels)
        <5>1. kept.after = m.after /\ m.after = f[1] /\ ~(lost /\ m.type # "snapshot")
          BY <1>6, <1>10, <2>3, <4>2 DEF TakesTo
        <5>2. CASE m.type = "update"
          BY <1>6, <1>10, <2>3, <5>1, <5>2 DEF TakesTo
        <5>3. CASE m.type = "snapshot"
          <6>1. msgOf = "deribit" /\ reconnects = 0
            BY <1>6, <2>3, <4>2, <5>3
          <6>2. 1 \in 1 .. Len(wire) /\ wire[1].kind = "book" /\ wire[1].type = "snapshot"
            BY <1>1, <2>3, <5>3 DEF n
          <6>3. chan = <<>> /\ mirrored = Empty
            BY <6>1, <6>2 DEF MessagesInv, SnapshotComesFirst
          <6>4. LastTaken = Empty /\ Empty # NoBook
            BY <1>6, <2>3, <6>3, WholeIsBook DEF LastTaken
          <6> QED
            BY <1>6, <1>10, <2>3, <5>1, <5>3, <6>4 DEF TakesTo
        <5> QED
          BY <1>6, <2>3, <5>2, <5>3
      <4> QED
        BY <4>1, <4>2 DEF EntryTells
    <3>4. ASSUME NEW i \in 1 .. k + 1
          PROVE  EntryTells(IF i = 1 THEN mirrored ELSE chan'[i - 1].after, chan'[i])
      <4>1. i = k + 1 \/ (i \in 1 .. k /\ i # k + 1)
        BY <3>1
      <4>2. i = 1 \/ i - 1 \in 1 .. k
        BY <3>1
      <4>3. (IF i = 1 THEN mirrored ELSE chan'[i - 1].after) = (IF i = 1 THEN mirrored ELSE chan[i - 1].after)
        BY <3>1, <4>2
      <4>4. CASE i = k + 1
        BY <3>1, <3>2, <3>3, <4>3, <4>4
      <4>5. CASE i \in 1 .. k
        BY <2>1, <3>1, <4>3, <4>5
      <4> QED
        BY <4>1, <4>4, <4>5
    <3>5. \A i \in 1 .. Len(chan') :
             EntryTells(IF i = 1 THEN mirrored ELSE chan'[i - 1].after, chan'[i])
      BY <3>1, <3>4
    <3> QED
      BY <1>3, <1>11, <3>5 DEF ChanTells, EntryTells
  <2> QED
    BY <1>5, <2>2, <2>3
<1>14. SnapshotComesFirst'
  <2> SUFFICES ASSUME msgOf = "deribit"
               PROVE  /\ book = NoBook => mirrored = Empty
                      /\ reconnects = 0 =>
                           \A i \in 1 .. n - 1 : ~(wire'[i].kind = "book" /\ wire'[i].type = "snapshot")
    BY <1>2, <1>3 DEF SnapshotComesFirst
  <2>1. book = NoBook => mirrored = Empty
    BY DEF MessagesInv, SnapshotComesFirst
  <2>2. ASSUME reconnects = 0, NEW i \in 1 .. n - 1, wire'[i].kind = "book" /\ wire'[i].type = "snapshot"
        PROVE  FALSE
    <3>1. i + 1 \in 1 .. n /\ i + 1 # 1
      BY <1>1
    <3>2. wire'[i] = wire[i + 1]
      BY <1>2
    <3> QED
      BY <2>2, <3>1, <3>2 DEF MessagesInv, SnapshotComesFirst, n
  <2> QED
    BY <2>1, <2>2
<1>15. BooksMirror'
  BY <1>3, <1>4 DEF MessagesInv, BooksMirror
<1> QED
  BY <1>8, <1>12, <1>13, <1>14, <1>15 DEF MessagesInv

\* What the builder makes of an update.
LEMMA UpdateMakes ==
    ASSUME msgOf \in Deltas, NEW b \in Whole \cup {NoBook}, NEW u \in Entry
    PROVE  /\ process_update(b, u) \in Whole \cup {NoBook}
           /\ msgOf = "bybit" /\ u.type = "unknown" => process_update(b, u) = b
           /\ msgOf = "coinbase" /\ u.type = "snapshot" => process_update(b, u) = Upsert(Empty, u.levels)
           /\ msgOf = "coinbase" /\ u.type = "update" =>
                process_update(b, u) = IF b = NoBook THEN NoBook ELSE Upsert(b, u.levels)
           /\ msgOf = "deribit" => process_update(b, u) = Upsert(IF b = NoBook THEN Empty ELSE b, u.levels)
<1>1. Empty \in Whole /\ u.levels \in Changed
  BY DEF Empty, Whole, Entry
<1>2. Upsert(Empty, u.levels) \in Whole /\ (b # NoBook => Upsert(b, u.levels) \in Whole)
  BY <1>1, UpsertType
<1>3. CASE msgOf = "bybit"
  BY <1>2, <1>3 DEF process_update, bybit_process_update
<1>4. CASE msgOf = "coinbase"
  BY <1>2, <1>4 DEF process_update, coinbase_process_update
<1>5. CASE msgOf = "deribit"
  BY <1>2, <1>5 DEF process_update, deribit_process_update
<1> QED
  BY <1>3, <1>4, <1>5 DEF Deltas

\* The builder's task takes an update.
LEMMA BuildKeeps == ASSUME MessagesInv, Build PROVE MessagesInv'
<1> SUFFICES ASSUME msgOf \in Deltas PROVE MessagesInv'
  BY DEF Build, MessagesInv, Deltas
<1> DEFINE u == Head(chan)
           n == Len(chan)
<1>0. MessagesShape /\ chan \in Seq(Entry) /\ book \in Whole \cup {NoBook} /\ mirrored \in Whole \cup {NoBook}
  BY DEF MessagesInv, MessagesShape
<1>1. chan # <<>> /\ u \in Entry /\ u = chan[1] /\ n \in Nat /\ n >= 1
  <2>1. chan # <<>>
    BY DEF Build
  <2> QED
    BY <1>0, <2>1
<1>2. chan' \in Seq(Entry) /\ Len(chan') = n - 1 /\ \A i \in 1 .. n - 1 : chan'[i] = chan[i + 1]
  <2>1. chan' = Tail(chan)
    BY DEF Build
  <2> QED
    BY <1>0, <1>1, <2>1
<1>3. /\ book' = process_update(book, u) /\ mirrored' = u.after
      /\ UNCHANGED <<msgOf, venue, wire, trades, reconnects, lost>>
      /\ IF Publishes(book, u) THEN sent' = [sent EXCEPT !.books = Append(@, book')] ELSE sent' = sent
  BY DEF Build, publish_orderbook
<1>4. u.type \in (IF msgOf = "bybit" THEN {"unknown"}
                 ELSE IF msgOf = "deribit" THEN {"change"} ELSE {"snapshot", "update"})
      /\ EntryTells(mirrored, u) /\ u.after \in Whole \cup {NoBook}
  <2>1. 1 \in 1 .. n
    BY <1>1
  <2>2. u.after \in Whole \cup {NoBook}
    BY <1>1 DEF Entry
  <2> QED
    BY <1>1, <2>1, <2>2 DEF MessagesInv, MessagesShape, ChanTells, n
<1>5. /\ book' \in Whole \cup {NoBook}
      /\ msgOf = "bybit" => book' = book
      /\ msgOf = "coinbase" /\ u.type = "snapshot" => book' = Upsert(Empty, u.levels)
      /\ msgOf = "coinbase" /\ u.type = "update" => book' = IF book = NoBook THEN NoBook ELSE Upsert(book, u.levels)
      /\ msgOf = "deribit" => book' = Upsert(IF book = NoBook THEN Empty ELSE book, u.levels)
  <2>1. msgOf = "bybit" => u.type = "unknown"
    BY <1>4
  <2> HIDE DEF u
  <2> QED
    BY <1>0, <1>1, <1>3, <2>1, UpdateMakes
<1> HIDE DEF u, n
<1>6. Empty \in Whole /\ Empty # NoBook /\ u.levels \in Changed
  <2>1. Empty \in Whole
    BY DEF Empty, Whole
  <2> QED
    BY <1>1, <2>1, WholeIsBook DEF Entry
<1>7. sent' \in [trades : Seq(Nat), books : Seq(Whole)] /\ (msgOf = "bybit" => sent' = sent)
  <2>1. CASE ~Publishes(book, u)
    BY <1>0, <1>3, <2>1 DEF MessagesShape
  <2>2. CASE Publishes(book, u)
    <3>1. u.type # "unknown" /\ (u.type = "snapshot" \/ book' # NoBook)
      BY <1>3, <2>2 DEF Publishes
    <3>2. book' \in Whole
      <4>1. CASE u.type = "snapshot"
        <5>1. msgOf = "coinbase"
          BY <1>4, <4>1 DEF Deltas
        <5> QED
          BY <1>5, <1>6, <4>1, <5>1, UpsertType
      <4> QED
        BY <1>5, <3>1, <4>1
    <3>3. sent' = [sent EXCEPT !.books = Append(sent.books, book')] /\ msgOf # "bybit"
      BY <1>3, <1>4, <2>2, <3>1
    <3>4. Append(sent.books, book') \in Seq(Whole)
      BY <1>0, <3>2, AppendProperties DEF MessagesShape
    <3> QED
      BY <1>0, <3>3, <3>4 DEF MessagesShape
  <2> QED
    BY <2>1, <2>2
<1>8. MessagesShape'
  <2>1. ASSUME NEW i \in 1 .. Len(chan')
        PROVE  chan'[i].type \in IF msgOf = "bybit" THEN {"unknown"}
                                 ELSE IF msgOf = "deribit" THEN {"change"} ELSE {"snapshot", "update"}
    <3>1. i + 1 \in 1 .. n /\ chan'[i] = chan[i + 1]
      BY <1>1, <1>2
    <3> QED
      BY <1>0, <3>1 DEF MessagesShape, n
  <2> QED
    BY <1>0, <1>2, <1>3, <1>4, <1>5, <1>7, <2>1 DEF MessagesShape
<1>9. LastTaken' = LastTaken
  <2>1. LastTaken = chan[n].after
    BY <1>1 DEF LastTaken, n
  <2>2. CASE n = 1
    <3>1. chan' = <<>>
      BY <1>2, <2>2
    <3> QED
      BY <1>1, <1>3, <2>1, <2>2, <3>1 DEF LastTaken
  <2>3. CASE n # 1
    <3>1. n - 1 \in 1 .. n - 1 /\ (n - 1) + 1 = n /\ n - 1 # 0
      BY <1>1, <2>3
    <3>2. chan' # <<>>
      BY <1>2, <3>1
    <3>3. chan'[n - 1] = chan[n]
      BY <1>2, <3>1
    <3> QED
      BY <1>2, <2>1, <3>2, <3>3 DEF LastTaken
  <2> QED
    BY <2>2, <2>3
<1>10. WireTells'
  BY <1>3, <1>9 DEF MessagesInv, WireTells, WireLeadsTo
<1>11. ChanTells'
  <2>1. ASSUME NEW i \in 1 .. n - 1
        PROVE  EntryTells(IF i = 1 THEN mirrored' ELSE chan'[i - 1].after, chan'[i])
    <3>1. i + 1 \in 1 .. n /\ i + 1 # 1 /\ (i + 1) - 1 = i
      BY <1>1
    <3>2. chan'[i] = chan[i + 1]
      BY <1>2
    <3>3. (IF i = 1 THEN mirrored' ELSE chan'[i - 1].after) = chan[i].after
      <4>1. CASE i = 1
        BY <1>1, <1>3, <4>1
      <4>2. CASE i # 1
        <5>1. i - 1 \in 1 .. n - 1 /\ (i - 1) + 1 = i
          BY <1>1, <4>2
        <5>2. chan'[i - 1] = chan[i]
          BY <1>2, <5>1
        <5> QED
          BY <4>2, <5>2
      <4> QED
        BY <4>1, <4>2
    <3>4. EntryTells(chan[i].after, chan[i + 1])
      <4>1. \A j \in 1 .. n : EntryTells(IF j = 1 THEN mirrored ELSE chan[j - 1].after, chan[j])
        BY DEF MessagesInv, ChanTells, n
      <4>2. EntryTells(IF i + 1 = 1 THEN mirrored ELSE chan[(i + 1) - 1].after, chan[i + 1])
        BY <3>1, <4>1
      <4> QED
        BY <3>1, <4>2
    <3> QED
      BY <3>2, <3>3, <3>4
  <2>2. ~lost' => LastTaken' # NoBook
    BY <1>3, <1>9 DEF MessagesInv, ChanTells
  <2> QED
    BY <1>2, <1>3, <2>1, <2>2 DEF ChanTells, EntryTells
<1>12. msgOf = "deribit" => book' # NoBook
  <2> SUFFICES ASSUME msgOf = "deribit" PROVE book' # NoBook
    OBVIOUS
  <2>1. (IF book = NoBook THEN Empty ELSE book) \in Whole
    BY <1>0, <1>6
  <2>2. book' \in Whole
    BY <1>5, <1>6, <2>1, UpsertType
  <2> QED
    BY <2>2, WholeIsBook
<1>13. SnapshotComesFirst'
  BY <1>1, <1>3, <1>12 DEF MessagesInv, SnapshotComesFirst
<1>14. BooksMirror'
  <2>1. CASE msgOf = "bybit"
    BY <1>3, <1>5, <1>7, <2>1 DEF MessagesInv, BooksMirror
  <2>2. CASE msgOf = "coinbase"
    <3> SUFFICES ASSUME book' # NoBook, mirrored' # NoBook PROVE book' = mirrored'
      BY <1>3, <2>2 DEF BooksMirror
    <3>1. CASE u.type = "snapshot"
      BY <1>3, <1>4, <1>5, <2>2, <3>1 DEF EntryTells
    <3>2. CASE u.type = "update"
      <4>1. book # NoBook /\ book' = Upsert(book, u.levels)
        BY <1>5, <2>2, <3>2
      <4>2. mirrored # NoBook /\ u.after = Upsert(mirrored, u.levels)
        BY <1>3, <1>4, <3>2 DEF EntryTells
      <4>3. book = mirrored
        BY <2>2, <4>1, <4>2 DEF MessagesInv, BooksMirror
      <4> QED
        BY <1>3, <4>1, <4>2, <4>3
    <3> QED
      BY <1>4, <2>2, <3>1, <3>2
  <2>3. CASE msgOf = "deribit"
    <3> SUFFICES ASSUME mirrored' # NoBook, reconnects = 0 PROVE book' = mirrored'
      BY <1>3, <2>3 DEF BooksMirror
    <3>1. u.type = "change"
      BY <1>4, <2>3
    <3>2. mirrored # NoBook /\ u.after = Upsert(mirrored, u.levels)
      BY <1>3, <1>4, <3>1 DEF EntryTells
    <3>3. mirrored = (IF book = NoBook THEN Empty ELSE book)
      BY <2>3, <3>2 DEF MessagesInv, BooksMirror, SnapshotComesFirst
    <3> QED
      BY <1>3, <1>5, <2>3, <3>2, <3>3
  <2> QED
    BY <2>1, <2>2, <2>3 DEF Deltas
<1> QED
  BY <1>8, <1>10, <1>11, <1>13, <1>14 DEF MessagesInv

\* Every step.
LEMMA MessagesStep == MessagesInv /\ [MsgNext]_mvars => MessagesInv'
<1> SUFFICES ASSUME MessagesInv, [MsgNext]_mvars PROVE MessagesInv'
  OBVIOUS
<1>1. ASSUME NEW l \in Levels, NEW q \in Quantities, Change(l, q) \/ Reconnect(l, q) PROVE MessagesInv'
  BY <1>1, ChangeKeeps, ReconnectKeeps
<1>2. ASSUME NEW mapped \in BOOLEAN, Trade(mapped) PROVE MessagesInv'
  BY <1>2, TradeKeeps
<1>3. CASE Ticker
  BY <1>3, TradeKeeps
<1>4. CASE Process
  BY <1>4, MessageProcessed
<1>5. CASE Build
  BY <1>5, BuildKeeps
<1>6. CASE UNCHANGED mvars
  <2>1. MessagesShape' <=> MessagesShape
    BY <1>6 DEF mvars, MessagesShape
  <2>2. WireTells' <=> WireTells
    BY <1>6 DEF mvars, WireTells, WireLeadsTo, LastTaken
  <2>3. (ChanTells' <=> ChanTells) /\ (SnapshotComesFirst' <=> SnapshotComesFirst) /\ (BooksMirror' <=> BooksMirror)
    BY <1>6 DEF mvars, ChanTells, EntryTells, LastTaken, SnapshotComesFirst, BooksMirror
  <2> QED
    BY <1>6, <2>1, <2>2, <2>3 DEF mvars, MessagesInv
<1> QED
  BY <1>1, <1>2, <1>3, <1>4, <1>5, <1>6 DEF MsgNext

\* Through losses, trades and reconnections a builder's book is the exchange's
\* after the last update it took, as the exchange's module says when
\* (coinbase_process_update, deribit_process_update).
THEOREM BooksAlwaysMirror == MsgSpec => []BooksMirror
<1>1. MessagesInv => BooksMirror
  BY DEF MessagesInv, BooksMirror, Deltas
<1> QED
  BY <1>1, MessagesStart, MessagesStep, PTL DEF MsgSpec

--------------------------------------------------------------------------------
(* Their types.                                                            *)

\* The symbols of an exchange.
SymbolRange == 1 .. SpotSymbols + FuturesSymbols

\* A stream asks for symbols that there are.
LEMMA SubscriptionInRange ==
    ASSUME feedOf \in FeedExchanges, NEW s \in Streams
    PROVE  SubscriptionOf(feedOf, s) \in SUBSET SymbolRange
<1>1. feedOf \in {"binance", "bybit", "okx", "upbit", "coinbase", "bithumb", "deribit"}
  BY FeedAssumption DEF FeedAssumption, SymbolsOf
<1>2. SpotSymbols \in Nat /\ FuturesSymbols \in Nat
  BY FeedAssumption DEF FeedAssumption
<1>3. s[1] \in AssetTypes /\ s[3] \in Nat /\ s[3] >= 1
  <2>1. PICK a \in AssetTypes :
          s \in {a} \X Kinds \X (1 .. (SymbolsOf[feedOf][a] + SYMBOLS_PER_CONNECTION - 1) \div SYMBOLS_PER_CONNECTION)
    BY DEF Streams, Chunked
  <2>2. PICK k \in Kinds, i \in 1 .. (SymbolsOf[feedOf][a] + SYMBOLS_PER_CONNECTION - 1) \div SYMBOLS_PER_CONNECTION :
          s = <<a, k, i>>
    BY <2>1
  <2> QED
    BY <2>2
<1>4. ASSUME NEW n \in {SpotSymbols, FuturesSymbols} PROVE Slice(n, s) \in SUBSET SymbolRange
  <2>1. PICK i \in Nat : i = s[3] /\ i >= 1
    BY <1>3
  <2>2. Slice(n, s) = (i - 1) * 10 + 1 .. Lesser(i * 10, n)
    BY <2>1 DEF Slice, SYMBOLS_PER_CONNECTION
  <2>3. n \in Nat /\ n <= SpotSymbols + FuturesSymbols
    BY <1>2
  <2>4. Lesser(i * 10, n) \in Int /\ Lesser(i * 10, n) <= n
    BY <2>3 DEF Lesser
  <2>5. ASSUME NEW x \in (i - 1) * 10 + 1 .. Lesser(i * 10, n) PROVE x \in SymbolRange
    <3>1. x \in Int /\ x <= Lesser(i * 10, n) /\ (i - 1) * 10 + 1 <= x
      BY <2>4
    <3>2. 1 <= x
      BY <2>1, <3>1
    <3>3. x <= SpotSymbols + FuturesSymbols
      BY <1>2, <2>3, <2>4, <3>1
    <3> QED
      BY <1>2, <3>1, <3>2, <3>3 DEF SymbolRange
  <2> QED
    BY <2>2, <2>5
<1>5. ByAssetType[s[1]] \in {SpotSymbols, FuturesSymbols}
  BY <1>3 DEF ByAssetType
<1> QED
  BY <1>1, <1>4, <1>5 DEF SubscriptionOf, binance_connect_websocket, bybit_subscribe, okx_subscribe, upbit_subscribe,
                          coinbase_subscribe, bithumb_subscribe, deribit_subscribe

\* What FeedInv leaves out: how far the loop is, how often it tried, what was asked for.
FeedWithin ==
    /\ next \in 1 .. Len(StreamOrder) + 1
    /\ tries \in 0 .. MaxRetries
    /\ deaf \subseteq Streams /\ down \in BOOLEAN
    /\ asked \in [Streams -> SUBSET SymbolRange]

\* A feed begins with its first stream.
LEMMA WithinStarts == FeedInit => FeedWithin
<1> SUFFICES ASSUME FeedInit PROVE FeedWithin
  OBVIOUS
<1>1. feedOf \in FeedExchanges /\ next = 1 /\ tries = 0 /\ deaf = {} /\ down = FALSE /\ asked = [s \in Streams |-> {}]
  BY DEF FeedInit
<1>2. Len(StreamOrder) \in Nat
  BY <1>1, StreamsListed
<1>3. MaxRetries \in Nat
  BY FeedAssumption DEF FeedAssumption
<1>4. asked \in [Streams -> SUBSET SymbolRange]
  BY <1>1
<1>5. next \in 1 .. Len(StreamOrder) + 1
  <2>1. PICK n \in Nat : n = Len(StreamOrder)
    BY <1>2
  <2> QED
    BY <1>1, <2>1
<1>6. tries \in 0 .. MaxRetries
  BY <1>1, <1>3
<1>7. deaf \subseteq Streams /\ down \in BOOLEAN
  BY <1>1, Zenon
<1> QED
  BY <1>4, <1>5, <1>6, <1>7 DEF FeedWithin

\* An exchange that gives a stream up does so after MaxRetries failures, and the others
\* do not count them.
LEMMA TriesWithin ==
    ASSUME feedOf \in FeedExchanges, tries \in 0 .. MaxRetries, AfterFailure(feedOf, tries + 1) # "skip"
    PROVE  (IF GivesUp THEN tries + 1 ELSE tries) \in 0 .. MaxRetries
<1>1. feedOf \in {"binance", "bybit", "okx", "upbit", "coinbase", "bithumb", "deribit"}
  BY FeedAssumption DEF FeedAssumption, SymbolsOf
<1>2. MaxRetries \in Nat
  BY FeedAssumption DEF FeedAssumption
<1>3. CASE feedOf \in {"binance", "okx", "upbit"}
  <2>1. \A n : AfterFailure(feedOf, n) = "retry"
    BY <1>3 DEF AfterFailure, binance_connect, okx_connect, upbit_connect
  <2>2. ~GivesUp
    BY <2>1 DEF GivesUp
  <2> QED
    BY <2>2
<1>4. CASE feedOf \in {"bybit", "coinbase", "bithumb", "deribit"}
  <2>1. ~(tries + 1 > MaxRetries)
    BY <1>4 DEF AfterFailure, bybit_connect, coinbase_connect, bithumb_connect, deribit_connect
  <2> QED
    BY <1>2, <2>1
<1> QED
  BY <1>1, <1>3, <1>4

\* Every step of a feed.
LEMMA WithinSteps == FeedInv /\ FeedWithin /\ [FeedNext]_fvars => FeedWithin'
<1> SUFFICES ASSUME FeedInv, FeedWithin, [FeedNext]_fvars PROVE FeedWithin'
  OBVIOUS
<1>1. feedOf \in FeedExchanges /\ MaxRetries \in Nat
  BY FeedFacts, FeedAssumption DEF FeedAssumption
<1>2. PICK n \in Nat : n = Len(StreamOrder)
  BY <1>1, StreamsListed
<1>3. feedOf' = feedOf
  <2>1. \A s : (\A why : Lose(s, why) => feedOf' = feedOf) /\ (HearShutdown(s) => feedOf' = feedOf)
    BY DEF Lose, HearShutdown
  <2>2. CASE FeedLoop
    BY <2>2 DEF FeedLoop, Connect, ConnectFails, Subscribe, SubscribeFails, Spawn, Return
  <2>3. CASE Shutdown \/ Abort \/ UNCHANGED fvars
    BY <2>3 DEF Shutdown, Abort, fvars
  <2> QED
    BY <2>1, <2>2, <2>3 DEF FeedNext
<1>4. Streams' = Streams /\ StreamOrder' = StreamOrder
  BY <1>3, SameExchange
<1>5. next \in 1 .. n + 1 /\ tries \in 0 .. MaxRetries /\ deaf \subseteq Streams /\ down \in BOOLEAN
      /\ asked \in [Streams -> SUBSET SymbolRange]
  BY <1>2 DEF FeedWithin
<1>6. ASSUME next' \in 1 .. n + 1, tries' \in 0 .. MaxRetries, deaf' \subseteq Streams, down' \in BOOLEAN,
             asked' \in [Streams -> SUBSET SymbolRange]
      PROVE  FeedWithin'
  BY <1>2, <1>4, <1>6 DEF FeedWithin, SymbolRange
<1>7. CASE Connect
  <2>1. /\ next <= n /\ next' = next + 1 /\ tries' = 0 /\ deaf' = deaf /\ down' = down
        /\ asked' = [asked EXCEPT ![Current] = IF feedOf = "binance" THEN SubscriptionOf(feedOf, Current) ELSE {}]
    BY <1>2, <1>7 DEF Connect
  <2>2. Current \in Streams
    BY <1>2, <2>1, CurrentType
  <2>3. PICK x \in SUBSET SymbolRange : x = IF feedOf = "binance" THEN SubscriptionOf(feedOf, Current) ELSE {}
    BY <1>1, <2>2, SubscriptionInRange
  <2>4. asked' \in [Streams -> SUBSET SymbolRange]
    BY <1>5, <2>1, <2>3
  <2> QED
    BY <1>1, <1>2, <1>5, <1>6, <2>1, <2>4
<1>8. CASE ConnectFails
  <2>1. next <= n /\ deaf' = deaf /\ down' = down /\ asked' = asked
    BY <1>2, <1>8 DEF ConnectFails
  <2>2. next' \in 1 .. n + 1
    BY <1>5, <1>8, <2>1 DEF ConnectFails
  <2>3. tries' \in 0 .. MaxRetries
    <3>1. CASE AfterFailure(feedOf, tries + 1) = "skip"
      BY <1>1, <1>8, <3>1 DEF ConnectFails
    <3>2. CASE AfterFailure(feedOf, tries + 1) # "skip"
      <4>1. tries' = IF GivesUp THEN tries + 1 ELSE tries
        BY <1>8, <3>2 DEF ConnectFails
      <4> QED
        BY <1>1, <1>5, <3>2, <4>1, TriesWithin
    <3> QED
      BY <3>1, <3>2
  <2> QED
    BY <1>5, <1>6, <2>1, <2>2, <2>3
<1>9. CASE Subscribe
  <2>1. /\ next' = 1 /\ UNCHANGED <<tries, deaf, down>>
        /\ asked' = [s \in Streams |-> IF s \in wsSlot THEN SubscriptionOf(feedOf, s) ELSE asked[s]]
    BY <1>9 DEF Subscribe
  <2>2. asked' \in [Streams -> SUBSET SymbolRange]
    <3>1. \A s \in Streams : SubscriptionOf(feedOf, s) \in SUBSET SymbolRange
      BY <1>1, SubscriptionInRange
    <3> QED
      BY <1>5, <2>1, <3>1
  <2> QED
    BY <1>2, <1>5, <1>6, <2>1, <2>2
<1>10. CASE Spawn
  <2>1. next <= n /\ next' = next + 1 /\ UNCHANGED <<tries, down, asked>>
    BY <1>2, <1>10 DEF Spawn
  <2>2. Current \in Streams
    BY <1>2, <2>1, CurrentType
  <2>3. deaf' \subseteq Streams
    BY <1>5, <1>10, <2>2 DEF Spawn
  <2> QED
    BY <1>2, <1>5, <1>6, <2>1, <2>3
<1>11. CASE SubscribeFails \/ Return
  BY <1>2, <1>5, <1>6, <1>11 DEF SubscribeFails, Return
<1>12. ASSUME NEW s \in Streams, NEW why, Lose(s, why) PROVE FeedWithin'
  BY <1>5, <1>6, <1>12 DEF Lose
<1>13. ASSUME NEW s \in Streams, HearShutdown(s) PROVE FeedWithin'
  BY <1>5, <1>6, <1>13 DEF HearShutdown
<1>14. CASE Shutdown \/ Abort
  BY <1>5, <1>6, <1>14 DEF Shutdown, Abort
<1>15. CASE UNCHANGED fvars
  BY <1>5, <1>6, <1>15 DEF fvars
<1> QED
  BY <1>7, <1>8, <1>9, <1>10, <1>11, <1>12, <1>13, <1>14, <1>15, Zenon DEF FeedNext, FeedLoop

\* So the loop goes through the streams, tries as often as it may, and asks for symbols
\* that there are.
LEMMA FeedTypes == FeedSpec => []FeedTypeOK
<1>1. FeedInv /\ FeedWithin => FeedTypeOK
  <2> SUFFICES ASSUME FeedInv, FeedWithin PROVE FeedTypeOK
    OBVIOUS
  <2>1. active \in Nat
    BY FeedFacts, OverNaturals
  <2>2. \A k \in DOMAIN stats : stats[k] \in [connected : Nat, disconnected : Nat, total : Nat]
    <3>1. stats \in [AssetTypes \X Kinds -> Stat]
      BY FeedFacts
    <3> QED
      BY <3>1 DEF Stat
  <2>3. /\ feedOf \in FeedExchanges /\ phase \in {"connect", "start", "aborted"}
        /\ wsSlot \subseteq Streams /\ tasks \in [Streams -> Nat]
    BY FeedFacts
  <2> QED
    BY <2>1, <2>2, <2>3 DEF FeedTypeOK, FeedWithin, SymbolRange
<1> QED
  BY <1>1, WithinStarts, WithinSteps, FeedStarts, FeedSteps, PTL DEF FeedSpec

\* What a fold makes of nothing: no trade is pushed.
LEMMA PushNone == ASSUME NEW b PROVE FoldLeft(push, b, <<>>) = b
<1> DEFINE G(it) == [s \in SUBSET {} |-> IF s = {} THEN b ELSE push(it[s \ {Max(s)}], <<>>[Max(s)])]
           made == CHOOSE it : it = G(it)
           F == [s \in SUBSET {} |-> b]
<1>1. F = G(F)
  OBVIOUS
<1> HIDE DEF F
<1>2. \E it : it = G(it)
  BY <1>1
<1>3. made = G(made)
  BY <1>2
<1> HIDE DEF made
<1>4. made[{}] = b
  BY <1>3
<1> QED
  BY <1>4 DEF FoldLeft, MapThenFoldSet, made

\* And of one trade: it is pushed.
LEMMA PushOne == ASSUME NEW b, NEW x PROVE FoldLeft(push, b, <<x>>) = push(b, x)
<1> DEFINE G(it) == [s \in SUBSET {1} |-> IF s = {} THEN b ELSE push(it[s \ {Max(s)}], <<x>>[Max(s)])]
           made == CHOOSE it : it = G(it)
           F == [s \in SUBSET {1} |-> IF s = {} THEN b ELSE push(b, x)]
<1>1. Max({1}) = 1
  BY DEF Max
<1>2. DOMAIN <<x>> = {1} /\ <<x>>[1] = x
  OBVIOUS
<1>3. F = G(F)
  <2>1. ASSUME NEW s \in SUBSET {1}, s /= {} PROVE s = {1} /\ s \ {Max(s)} = {}
    BY <1>1, <2>1
  <2>2. ASSUME NEW s \in SUBSET {1}
        PROVE  F[s] = IF s = {} THEN b ELSE push(F[s \ {Max(s)}], <<x>>[Max(s)])
    BY <1>1, <1>2, <2>1
  <2> QED
    BY <2>2
<1> HIDE DEF F
<1>4. \E it : it = G(it)
  BY <1>3
<1>5. made = G(made)
  BY <1>4
<1> HIDE DEF made
<1>6. made[{}] = b
  BY <1>5
<1>7. made[{1}] = push(b, x)
  <2>1. {1} \ {Max({1})} = {}
    BY <1>1
  <2>2. made[{1}] = push(made[{1} \ {Max({1})}], <<x>>[Max({1})])
    BY <1>5
  <2> QED
    BY <1>1, <1>2, <1>6, <2>1, <2>2
<1>8. FoldLeft(push, b, <<x>>) = made[DOMAIN <<x>>]
  BY <1>2 DEF FoldLeft, MapThenFoldSet, made
<1> QED
  BY <1>2, <1>7, <1>8

\* The books, levels, messages and updates of the quantities there are.
Kept == [Levels -> Quantities]
KeptLevels == UNION {[D -> Quantities] : D \in SUBSET Levels}
OnWire ==
    [kind : {"book"}, type : {"snapshot", "update"}, levels : KeptLevels, after : Kept]
      \cup [kind : {"trade"}, id : Nat, mapped : BOOLEAN] \cup [kind : {"ticker"}, id : {0}]
InChannel ==
    [type : {"unknown", "snapshot", "update", "change"}, levels : KeptLevels, after : Kept \cup {NoBook}]

FitsIn(buf, S) == buf \in Seq(S) /\ Len(buf) <= BufferCapacity

\* For any exchange: books have the quantities there are, the buffers and the channel no
\* more than they may have, and only an exchange with builders uses the channel.
MsgWithin ==
    /\ msgOf \in MsgExchanges /\ venue \in Kept
    /\ wire \in Seq(OnWire) /\ trades \in Nat
    /\ chan \in Seq(InChannel) /\ Len(chan) <= ChannelCapacity /\ (msgOf \notin Deltas => chan = <<>>)
    /\ book \in Kept \cup {NoBook} /\ mirrored \in Kept \cup {NoBook}
    /\ buffers = [trades |-> buffers.trades, books |-> buffers.books]
    /\ FitsIn(buffers.trades, Nat) /\ FitsIn(buffers.books, Kept)
    /\ lost \in BOOLEAN

\* A book of every level is not NoBook, and the empty book is one.
LEMMA KeptBooks == Empty \in Kept /\ NoBook \notin Kept
<1>1. DOMAIN NoBook = {} /\ Levels # {} /\ 0 \in Quantities
  BY MessagesAssumption DEF NoBook
<1> QED
  BY <1>1 DEF Empty, Kept

\* Levels put into a book make a book.
LEMMA KeptUpsert == ASSUME NEW b \in Kept, NEW levels \in KeptLevels PROVE Upsert(b, levels) \in Kept
<1> SUFFICES ASSUME NEW l \in Levels PROVE (IF l \in DOMAIN levels THEN levels[l] ELSE b[l]) \in Quantities
  BY DEF Upsert, Kept
<1>1. PICK D \in SUBSET Levels : levels \in [D -> Quantities]
  BY DEF KeptLevels
<1> QED
  BY <1>1 DEF Kept

\* The message with a whole book.
LEMMA KeptSnapshot == ASSUME NEW b \in Kept PROVE SnapshotOf(b) \in OnWire
<1> DEFINE D == {k \in Levels : b[k] > 0}
           levels == [l \in D |-> b[l]]
<1>1. levels \in [D -> Quantities] /\ D \in SUBSET Levels
  BY DEF Kept
<1>2. levels \in KeptLevels
  BY <1>1 DEF KeptLevels
<1>3. SnapshotOf(b) = [kind |-> "book", type |-> "snapshot", levels |-> levels, after |-> b]
  BY DEF SnapshotOf
<1> HIDE DEF levels
<1> QED
  BY <1>2, <1>3 DEF OnWire

\* The message of one level, or of the whole book.
LEMMA KeptChange == ASSUME NEW l \in Levels, NEW b \in Kept PROVE ChangeOf(l, b) \in OnWire
<1> DEFINE levels == [k \in {l} |-> b[k]]
<1>1. levels \in [{l} -> Quantities] /\ {l} \in SUBSET Levels
  BY DEF Kept
<1>2. levels \in KeptLevels
  BY <1>1 DEF KeptLevels
<1>3. ChangeOf(l, b) = IF msgOf \in Deltas
                         THEN [kind |-> "book", type |-> "update", levels |-> levels, after |-> b]
                         ELSE SnapshotOf(b)
  BY DEF ChangeOf
<1> HIDE DEF levels
<1> QED
  BY <1>2, <1>3, KeptSnapshot DEF OnWire

\* A buffer that is full gives up its oldest element for the new one.
LEMMA PushFits == ASSUME NEW S, NEW buf, FitsIn(buf, S), NEW x \in S PROVE FitsIn(push(buf, x), S)
<1>1. buf \in Seq(S) /\ Len(buf) \in Nat /\ BufferCapacity \in Nat \ {0} /\ Len(buf) <= BufferCapacity
  BY MessagesAssumption DEF FitsIn
<1>2. CASE Len(buf) >= BufferCapacity
  <2>1. Tail(buf) \in Seq(S) /\ Len(Tail(buf)) = Len(buf) - 1
    BY <1>1, <1>2
  <2>2. push(buf, x) = Append(Tail(buf), x)
    BY <1>2 DEF push
  <2> QED
    BY <1>1, <2>1, <2>2 DEF FitsIn
<1>3. CASE ~(Len(buf) >= BufferCapacity)
  <2>1. push(buf, x) = Append(buf, x)
    BY <1>3 DEF push
  <2> QED
    BY <1>1, <1>3, <2>1 DEF FitsIn
<1> QED
  BY <1>2, <1>3

\* What the task of a stream makes of a message: at most a trade or a book to publish, and
\* an update only for an exchange with builders.
LEMMA MessageComesTo ==
    ASSUME msgOf \in MsgExchanges, NEW m \in OnWire
    PROVE  \/ ProcessMessage(m) = Nothing
           \/ ProcessMessage(m) = TradeOf(m) /\ m.id \in Nat
           \/ ProcessMessage(m) = BookOf(m) /\ m.after \in Kept
           \/ /\ msgOf \in Deltas /\ m.after \in Kept /\ m.levels \in KeptLevels
              /\ \E type \in {"unknown", "snapshot", "update", "change"} : ProcessMessage(m) = UpdateOf(m, type)
<1>1. msgOf \in {"binance", "bybit", "okx", "upbit", "coinbase", "bithumb", "deribit"}
  BY MessagesAssumption
<1>2. /\ m.kind \in {"book", "trade", "ticker"}
      /\ m.kind # "book" => m.id \in Nat
      /\ m.kind = "book" => m.after \in Kept /\ m.levels \in KeptLevels /\ m.type \in {"snapshot", "update"}
      /\ m.kind = "trade" => m.mapped \in BOOLEAN
  BY DEF OnWire
<1>3. CASE msgOf \in {"okx", "upbit", "bithumb"}
  BY <1>2, <1>3 DEF ProcessMessage, process_okx_message, process_upbit_message, process_bithumb_message
<1>4. CASE msgOf = "binance"
  BY <1>2, <1>4 DEF ProcessMessage, process_binance_message, process_binance_trade, process_binance_orderbook_data
<1>5. CASE msgOf = "bybit"
  BY <1>2, <1>5 DEF ProcessMessage, process_bybit_message, process_bybit_trade, Deltas
<1>6. CASE msgOf = "coinbase"
  BY <1>2, <1>6 DEF ProcessMessage, process_coinbase_message, process_coinbase_trades, process_coinbase_l2, Deltas
<1>7. CASE msgOf = "deribit"
  BY <1>2, <1>7 DEF ProcessMessage, process_deribit_message, Deltas
<1> QED
  BY <1>1, <1>3, <1>4, <1>5, <1>6, <1>7

\* So what is handed on has its types.
LEMMA HandedOn ==
    ASSUME msgOf \in MsgExchanges, NEW m \in OnWire, NEW e, e = ProcessMessage(m)
    PROVE  /\ e.book \in Kept \cup {NoBook}
           /\ e.trades = <<>> \/ \E id \in Nat : e.trades = <<id>>
           /\ e.update # NoEntry => msgOf \in Deltas /\ e.update \in InChannel
<1>1. Nothing.book = NoBook /\ Nothing.trades = <<>> /\ Nothing.update = NoEntry
  BY DEF Nothing
<1>2. CASE e = Nothing
  BY <1>1, <1>2
<1>3. CASE e = TradeOf(m) /\ m.id \in Nat
  <2>1. e.book = NoBook /\ e.trades = <<m.id>> /\ e.update = NoEntry
    BY <1>3 DEF TradeOf, Nothing
  <2> QED
    BY <1>3, <2>1
<1>4. CASE e = BookOf(m) /\ m.after \in Kept
  <2>1. e.book = m.after /\ e.trades = <<>> /\ e.update = NoEntry
    BY <1>4 DEF BookOf, Nothing
  <2> QED
    BY <1>4, <2>1
<1>5. ASSUME NEW type \in {"unknown", "snapshot", "update", "change"}, e = UpdateOf(m, type),
             msgOf \in Deltas, m.after \in Kept, m.levels \in KeptLevels
      PROVE  /\ e.book = NoBook /\ e.trades = <<>> /\ msgOf \in Deltas /\ e.update \in InChannel
  <2>1. PICK after \in Kept \cup {NoBook} : after = IF lost /\ m.type /= "snapshot" THEN NoBook ELSE m.after
    BY <1>5
  <2>2. e = [Nothing EXCEPT !.update = [type |-> type, levels |-> m.levels, after |-> after]]
    BY <1>5, <2>1 DEF UpdateOf
  <2>3. e.book = NoBook /\ e.trades = <<>> /\ e.update = [type |-> type, levels |-> m.levels, after |-> after]
    BY <2>2 DEF Nothing
  <2> QED
    BY <1>5, <2>3 DEF InChannel
<1> QED
  BY <1>2, <1>3, <1>4, <1>5, MessageComesTo

\* A feed's messages begin with a snapshot.
LEMMA MsgWithinStarts == MsgInit => MsgWithin
<1> SUFFICES ASSUME MsgInit PROVE MsgWithin
  OBVIOUS
<1>1. msgOf \in MsgExchanges /\ venue \in Kept /\ chan = <<>> /\ book = NoBook /\ trades = 0 /\ lost = FALSE
  BY DEF MsgInit, Kept
<1>2. wire \in Seq(OnWire)
  <2>1. PICK first \in OnWire : first = SnapshotOf(venue)
    BY <1>1, KeptSnapshot
  <2>2. wire = <<first>>
    BY <2>1 DEF MsgInit
  <2> QED
    BY <2>2
<1>3. mirrored \in Kept
  BY KeptBooks DEF MsgInit
<1>4. buffers = [trades |-> <<>>, books |-> <<>>]
  BY DEF MsgInit
<1>5. FitsIn(<<>>, Nat) /\ FitsIn(<<>>, Kept)
  BY MessagesAssumption DEF FitsIn
<1>6. chan \in Seq(InChannel) /\ Len(chan) <= ChannelCapacity
  BY <1>1, MessagesAssumption
<1> QED
  BY <1>1, <1>2, <1>3, <1>4, <1>5, <1>6 DEF MsgWithin

\* What the exchange and the connection do touches neither the channel nor a buffer.
LEMMA SentWithin ==
    ASSUME MsgWithin, venue' \in Kept, wire' \in Seq(OnWire), trades' \in Nat,
           UNCHANGED <<msgOf, chan, book, buffers, lost, mirrored>>
    PROVE  MsgWithin'
<1>1. Deltas' = Deltas
  BY DEF Deltas
<1> QED
  BY <1>1 DEF MsgWithin, FitsIn, Kept, OnWire, KeptLevels, InChannel, NoBook

\* The exchange's steps.
LEMMA ExchangeWithin ==
    ASSUME MsgWithin,
           \/ \E l \in Levels, q \in Quantities : Change(l, q) \/ Reconnect(l, q)
           \/ \E mapped \in BOOLEAN : Trade(mapped)
           \/ Ticker
    PROVE  MsgWithin'
<1>1. venue \in Kept /\ wire \in Seq(OnWire) /\ trades \in Nat
  BY DEF MsgWithin
<1>2. ASSUME NEW l \in Levels, NEW q \in Quantities PROVE [venue EXCEPT ![l] = q] \in Kept
  BY <1>1 DEF Kept
<1>3. ASSUME NEW l \in Levels, NEW q \in Quantities, Change(l, q) PROVE MsgWithin'
  <2>1. venue' \in Kept /\ UNCHANGED <<msgOf, chan, book, buffers, trades, lost, mirrored>>
    BY <1>2, <1>3 DEF Change
  <2>2. PICK made \in OnWire : made = ChangeOf(l, venue')
    BY <2>1, KeptChange
  <2>3. wire' = Append(wire, made)
    BY <1>3, <2>2 DEF Change
  <2> QED
    BY <1>1, <2>1, <2>3, SentWithin
<1>4. ASSUME NEW l \in Levels, NEW q \in Quantities, Reconnect(l, q) PROVE MsgWithin'
  <2>1. venue' \in Kept /\ UNCHANGED <<msgOf, chan, book, buffers, trades, lost, mirrored>>
    BY <1>2, <1>4 DEF Reconnect
  <2>2. PICK made \in OnWire : made = SnapshotOf(venue')
    BY <2>1, KeptSnapshot
  <2>3. wire' = <<made>>
    BY <1>4, <2>2 DEF Reconnect
  <2> QED
    BY <1>1, <2>1, <2>3, SentWithin
<1>5. ASSUME NEW mapped \in BOOLEAN, Trade(mapped) PROVE MsgWithin'
  <2>1. trades' \in Nat /\ UNCHANGED <<msgOf, venue, chan, book, buffers, lost, mirrored>>
    BY <1>1, <1>5 DEF Trade
  <2>2. PICK made \in OnWire : made = [kind |-> "trade", id |-> trades', mapped |-> mapped]
    BY <2>1 DEF OnWire
  <2>3. wire' = Append(wire, made)
    BY <1>5, <2>2 DEF Trade
  <2> QED
    BY <1>1, <2>1, <2>3, SentWithin
<1>6. CASE Ticker
  <2>1. trades' \in Nat /\ UNCHANGED <<msgOf, venue, chan, book, buffers, lost, mirrored>>
    BY <1>1, <1>6 DEF Ticker
  <2>2. PICK made \in OnWire : made = [kind |-> "ticker", id |-> 0]
    BY DEF OnWire
  <2>3. wire' = Append(wire, made)
    BY <1>6, <2>2 DEF Ticker
  <2> QED
    BY <1>1, <2>1, <2>3, SentWithin
<1> QED
  BY <1>3, <1>4, <1>5, <1>6

\* One more book, or one more trade or none, in the buffers.
LEMMA BuffersFit ==
    ASSUME MsgWithin, NEW b \in Kept, publish_orderbook(b)
    PROVE  buffers' = [trades |-> buffers'.trades, books |-> buffers'.books]
           /\ FitsIn(buffers'.trades, Nat) /\ FitsIn(buffers'.books, Kept)
<1>1. buffers = [trades |-> buffers.trades, books |-> buffers.books] /\ FitsIn(buffers.trades, Nat) /\ FitsIn(buffers.books, Kept)
  BY DEF MsgWithin
<1>2. PICK kept : kept = push(buffers.books, b)
  OBVIOUS
<1>3. FitsIn(kept, Kept)
  BY <1>1, <1>2, PushFits
<1>4. buffers' = [buffers EXCEPT !.books = kept]
  BY <1>2 DEF publish_orderbook
<1> QED
  BY <1>1, <1>3, <1>4

\* The trades likewise.
LEMMA TradesFit ==
    ASSUME MsgWithin, NEW items, PublishTrades(items), items = <<>> \/ \E id \in Nat : items = <<id>>
    PROVE  buffers' = [trades |-> buffers'.trades, books |-> buffers'.books]
           /\ FitsIn(buffers'.trades, Nat) /\ FitsIn(buffers'.books, Kept)
<1>1. buffers = [trades |-> buffers.trades, books |-> buffers.books] /\ FitsIn(buffers.trades, Nat) /\ FitsIn(buffers.books, Kept)
  BY DEF MsgWithin
<1>2. PICK kept : kept = FoldLeft(push, buffers.trades, items)
  OBVIOUS
<1>3. FitsIn(kept, Nat)
  <2>1. CASE items = <<>>
    BY <1>1, <1>2, <2>1, PushNone
  <2>2. ASSUME NEW id \in Nat, items = <<id>> PROVE FitsIn(kept, Nat)
    <3>1. kept = push(buffers.trades, id)
      BY <1>2, <2>2, PushOne
    <3> QED
      BY <1>1, <3>1, PushFits
  <2> QED
    BY <2>1, <2>2
<1>4. buffers' = [buffers EXCEPT !.trades = kept]
  BY <1>2 DEF PublishTrades
<1> QED
  BY <1>1, <1>3, <1>4

\* The task of a stream publishes, or passes on while there is room.
LEMMA MessageWithin == ASSUME MsgWithin, Process PROVE MsgWithin'
<1>1. /\ msgOf \in MsgExchanges /\ venue \in Kept /\ wire \in Seq(OnWire) /\ trades \in Nat
      /\ chan \in Seq(InChannel) /\ Len(chan) <= ChannelCapacity /\ (msgOf \notin Deltas => chan = <<>>)
      /\ book \in Kept \cup {NoBook} /\ mirrored \in Kept \cup {NoBook} /\ lost \in BOOLEAN
  BY DEF MsgWithin
<1>2. wire # <<>> /\ wire' = Tail(wire) /\ UNCHANGED <<msgOf, venue, book, trades, mirrored>>
  BY DEF Process
<1>3. PICK m \in OnWire : m = Head(wire)
  BY <1>1, <1>2
<1>4. wire' \in Seq(OnWire)
  BY <1>1, <1>2
<1>5. PICK e : e = ProcessMessage(m)
  OBVIOUS
<1>6. /\ e.book \in Kept \cup {NoBook}
      /\ e.trades = <<>> \/ \E id \in Nat : e.trades = <<id>>
      /\ e.update # NoEntry => msgOf \in Deltas /\ e.update \in InChannel
  BY <1>1, <1>5, HandedOn
<1>7. /\ IF e.book /= NoBook THEN publish_orderbook(e.book) ELSE PublishTrades(e.trades)
      /\ IF e.update = NoEntry THEN UNCHANGED <<chan, lost>>
         ELSE IF Len(chan) < ChannelCapacity
         THEN chan' = Append(chan, e.update) /\ lost' = (lost /\ m.type /= "snapshot")
         ELSE chan' = chan /\ lost' = TRUE
  BY <1>3, <1>5 DEF Process
<1>8. buffers' = [trades |-> buffers'.trades, books |-> buffers'.books]
      /\ FitsIn(buffers'.trades, Nat) /\ FitsIn(buffers'.books, Kept)
  BY <1>6, <1>7, BuffersFit, TradesFit
<1>9. lost' \in BOOLEAN
  BY <1>1, <1>7
<1>10. chan' \in Seq(InChannel) /\ Len(chan') <= ChannelCapacity /\ (msgOf \notin Deltas => chan' = <<>>)
  <2>1. CASE chan' = chan
    BY <1>1, <2>1
  <2>2. CASE e.update # NoEntry /\ Len(chan) < ChannelCapacity /\ chan' = Append(chan, e.update)
    <3>1. PICK u \in InChannel : u = e.update
      BY <1>6, <2>2
    <3> QED
      BY <1>1, <1>6, <2>2, <3>1, MessagesAssumption
  <2> QED
    BY <1>7, <2>1, <2>2
<1> QED
  BY <1>1, <1>2, <1>4, <1>8, <1>9, <1>10
     DEF MsgWithin, FitsIn, Kept, OnWire, KeptLevels, InChannel, NoBook, Deltas

\* The builder's task makes books of books.
LEMMA BuildWithin == ASSUME MsgWithin, Build PROVE MsgWithin'
<1>1. /\ msgOf \in MsgExchanges /\ venue \in Kept /\ wire \in Seq(OnWire) /\ trades \in Nat
      /\ chan \in Seq(InChannel) /\ Len(chan) <= ChannelCapacity /\ (msgOf \notin Deltas => chan = <<>>)
      /\ book \in Kept \cup {NoBook} /\ mirrored \in Kept \cup {NoBook} /\ lost \in BOOLEAN
  BY DEF MsgWithin
<1>2. chan # <<>> /\ chan' = Tail(chan) /\ UNCHANGED <<msgOf, venue, wire, trades, lost>>
  BY DEF Build
<1>3. PICK u \in InChannel : u = Head(chan)
  BY <1>1, <1>2
<1>4. chan' \in Seq(InChannel) /\ Len(chan') <= ChannelCapacity /\ msgOf \in Deltas
  BY <1>1, <1>2, MessagesAssumption
<1>5. /\ book' = process_update(book, u) /\ mirrored' = u.after
      /\ IF Publishes(book, u) THEN publish_orderbook(book') ELSE buffers' = buffers
  BY <1>3 DEF Build
<1>6. u.levels \in KeptLevels /\ u.after \in Kept \cup {NoBook}
  BY DEF InChannel
<1>7. Empty \in Kept /\ NoBook \notin Kept /\ Upsert(Empty, u.levels) \in Kept /\ (book # NoBook => Upsert(book, u.levels) \in Kept)
  BY <1>1, <1>6, KeptBooks, KeptUpsert
<1>8. /\ book' \in Kept \cup {NoBook}
      /\ Publishes(book, u) => book' \in Kept
  <2>1. CASE msgOf = "bybit"
    BY <1>1, <1>5, <1>7, <2>1 DEF Publishes, process_update, bybit_process_update
  <2>2. CASE msgOf = "coinbase"
    BY <1>1, <1>5, <1>7, <2>2 DEF Publishes, process_update, coinbase_process_update
  <2>3. CASE msgOf = "deribit"
    BY <1>1, <1>5, <1>7, <2>3 DEF Publishes, process_update, deribit_process_update
  <2> QED
    BY <1>4, <2>1, <2>2, <2>3 DEF Deltas
<1>9. buffers' = [trades |-> buffers'.trades, books |-> buffers'.books]
      /\ FitsIn(buffers'.trades, Nat) /\ FitsIn(buffers'.books, Kept)
  <2>1. CASE Publishes(book, u)
    BY <1>5, <1>8, <2>1, BuffersFit
  <2>2. CASE ~Publishes(book, u)
    BY <1>5, <2>2 DEF MsgWithin
  <2> QED
    BY <2>1, <2>2
<1> QED
  BY <1>1, <1>2, <1>4, <1>5, <1>6, <1>8, <1>9
     DEF MsgWithin, FitsIn, Kept, OnWire, KeptLevels, InChannel, NoBook, Deltas

\* Every step.
LEMMA MsgWithinSteps == MsgWithin /\ [MsgNext]_mvars => MsgWithin'
<1> SUFFICES ASSUME MsgWithin, [MsgNext]_mvars PROVE MsgWithin'
  OBVIOUS
<1>1. CASE UNCHANGED mvars
  <2>1. UNCHANGED <<msgOf, venue, wire, chan, book, buffers, trades, lost, mirrored>>
    BY <1>1 DEF mvars
  <2>2. venue' \in Kept /\ wire' \in Seq(OnWire) /\ trades' \in Nat
    BY <2>1 DEF MsgWithin
  <2> QED
    BY <2>1, <2>2, SentWithin
<1> QED
  BY <1>1, ExchangeWithin, MessageWithin, BuildWithin DEF MsgNext

\* So books are of the levels and quantities there are, and the channel and the buffers hold
\* no more than they may.
LEMMA MsgTypes == MsgSpec => []MsgTypeOK
<1>1. MsgWithin => MsgTypeOK
  BY DEF MsgWithin, MsgTypeOK, FitsIn, IsBook, Kept
<1> QED
  BY <1>1, MsgWithinStarts, MsgWithinSteps, PTL DEF MsgSpec

================================================================================
