------------------------------ MODULE PacketProofs -----------------------------
(***************************************************************************)
(* Theorems about packets: whom the validator on both sides of the network *)
(* blames, what the UDP senders make of the order of the packets, what the *)
(* tools that trace them count, and what is read of a binary packet.       *)
(* Each has its specification, an inductive invariant, a lemma for every   *)
(* action, and the properties the invariant implies.                       *)
(***************************************************************************)
EXTENDS PacketReceivers, PacketSenders, TraceAnalyzers, BinaryPackets, FeedProofs

--------------------------------------------------------------------------------
(* The validator on both sides of the network.                             *)

\* Sender, network and receivers on their own.
RxSpec == RxInit /\ [][RxNext]_rvars

\* Where the timestamps of the first i datagrams of p go back.
Drops(p, i) == {k \in 2 .. i : p[k] < p[k - 1] /\ p[k - 1] > 0}

\* The types of what the validator compares.
RxShape ==
    /\ packets \in Seq(Nat)
    /\ flight \in Seq(1 .. Len(packets)) /\ got \in Seq(1 .. Len(packets))
    /\ shuffled \in BOOLEAN
    /\ pre.inversions \in Nat /\ pre.last_timestamp \in Nat
    /\ post.inversions \in Nat /\ post.last_timestamp \in Nat

\* The sender has counted every step back.
SenderCounts ==
    /\ pre.inversions = Cardinality(Drops(packets, Len(packets)))
    /\ pre.last_timestamp = IF packets = <<>> THEN 0 ELSE packets[Len(packets)]

\* A receiver that got the datagrams in order has counted no more than those up to the last.
ReceiverCounts ==
    IF got = <<>> THEN post.inversions = 0 /\ post.last_timestamp = 0
    ELSE /\ \A j \in 1 .. Len(got) : got[j] <= got[Len(got)]
         /\ post.last_timestamp = packets[got[Len(got)]]
         /\ post.inversions <= Cardinality(Drops(packets, got[Len(got)]))

RxInv == RxShape /\ SenderCounts /\ (~shuffled => ReceiverCounts)

\* An element taken out of, or put into, a sequence leaves one of the same kind.
LEMMA WithoutOne ==
    ASSUME NEW S, NEW s \in Seq(S), NEW i \in 1 .. Len(s)
    PROVE  RemoveAt(s, i) \in Seq(S) /\ InsertAt(s, i, s[i]) \in Seq(S)
<1> DEFINE n == Len(s)
<1>1. n \in Nat /\ \A j \in 1 .. n : s[j] \in S
  BY LenProperties, ElementOfSeq
<1>2. SubSeq(s, 1, i - 1) \in Seq(S)
  <2>1. \A j \in 1 .. i - 1 : s[j] \in S
    BY <1>1
  <2> QED
    BY <1>1, <2>1, SubSeqProperties
<1>3. SubSeq(s, i + 1, n) \in Seq(S)
  <2>1. \A j \in i + 1 .. n : s[j] \in S
    BY <1>1
  <2> QED
    BY <1>1, <2>1, SubSeqProperties
<1>4. SubSeq(s, i, n) \in Seq(S)
  <2>1. \A j \in i .. n : s[j] \in S
    BY <1>1
  <2> QED
    BY <1>1, <2>1, SubSeqProperties
<1>5. <<s[i]>> \in Seq(S)
  BY <1>1
<1>6. SubSeq(s, 1, i - 1) \o SubSeq(s, i + 1, n) \in Seq(S)
  BY <1>2, <1>3, ConcatProperties
<1>7. SubSeq(s, 1, i - 1) \o <<s[i]>> \o SubSeq(s, i, n) \in Seq(S)
  BY <1>2, <1>4, <1>5, ConcatProperties
<1> QED
  BY <1>6, <1>7 DEF RemoveAt, InsertAt

\* The more datagrams, the more steps back.
LEMMA DropsGrow ==
    ASSUME NEW p, NEW i \in Nat, NEW j \in Nat, i <= j
    PROVE  /\ Cardinality(Drops(p, i)) \in Nat /\ Cardinality(Drops(p, j)) \in Nat
           /\ Cardinality(Drops(p, i)) <= Cardinality(Drops(p, j))
           /\ IsFiniteSet(Drops(p, i)) /\ IsFiniteSet(Drops(p, j)) /\ Drops(p, i) \subseteq Drops(p, j)
<1>1. Drops(p, i) \in SUBSET Drops(p, j) /\ Drops(p, j) \in SUBSET (2 .. j)
  BY DEF Drops
<1>2. IsFiniteSet(Drops(p, j))
  BY <1>1, FS_Interval, FS_Subset
<1> QED
  BY <1>1, <1>2, FS_Subset, FS_CardinalityType

\* Between a datagram and a later one with an earlier timestamp there is a step back.
LEMMA StepBackSeen ==
    ASSUME NEW p \in Seq(Nat), NEW a \in 1 .. Len(p), NEW b \in 1 .. Len(p), a < b,
           p[b] < p[a]
    PROVE  Cardinality(Drops(p, a)) + 1 <= Cardinality(Drops(p, b))
<1> DEFINE S == {k \in a + 1 .. b : p[k] < p[a]}
<1>1. \A k \in 1 .. Len(p) : p[k] \in Nat
  BY ElementOfSeq
<1>2. Len(p) \in Nat
  BY LenProperties
<1>3. b \in S /\ S \subseteq Nat
  BY <1>2
<1> HIDE DEF S
<1>4. PICK k \in S : \A m \in S : k <= m
  BY <1>3, LeastCounterexample
<1> USE DEF S
<1>5. k \in a + 1 .. b /\ p[k] < p[a]
  BY <1>4
<1>6. ~(p[k - 1] < p[a])
  <2>1. CASE k = a + 1
    BY <1>1, <2>1
  <2>2. CASE k # a + 1
    <3>1. k - 1 \in a + 1 .. b /\ ~(k <= k - 1)
      BY <1>5, <2>2
    <3> QED
      BY <1>4, <3>1
  <2> QED
    BY <2>1, <2>2
<1> HIDE DEF S
<1>7. k \in 1 .. Len(p) /\ k - 1 \in 1 .. Len(p) /\ k \in 2 .. b
  BY <1>2, <1>5
<1>8. p[k] < p[k - 1] /\ p[k - 1] > 0
  <2>1. p[k] \in Nat /\ p[k - 1] \in Nat /\ p[a] \in Nat
    BY <1>1, <1>7
  <2> QED
    BY <1>5, <1>6, <2>1
<1>9. k \in Drops(p, b)
  BY <1>7, <1>8 DEF Drops
<1>10. k \notin Drops(p, a)
  BY <1>5 DEF Drops
<1>11. /\ IsFiniteSet(Drops(p, a)) /\ IsFiniteSet(Drops(p, b)) /\ Drops(p, a) \subseteq Drops(p, b)
       /\ Cardinality(Drops(p, a)) \in Nat /\ Cardinality(Drops(p, b)) \in Nat
  <2>1. a \in Nat /\ b \in Nat /\ a <= b
    BY <1>2
  <2> QED
    BY <2>1, DropsGrow
<1>12. Drops(p, a) \cup {k} \in SUBSET Drops(p, b)
  BY <1>9, <1>11
<1>13. Cardinality(Drops(p, a) \cup {k}) = Cardinality(Drops(p, a)) + 1
  BY <1>10, <1>11, FS_AddElement
<1>14. Cardinality(Drops(p, a) \cup {k}) <= Cardinality(Drops(p, b))
  BY <1>11, <1>12, FS_Subset
<1> QED
  BY <1>11, <1>13, <1>14

\* Nothing is sent, so nothing is counted.
LEMMA RxStarts == RxInit => RxInv
<1> SUFFICES ASSUME RxInit PROVE RxInv
  OBVIOUS
<1>1. /\ packets = <<>> /\ flight = <<>> /\ got = <<>> /\ shuffled = FALSE
      /\ pre = ValidationMetrics /\ post = ValidationMetrics
  BY DEF RxInit
<1>2. /\ pre.inversions = 0 /\ pre.last_timestamp = 0 /\ post.inversions = 0 /\ post.last_timestamp = 0
  BY <1>1 DEF ValidationMetrics
<1>3. Cardinality(Drops(packets, Len(packets))) = 0
  <2>1. Drops(packets, Len(packets)) = {}
    BY <1>1 DEF Drops
  <2> QED
    BY <2>1, FS_EmptySet
<1>4. packets \in Seq(Nat) /\ flight \in Seq(1 .. Len(packets)) /\ got \in Seq(1 .. Len(packets))
  BY <1>1
<1>5. RxShape
  <2>1. shuffled \in BOOLEAN
    BY <1>1
  <2> QED
    BY <1>2, <1>4, <2>1 DEF RxShape
<1>6. SenderCounts
  BY <1>1, <1>2, <1>3 DEF SenderCounts
<1>7. ReceiverCounts
  BY <1>1, <1>2 DEF ReceiverCounts
<1> QED
  BY <1>5, <1>6, <1>7 DEF RxInv

\* A datagram that is lost or repeated is none that arrived.
LEMMA NetworkKeeps ==
    ASSUME RxInv, NEW i \in 1 .. Len(flight), LoseDatagram(i) \/ RepeatDatagram(i) PROVE RxInv'
<1>1. /\ flight' = RemoveAt(flight, i) \/ flight' = InsertAt(flight, i, flight[i])
      /\ UNCHANGED <<packets, got, shuffled, pre, post>>
  BY DEF LoseDatagram, RepeatDatagram
<1>2. flight' \in Seq(1 .. Len(packets))
  BY <1>1, WithoutOne DEF RxInv, RxShape
<1>3. RxShape'
  BY <1>1, <1>2 DEF RxInv, RxShape
<1>4. \A j : Drops(packets', j) = Drops(packets, j)
  BY <1>1 DEF Drops
<1>5. SenderCounts' /\ (~shuffled => ReceiverCounts)'
  BY <1>1, <1>4 DEF RxInv, SenderCounts, ReceiverCounts
<1> QED
  BY <1>3, <1>5 DEF RxInv

\* A datagram sent adds a step back exactly when the validator counts one.
LEMMA DropsOfAppend ==
    ASSUME NEW p \in Seq(Nat), NEW ts \in Nat, NEW n \in Nat, n = Len(p)
    PROVE  /\ \A i \in 0 .. n : Drops(Append(p, ts), i) = Drops(p, i)
           /\ Cardinality(Drops(Append(p, ts), n + 1)) =
                 Cardinality(Drops(p, n)) + (IF n > 0 /\ ts < p[n] /\ p[n] > 0 THEN 1 ELSE 0)
<1> DEFINE back == n > 0 /\ ts < p[n] /\ p[n] > 0
<1>0. PICK q : q = Append(p, ts)
  OBVIOUS
<1>1. q[n + 1] = ts /\ \A k \in 1 .. n : q[k] = p[k]
  BY <1>0, AppendProperties
<1>2. \A i \in 0 .. n : Drops(q, i) = Drops(p, i)
  <2> TAKE i \in 0 .. n
  <2>1. \A k \in 2 .. i : q[k] = p[k] /\ q[k - 1] = p[k - 1]
    <3> TAKE k \in 2 .. i
    <3>1. k \in 1 .. n /\ k - 1 \in 1 .. n
      OBVIOUS
    <3> QED
      BY <1>1, <3>1
  <2> QED
    BY <2>1 DEF Drops
<1>3. Drops(q, n + 1) = IF back THEN Drops(p, n) \cup {n + 1} ELSE Drops(p, n)
  <2>1. Drops(q, n) = Drops(p, n)
    BY <1>2
  <2>2. CASE n = 0
    <3>1. Drops(q, n + 1) = {} /\ Drops(p, n) = {}
      BY <2>2 DEF Drops
    <3>2. ~back
      BY <2>2
    <3> HIDE DEF back
    <3> QED
      BY <3>1, <3>2
  <2>3. CASE n # 0
    <3>1. n \in 1 .. n /\ n > 0
      BY <2>3
    <3>2. q[n + 1] = ts /\ q[n] = p[n] /\ n + 1 - 1 = n
      BY <1>1, <3>1
    <3>3. n + 1 \in Drops(q, n + 1) <=> back
      <4>1. n + 1 \in 2 .. n + 1
        BY <3>1
      <4>2. n + 1 \in Drops(q, n + 1) <=> q[n + 1] < q[n + 1 - 1] /\ q[n + 1 - 1] > 0
        BY <4>1 DEF Drops
      <4>3. n + 1 \in Drops(q, n + 1) <=> ts < p[n] /\ p[n] > 0
        BY <3>2, <4>2
      <4> QED
        BY <3>1, <4>3
    <3>4. Drops(q, n + 1) \ {n + 1} = Drops(q, n)
      <4>1. 2 .. n + 1 = (2 .. n) \cup {n + 1} /\ n + 1 \notin 2 .. n
        BY <3>1
      <4> QED
        BY <4>1 DEF Drops
    <3> HIDE DEF back
    <3>5. CASE back
      BY <2>1, <3>3, <3>4, <3>5
    <3>6. CASE ~back
      BY <2>1, <3>3, <3>4, <3>6
    <3> QED
      BY <3>5, <3>6
  <2> QED
    BY <2>2, <2>3
<1>4. IsFiniteSet(Drops(p, n)) /\ n + 1 \notin Drops(p, n) /\ Cardinality(Drops(p, n)) \in Nat
  <2>1. n + 1 \notin Drops(p, n)
    BY DEF Drops
  <2> QED
    BY <2>1, DropsGrow
<1>5. Cardinality(Drops(q, n + 1)) = Cardinality(Drops(p, n)) + (IF back THEN 1 ELSE 0)
  <2> HIDE DEF back
  <2>1. CASE back
    BY <1>3, <1>4, <2>1, FS_AddElement
  <2>2. CASE ~back
    BY <1>3, <1>4, <2>2
  <2> QED
    BY <2>1, <2>2
<1> QED
  BY <1>0, <1>2, <1>5

\* The sender's count follows the sequence it sent.
LEMMA SendDatagramKeeps == ASSUME RxInv, NEW ts \in Stamps, SendDatagram(ts) PROVE RxInv'
<1>1. PICK n \in Nat : n = Len(packets)
  BY LenProperties DEF RxInv, RxShape
<1>2. /\ packets' = Append(packets, ts) /\ flight' = Append(flight, Len(packets'))
      /\ pre' = validate_pre_send(pre, ts, Len(packets'))
      /\ UNCHANGED <<got, shuffled, post>>
  BY DEF SendDatagram
<1>3. ts \in Nat /\ packets \in Seq(Nat) /\ pre.inversions \in Nat /\ pre.last_timestamp \in Nat
  BY StampsAssumption DEF RxInv, RxShape
<1>4. /\ packets' \in Seq(Nat) /\ Len(packets') = n + 1 /\ packets'[n + 1] = ts
      /\ \A k \in 1 .. n : packets'[k] = packets[k]
  <2>1. packets' \in Seq(Nat) /\ Len(packets') = n + 1
    BY <1>1, <1>2, <1>3, AppendProperties
  <2>2. packets'[n + 1] = ts /\ \A k \in 1 .. n : packets'[k] = packets[k]
    BY <1>1, <1>2, <1>3, AppendProperties
  <2> QED
    BY <2>1, <2>2
<1>5. /\ \A i \in 0 .. n : Drops(packets', i) = Drops(packets, i)
      /\ Cardinality(Drops(packets', n + 1)) = Cardinality(Drops(packets, n))
            + (IF n > 0 /\ ts < packets[n] /\ packets[n] > 0 THEN 1 ELSE 0)
  <2>1. /\ packets \in Seq(Nat) /\ ts \in Nat /\ n \in Nat
        /\ n = Len(packets)
    BY <1>1, <1>3
  <2>2. /\ \A i \in 0 .. n : Drops(Append(packets, ts), i) = Drops(packets, i)
        /\ Cardinality(Drops(Append(packets, ts), n + 1)) = Cardinality(Drops(packets, n))
              + (IF n > 0 /\ ts < packets[n] /\ packets[n] > 0 THEN 1 ELSE 0)
    BY <2>1, DropsOfAppend
  <2> QED
    BY <1>2, <2>2
<1>6. /\ pre.inversions = Cardinality(Drops(packets, n))
      /\ pre.last_timestamp = IF n = 0 THEN 0 ELSE packets[n]
  <2>1. packets = <<>> <=> n = 0
    BY <1>1, <1>3, EmptySeq
  <2> QED
    BY <1>1, <2>1 DEF RxInv, SenderCounts
<1>7. /\ pre'.inversions = pre.inversions + (IF Inverted(pre, ts) THEN 1 ELSE 0)
      /\ pre'.last_timestamp = ts
  BY <1>2 DEF validate_pre_send
<1>8. Inverted(pre, ts) <=> n > 0 /\ ts < packets[n] /\ packets[n] > 0
  <2>1. CASE n = 0
    BY <1>6, <2>1 DEF Inverted
  <2>2. CASE n # 0
    <3>1. n > 0 /\ pre.last_timestamp = packets[n]
      BY <1>6, <2>2
    <3> QED
      BY <3>1 DEF Inverted
  <2> QED
    BY <2>1, <2>2
<1>9. SenderCounts'
  <2>1. packets' # <<>>
    BY <1>4
  <2>2. pre'.inversions = Cardinality(Drops(packets', n + 1))
    <3>1. CASE Inverted(pre, ts)
      BY <1>5, <1>6, <1>7, <1>8, <3>1
    <3>2. CASE ~Inverted(pre, ts)
      BY <1>5, <1>6, <1>7, <1>8, <3>2
    <3> QED
      BY <3>1, <3>2
  <2> QED
    BY <1>4, <1>7, <2>1, <2>2 DEF SenderCounts
<1>10. RxShape'
  <2>1. n + 1 \in 1 .. n + 1
    OBVIOUS
  <2>2. flight \in Seq(1 .. n) /\ got \in Seq(1 .. n)
    BY <1>1 DEF RxInv, RxShape
  <2>3. \A s \in Seq(1 .. n) : s \in Seq(1 .. n + 1)
    <3> TAKE s \in Seq(1 .. n)
    <3>1. Len(s) \in Nat /\ \A j \in 1 .. Len(s) : s[j] \in 1 .. n
      BY ElementOfSeq, LenProperties
    <3>2. \A j \in 1 .. Len(s) : s[j] \in 1 .. n + 1
      BY <3>1
    <3> QED
      BY <3>1, <3>2, SeqDef
  <2>4. flight \in Seq(1 .. n + 1) /\ got' \in Seq(1 .. n + 1)
    BY <1>2, <2>2, <2>3
  <2>5. flight' \in Seq(1 .. n + 1)
    BY <1>2, <1>4, <2>1, <2>4, AppendProperties
  <2>6. pre'.inversions \in Nat /\ pre'.last_timestamp \in Nat
    BY <1>3, <1>7
  <2>7. /\ post'.inversions \in Nat /\ post'.last_timestamp \in Nat
        /\ shuffled' \in BOOLEAN
    BY <1>2 DEF RxInv, RxShape
  <2> QED
    BY <1>4, <2>4, <2>5, <2>6, <2>7 DEF RxShape
<1>11. ASSUME ~shuffled' PROVE ReceiverCounts'
  <2>1. ReceiverCounts /\ got' = got /\ post' = post
    BY <1>2, <1>11 DEF RxInv
  <2>2. CASE got = <<>>
    BY <2>1, <2>2 DEF ReceiverCounts
  <2>3. CASE got # <<>>
    <3>1. PICK m \in 1 .. n : m = got[Len(got)]
      <4>1. got \in Seq(1 .. n)
        BY <1>1 DEF RxInv, RxShape
      <4>2. Len(got) \in 1 .. Len(got)
        BY <2>3, <4>1, EmptySeq, LenProperties
      <4> QED
        BY <4>1, <4>2, ElementOfSeq
    <3>2. /\ \A j \in 1 .. Len(got) : got[j] <= m
          /\ post.last_timestamp = packets[m]
          /\ post.inversions <= Cardinality(Drops(packets, m))
      BY <2>1, <2>3, <3>1 DEF ReceiverCounts
    <3>3. m \in 0 .. n
      BY <3>1
    <3>4. Drops(packets', m) = Drops(packets, m) /\ packets'[m] = packets[m]
      BY <1>4, <1>5, <3>1, <3>3
    <3>5. got' # <<>> /\ got'[Len(got')] = m /\ \A j \in 1 .. Len(got') : got'[j] <= m
      BY <2>1, <2>3, <3>1, <3>2
    <3>6. /\ post'.last_timestamp = packets'[m]
          /\ post'.inversions <= Cardinality(Drops(packets', m))
      BY <2>1, <3>2, <3>4
    <3> QED
      BY <3>5, <3>6 DEF ReceiverCounts
  <2> QED
    BY <2>2, <2>3
<1> QED
  BY <1>9, <1>10, <1>11 DEF RxInv


\* A datagram that arrives in order adds to the receiver's count only what is a step back
\* among those sent between the last one and it.
LEMMA DeliverKeeps == ASSUME RxInv, NEW i \in 1 .. Len(flight), Deliver(i) PROVE RxInv'
<1> DEFINE n == flight[i]
           back == Inverted(post, packets[n])
           l == Len(got)
<1>1. /\ flight' = RemoveAt(flight, i) /\ got' = Append(got, n)
      /\ shuffled' = (shuffled \/ \E j \in 1 .. Len(got) : got[j] >= n)
      /\ post' = validate_pre_send(post, packets[n], n)
      /\ UNCHANGED <<packets, pre>>
  BY DEF Deliver, validate_post_receive
<1>2. /\ packets \in Seq(Nat) /\ Len(packets) \in Nat /\ n \in 1 .. Len(packets) /\ packets[n] \in Nat
      /\ post.inversions \in Nat /\ post.last_timestamp \in Nat
  <2>1. packets \in Seq(Nat) /\ flight \in Seq(1 .. Len(packets))
    BY DEF RxInv, RxShape
  <2>2. n \in 1 .. Len(packets)
    BY <2>1, ElementOfSeq
  <2> QED
    BY <2>1, <2>2, ElementOfSeq, LenProperties DEF RxInv, RxShape
<1>3. /\ got \in Seq(1 .. Len(packets)) /\ l \in Nat
      /\ got' \in Seq(1 .. Len(packets)) /\ Len(got') = l + 1 /\ got'[l + 1] = n
      /\ \A j \in 1 .. l : got'[j] = got[j]
  <2>1. got \in Seq(1 .. Len(packets))
    BY DEF RxInv, RxShape
  <2>2. got' \in Seq(1 .. Len(packets)) /\ Len(got') = l + 1
    BY <1>1, <1>2, <2>1, AppendProperties
  <2>3. got'[l + 1] = n /\ \A j \in 1 .. l : got'[j] = got[j]
    BY <1>1, <1>2, <2>1, AppendProperties
  <2> QED
    BY <2>1, <2>2, <2>3, LenProperties
<1>4. post'.inversions = post.inversions + (IF back THEN 1 ELSE 0) /\ post'.last_timestamp = packets[n]
  BY <1>1 DEF validate_pre_send
<1>5. back <=> post.last_timestamp > 0 /\ packets[n] < post.last_timestamp
  BY DEF Inverted
<1>6. flight' \in Seq(1 .. Len(packets))
  BY <1>1, WithoutOne DEF RxInv, RxShape
<1>7. \A j \in 1 .. l : got[j] \in 1 .. Len(packets)
  BY <1>3, ElementOfSeq
<1> HIDE DEF n, back, l
<1>8. \A j : Drops(packets', j) = Drops(packets, j)
  BY <1>1 DEF Drops
<1>9. SenderCounts'
  BY <1>1, <1>8 DEF RxInv, SenderCounts
<1>10. RxShape'
  <2>1. shuffled' \in BOOLEAN
    BY <1>1 DEF RxInv, RxShape
  <2>2. post'.inversions \in Nat /\ post'.last_timestamp \in Nat
    BY <1>2, <1>4
  <2> QED
    BY <1>1, <1>3, <1>6, <2>1, <2>2 DEF RxInv, RxShape
<1>11. ASSUME ~shuffled' PROVE ReceiverCounts'
  <2>1. ReceiverCounts
    BY <1>1, <1>11 DEF RxInv
  <2>2. \A j \in 1 .. l : ~(got[j] >= n)
    BY <1>1, <1>11 DEF l
  <2>3. \A j \in 1 .. l + 1 : got'[j] <= n
    <3> TAKE j \in 1 .. l + 1
    <3>1. CASE j = l + 1
      BY <1>2, <1>3, <3>1
    <3>2. CASE j # l + 1
      <4>1. j \in 1 .. l
        BY <1>3, <3>2
      <4>2. got[j] \in 1 .. Len(packets) /\ ~(got[j] >= n) /\ got'[j] = got[j]
        BY <1>3, <1>7, <2>2, <4>1
      <4> QED
        BY <1>2, <4>2
    <3> QED
      BY <3>1, <3>2
  <2>4. post'.inversions <= Cardinality(Drops(packets, n))
    <3>1. CASE got = <<>>
      <4>1. post.inversions = 0 /\ ~back
        BY <1>5, <2>1, <3>1 DEF ReceiverCounts
      <4>2. Cardinality(Drops(packets, n)) \in Nat
        BY <1>2, DropsGrow
      <4> QED
        BY <1>4, <4>1, <4>2
    <3>2. CASE got # <<>>
      <4>1. l \in 1 .. l
        BY <1>3, <3>2, EmptySeq DEF l
      <4> DEFINE m == got[l]
      <4>2. m \in 1 .. Len(packets) /\ ~(m >= n)
        BY <1>7, <2>2, <4>1
      <4>3. post.last_timestamp = packets[m] /\ post.inversions <= Cardinality(Drops(packets, m))
        BY <2>1, <3>2 DEF ReceiverCounts, l
      <4> HIDE DEF m
      <4>4. m \in Nat /\ n \in Nat /\ m < n
        BY <1>2, <4>2
      <4>5. Cardinality(Drops(packets, m)) \in Nat /\ Cardinality(Drops(packets, n)) \in Nat /\ Cardinality(Drops(packets, m)) <= Cardinality(Drops(packets, n))
        BY <4>4, DropsGrow
      <4>6. CASE back
        <5>1. packets[n] < packets[m]
          BY <1>5, <4>3, <4>6
        <5>2. Cardinality(Drops(packets, m)) + 1 <= Cardinality(Drops(packets, n))
          BY <1>2, <4>2, <4>4, <5>1, StepBackSeen
        <5>3. post'.inversions = post.inversions + 1
          BY <1>4, <4>6
        <5> QED
          BY <1>2, <4>3, <4>5, <5>2, <5>3
      <4>7. CASE ~back
        <5>1. post'.inversions = post.inversions
          BY <1>2, <1>4, <4>7
        <5> QED
          BY <1>2, <4>3, <4>5, <5>1
      <4> QED
        BY <4>6, <4>7
    <3> QED
      BY <3>1, <3>2
  <2>5. got' # <<>>
    BY <1>3
  <2>6. Len(got') = l + 1 /\ got'[Len(got')] = n /\ packets' = packets
    BY <1>1, <1>3
  <2> QED
    BY <1>4, <1>8, <2>3, <2>4, <2>5, <2>6 DEF ReceiverCounts
<1> QED
  BY <1>9, <1>10, <1>11 DEF RxInv

\* Every step of sender, network and receivers.
LEMMA RxSteps == RxInv /\ [RxNext]_rvars => RxInv'
<1> SUFFICES ASSUME RxInv, [RxNext]_rvars PROVE RxInv'
  OBVIOUS
<1>1. CASE UNCHANGED rvars
  BY <1>1 DEF rvars, RxInv, RxShape, SenderCounts, ReceiverCounts, Drops
<1>2. ASSUME NEW ts \in Stamps, SendDatagram(ts) PROVE RxInv'
  BY <1>2, SendDatagramKeeps
<1>3. ASSUME NEW i \in 1 .. Len(flight), LoseDatagram(i) \/ RepeatDatagram(i) PROVE RxInv'
  BY <1>3, NetworkKeeps
<1>4. ASSUME NEW i \in 1 .. Len(flight), Deliver(i) PROVE RxInv'
  BY <1>4, DeliverKeeps
<1> QED
  BY <1>1, <1>2, <1>3, <1>4 DEF RxNext

\* The network is accused of inversions only if a datagram arrived out of order or twice:
\* a receiver that got a part of the datagrams in order counts no more steps back than the
\* sender did, for any timestamps, any number of datagrams and any losses.
THEOREM BlameAlwaysDeserved == RxSpec => []BlameIsDeserved
<1>1. RxInv => BlameIsDeserved
  <2> SUFFICES ASSUME RxInv, ~shuffled, post.inversions > pre.inversions PROVE FALSE
    BY DEF RxInv, RxShape, BlameIsDeserved, get_comparison_report
  <2>1. pre.inversions = Cardinality(Drops(packets, Len(packets))) /\ pre.inversions \in Nat /\ post.inversions \in Nat
        /\ Len(packets) \in Nat
    BY LenProperties DEF RxInv, RxShape, SenderCounts
  <2>2. CASE got = <<>>
    BY <2>1, <2>2 DEF RxInv, ReceiverCounts
  <2>3. CASE got # <<>>
    <3> DEFINE m == got[Len(got)]
    <3>1. m \in 1 .. Len(packets)
      <4>1. got \in Seq(1 .. Len(packets))
        BY DEF RxInv, RxShape
      <4>2. Len(got) \in 1 .. Len(got)
        BY <2>3, <4>1, EmptySeq, LenProperties
      <4> QED
        BY <4>1, <4>2, ElementOfSeq
    <3>2. post.inversions <= Cardinality(Drops(packets, m))
      BY <2>3 DEF RxInv, ReceiverCounts
    <3> HIDE DEF m
    <3>3. Cardinality(Drops(packets, m)) \in Nat /\ Cardinality(Drops(packets, m)) <= Cardinality(Drops(packets, Len(packets)))
      BY <2>1, <3>1, DropsGrow
    <3> QED
      BY <2>1, <3>2, <3>3
  <2> QED
    BY <2>2, <2>3
<1> QED
  BY <1>1, RxStarts, RxSteps, PTL DEF RxSpec

--------------------------------------------------------------------------------
(* The UDP senders.                                                        *)

\* The senders on their own.
SenderSpec == SenderInit /\ [][SenderNext]_svars

\* Packets as they are handed over, and their parts.
Packet == [id : Nat, task : SenderTasks, symbol : Nat, parts : 1 .. 2, ts : Nat, at : Nat]
Part == Nat \X (1 .. 2)

\* The parts of a set of packets.
PartSet(P) == UNION {{<<p.id, k>> : k \in 1 .. p.parts} : p \in P}

\* Whether part y may leave after part x.
MayFollow(x, y) ==
    IF sender \in {"binary", "optimized"} THEN Before(x, y)
    ELSE IF sender = "ordered" THEN x # y
    ELSE CallerOf(x) = CallerOf(y) => Before(x, y)
After == [x \in Part |-> {y \in Part : MayFollow(x, y)}]

\* The types of the variables.
SenderShape ==
    /\ handed \in Seq(Packet) /\ \A i \in 1 .. Len(handed) : handed[i].id = i
    /\ out \in [0 .. Sockets - 1 -> Seq(Part)]
    /\ rest \in [SenderTasks -> Seq(Part)]
    /\ now \in Nat
    /\ ~ended => late = {}
    /\ sender = "buffered" => inbox \in Seq(Part) /\ batch = <<>>
    /\ sender # "buffered" => inbox \in Seq(Packet) /\ batch \in Seq(Packet)
    /\ sender = "multi_port" => inbox = <<>> /\ batch = <<>>
    /\ sender \notin {"buffered", "multi_port"} => \A t \in SenderTasks : rest[t] = <<>>

\* Packets of greater ids may come after a packet.
ById == [p \in Packet |-> {q \in Packet : p.id < q.id}]

\* The packets that wait are among those handed over, each once and in their order.
QueueGood ==
    sender # "buffered" =>
      Ordered(batch \o inbox, ById) /\ ToSet(batch \o inbox) \subseteq ToSet(handed)

\* Every part is somewhere, and what is sent, waits and is still to be sent is in order.
Flow ==
    /\ Sent \cup Pending = PartSet(ToSet(handed)) \ Lost
    /\ Lost \subseteq PartSet(ToSet(handed))
    /\ Ordered(Waiting, After)
    /\ \A s \in 0 .. Sockets - 1 : Ordered(out[s], After) /\ AllAfter(ToSet(out[s]), ToSet(Waiting), After)
    /\ \A t \in SenderTasks :
         /\ Ordered(rest[t], After) /\ AllAfter(ToSet(Waiting), ToSet(rest[t]), After)
         /\ \A x \in ToSet(rest[t]) : CallerOf(x) = t
         /\ \A s \in 0 .. Sockets - 1 : AllAfter(ToSet(out[s]), ToSet(rest[t]), After)
    /\ sender = "multi_port" =>
         \A s \in 0 .. Sockets - 1 : \A x \in ToSet(out[s]) : select_socket(handed[x[1]].symbol) = s

SenderInv == SenderShape /\ QueueGood /\ Flow

\* A sequence without some elements.
LEMMA WithoutProperties ==
    ASSUME NEW S, NEW s \in Seq(S), NEW X
    PROVE  /\ Without(s, X) \in Seq(S)
           /\ ToSet(Without(s, X)) = ToSet(s) \ X
           /\ \A i, j \in 1 .. Len(Without(s, X)) : i < j =>
                \E k, l \in 1 .. Len(s) : k < l /\ Without(s, X)[i] = s[k] /\ Without(s, X)[j] = s[l]
<1>1. PICK n \in Nat : n = Len(s)
  BY LenProperties
<1>2. PICK ss : ss = [i \in 1 .. n |-> IF s[i] \in X THEN <<>> ELSE <<s[i]>>]
  OBVIOUS
<1>3. PICK r : r = Without(s, X)
  OBVIOUS
<1>4. \A i \in 1 .. n : s[i] \in S
  BY <1>1, ElementOfSeq
<1>5. ss \in Seq(Seq(S)) /\ Len(ss) = n
  <2>1. \A i \in 1 .. n : (IF s[i] \in X THEN <<>> ELSE <<s[i]>>) \in Seq(S)
    <3> TAKE i \in 1 .. n
    <3>1. <<>> \in Seq(S) /\ <<s[i]>> \in Seq(S)
      BY <1>4
    <3> QED
      BY <3>1
  <2>2. ss \in [1 .. n -> Seq(S)]
    BY <1>2, <2>1
  <2> QED
    BY <2>2, IsASeq, LenProperties
<1>6. r \in Seq(S) /\ PiecedFrom(r, ss, n)
  <2>1. r = FlattenSeq(ss)
    BY <1>1, <1>2, <1>3 DEF Without
  <2> QED
    BY <1>5, <2>1, FlattenSeqProperties
<1>7. \A k \in 1 .. n : \A a \in 1 .. Len(ss[k]) : a = 1 /\ ss[k][a] = s[k] /\ s[k] \notin X
  <2> TAKE k \in 1 .. n
  <2> TAKE a \in 1 .. Len(ss[k])
  <2>1. CASE s[k] \in X
    <3>1. Len(ss[k]) = 0
      BY <1>2, <2>1
    <3> QED
      BY <3>1
  <2>2. CASE s[k] \notin X
    <3>1. ss[k] = <<s[k]>>
      BY <1>2, <2>2
    <3>2. Len(<<s[k]>>) = 1 /\ <<s[k]>>[1] = s[k]
      OBVIOUS
    <3>3. a = 1
      BY <3>1, <3>2
    <3> QED
      BY <2>2, <3>1, <3>2, <3>3
  <2> QED
    BY <2>1, <2>2
<1>8. \A k \in 1 .. n : s[k] \notin X => 1 \in 1 .. Len(ss[k]) /\ ss[k][1] = s[k]
  <2> TAKE k \in 1 .. n
  <2> HAVE s[k] \notin X
  <2>1. ss[k] = <<s[k]>>
    BY <1>2
  <2>2. Len(<<s[k]>>) = 1 /\ <<s[k]>>[1] = s[k] /\ 1 \in 1 .. 1
    OBVIOUS
  <2> QED
    BY <2>1, <2>2
<1>9. ToSet(r) = ToSet(s) \ X
  <2>1. DOMAIN r = 1 .. Len(r) /\ DOMAIN s = 1 .. n
    BY <1>1, <1>6, LenProperties
  <2>2. \A j \in 1 .. Len(r) : \E k \in 1 .. n : r[j] = s[k] /\ s[k] \notin X
    <3> TAKE j \in 1 .. Len(r)
    <3>1. PICK k \in 1 .. n : \E a \in 1 .. Len(ss[k]) : r[j] = ss[k][a]
      BY <1>6 DEF PiecedFrom
    <3> QED
      BY <1>7, <3>1
  <2>3. \A k \in 1 .. n : s[k] \notin X => \E j \in 1 .. Len(r) : r[j] = s[k]
    <3> TAKE k \in 1 .. n
    <3> HAVE s[k] \notin X
    <3>1. 1 \in 1 .. Len(ss[k]) /\ ss[k][1] = s[k]
      BY <1>8
    <3> QED
      BY <1>6, <3>1 DEF PiecedFrom
  <2>4. ToSet(r) \subseteq ToSet(s) \ X
    BY <2>1, <2>2 DEF ToSet
  <2>5. ToSet(s) \ X \subseteq ToSet(r)
    BY <2>1, <2>3 DEF ToSet
  <2> QED
    BY <2>4, <2>5
<1>10. \A i, j \in 1 .. Len(r) : i < j => \E k, l \in 1 .. n : k < l /\ r[i] = s[k] /\ r[j] = s[l]
  <2> SUFFICES ASSUME NEW i \in 1 .. Len(r), NEW j \in 1 .. Len(r), i < j
               PROVE  \E k, l \in 1 .. n : k < l /\ r[i] = s[k] /\ r[j] = s[l]
    OBVIOUS
  <2>1. PICK k \in 1 .. n, l \in 1 .. n : \E a \in 1 .. Len(ss[k]), b \in 1 .. Len(ss[l]) :
           r[i] = ss[k][a] /\ r[j] = ss[l][b] /\ (k < l \/ (k = l /\ a < b))
    BY <1>6 DEF PiecedFrom
  <2>2. PICK a \in 1 .. Len(ss[k]), b \in 1 .. Len(ss[l]) :
           r[i] = ss[k][a] /\ r[j] = ss[l][b] /\ (k < l \/ (k = l /\ a < b))
    BY <2>1
  <2>3. a = 1 /\ b = 1 /\ ss[k][a] = s[k] /\ ss[l][b] = s[l]
    BY <1>7
  <2>4. k < l
    BY <2>2, <2>3
  <2> QED
    BY <2>2, <2>3, <2>4
<1> QED
  BY <1>1, <1>3, <1>6, <1>9, <1>10

\* It keeps their order.
LEMMA WithoutOrdered ==
    ASSUME NEW S, NEW s \in Seq(S), NEW X, NEW R, Ordered(s, R) PROVE Ordered(Without(s, X), R)
BY WithoutProperties DEF Ordered

\* The parts of packets.
LEMMA AllPartsProperties ==
    ASSUME NEW ps \in Seq(Packet)
    PROVE  /\ AllParts(ps) \in Seq(Part)
           /\ ToSet(AllParts(ps)) = PartSet(ToSet(ps))
           /\ \A i, j \in 1 .. Len(AllParts(ps)) : i < j =>
                \E k, l \in 1 .. Len(ps) : \E a \in 1 .. ps[k].parts, b \in 1 .. ps[l].parts :
                   /\ AllParts(ps)[i] = <<ps[k].id, a>> /\ AllParts(ps)[j] = <<ps[l].id, b>>
                   /\ k < l \/ (k = l /\ a < b)
<1>1. PICK n \in Nat : n = Len(ps)
  BY LenProperties
<1>2. PICK ss : ss = [i \in 1 .. n |-> PartsOf(ps[i])]
  OBVIOUS
<1>3. PICK r : r = AllParts(ps)
  OBVIOUS
<1>4. \A i \in 1 .. n : ps[i].id \in Nat /\ ps[i].parts \in 1 .. 2
  <2> TAKE i \in 1 .. n
  <2>1. ps[i] \in Packet
    BY <1>1, ElementOfSeq
  <2> QED
    BY <2>1 DEF Packet
<1>5. \A i \in 1 .. n : /\ ss[i] \in Seq(Part) /\ Len(ss[i]) = ps[i].parts
                        /\ \A k \in 1 .. ps[i].parts : ss[i][k] = <<ps[i].id, k>>
  <2> TAKE i \in 1 .. n
  <2>1. ss[i] = [k \in 1 .. ps[i].parts |-> <<ps[i].id, k>>]
    BY <1>2 DEF PartsOf
  <2>2. ps[i].parts \in Nat /\ \A k \in 1 .. ps[i].parts : <<ps[i].id, k>> \in Part
    BY <1>4 DEF Part
  <2>3. ss[i] \in [1 .. ps[i].parts -> Part]
    BY <2>1, <2>2
  <2>4. ss[i] \in Seq(Part) /\ Len(ss[i]) = ps[i].parts
    <3>1. PICK m \in Nat : m = ps[i].parts
      BY <2>2
    <3>2. PICK q \in [1 .. m -> Part] : q = ss[i]
      BY <2>3, <3>1
    <3>3. q \in Seq(Part) /\ Len(q) = m
      OBVIOUS
    <3> QED
      BY <3>1, <3>2, <3>3
  <2> QED
    BY <2>1, <2>4
<1>6. ss \in Seq(Seq(Part)) /\ Len(ss) = n
  <2>1. ss \in [1 .. n -> Seq(Part)]
    BY <1>2, <1>5
  <2> QED
    BY <2>1, IsASeq, LenProperties
<1>7. r \in Seq(Part) /\ PiecedFrom(r, ss, n)
  <2>1. r = FlattenSeq(ss)
    BY <1>1, <1>2, <1>3 DEF AllParts
  <2> QED
    BY <1>6, <2>1, FlattenSeqProperties
<1>8. ToSet(r) = PartSet(ToSet(ps))
  <2>0. ToSet(ps) = {ps[k] : k \in 1 .. n}
    <3>1. DOMAIN ps = 1 .. n
      BY <1>1, LenProperties
    <3> QED
      BY <3>1 DEF ToSet
  <2>1. DOMAIN r = 1 .. Len(r)
    BY <1>7, LenProperties
  <2>2. \A j \in 1 .. Len(r) : \E k \in 1 .. n : \E a \in 1 .. ps[k].parts : r[j] = <<ps[k].id, a>>
    <3> TAKE j \in 1 .. Len(r)
    <3>1. PICK k \in 1 .. n : \E a \in 1 .. Len(ss[k]) : r[j] = ss[k][a]
      BY <1>7 DEF PiecedFrom
    <3> QED
      BY <1>5, <3>1
  <2>3. \A k \in 1 .. n : \A a \in 1 .. ps[k].parts : \E j \in 1 .. Len(r) : r[j] = <<ps[k].id, a>>
    <3> TAKE k \in 1 .. n
    <3> TAKE a \in 1 .. ps[k].parts
    <3>1. a \in 1 .. Len(ss[k]) /\ ss[k][a] = <<ps[k].id, a>>
      BY <1>5
    <3>2. \E j \in 1 .. Len(r) : r[j] = ss[k][a]
      BY <1>7, <3>1 DEF PiecedFrom
    <3> QED
      BY <3>1, <3>2
  <2>4. ToSet(r) \subseteq PartSet(ToSet(ps))
    <3> SUFFICES ASSUME NEW x \in ToSet(r) PROVE x \in PartSet(ToSet(ps))
      OBVIOUS
    <3>1. PICK j \in 1 .. Len(r) : x = r[j]
      BY <2>1 DEF ToSet
    <3>2. PICK k \in 1 .. n : \E a \in 1 .. ps[k].parts : x = <<ps[k].id, a>>
      BY <2>2, <3>1
    <3>3. ps[k] \in ToSet(ps)
      BY <2>0
    <3> QED
      BY <3>2, <3>3 DEF PartSet
  <2>5. PartSet(ToSet(ps)) \subseteq ToSet(r)
    <3> SUFFICES ASSUME NEW k \in 1 .. n, NEW a \in 1 .. ps[k].parts PROVE <<ps[k].id, a>> \in ToSet(r)
      BY <2>0 DEF PartSet
    <3>1. PICK j \in 1 .. Len(r) : r[j] = <<ps[k].id, a>>
      BY <2>3
    <3> QED
      BY <2>1, <3>1 DEF ToSet
  <2> QED
    BY <2>4, <2>5
<1>9. \A i, j \in 1 .. Len(r) : i < j =>
        \E k, l \in 1 .. n : \E a \in 1 .. ps[k].parts, b \in 1 .. ps[l].parts :
           /\ r[i] = <<ps[k].id, a>> /\ r[j] = <<ps[l].id, b>>
           /\ k < l \/ (k = l /\ a < b)
  <2> SUFFICES ASSUME NEW i \in 1 .. Len(r), NEW j \in 1 .. Len(r), i < j
               PROVE  \E k, l \in 1 .. n : \E a \in 1 .. ps[k].parts, b \in 1 .. ps[l].parts :
                         /\ r[i] = <<ps[k].id, a>> /\ r[j] = <<ps[l].id, b>>
                         /\ k < l \/ (k = l /\ a < b)
    OBVIOUS
  <2>1. PICK k \in 1 .. n, l \in 1 .. n : \E a \in 1 .. Len(ss[k]), b \in 1 .. Len(ss[l]) :
           r[i] = ss[k][a] /\ r[j] = ss[l][b] /\ (k < l \/ (k = l /\ a < b))
    BY <1>7 DEF PiecedFrom
  <2>2. PICK a \in 1 .. Len(ss[k]), b \in 1 .. Len(ss[l]) :
           r[i] = ss[k][a] /\ r[j] = ss[l][b] /\ (k < l \/ (k = l /\ a < b))
    BY <2>1
  <2>3. /\ a \in 1 .. ps[k].parts /\ b \in 1 .. ps[l].parts
        /\ ss[k][a] = <<ps[k].id, a>> /\ ss[l][b] = <<ps[l].id, b>>
    BY <1>5
  <2> QED
    BY <2>2, <2>3
<1>10. AllParts(ps) \in Seq(Part) /\ ToSet(AllParts(ps)) = PartSet(ToSet(ps))
  BY <1>3, <1>7, <1>8
<1>11. ASSUME NEW i \in 1 .. Len(AllParts(ps)), NEW j \in 1 .. Len(AllParts(ps)), i < j
       PROVE  \E k, l \in 1 .. Len(ps) : \E a \in 1 .. ps[k].parts, b \in 1 .. ps[l].parts :
                 /\ AllParts(ps)[i] = <<ps[k].id, a>> /\ AllParts(ps)[j] = <<ps[l].id, b>>
                 /\ k < l \/ (k = l /\ a < b)
  <2>1. i \in 1 .. Len(r) /\ j \in 1 .. Len(r)
    BY <1>3
  <2>2. PICK k \in 1 .. n, l \in 1 .. n : \E a \in 1 .. ps[k].parts, b \in 1 .. ps[l].parts :
           r[i] = <<ps[k].id, a>> /\ r[j] = <<ps[l].id, b>> /\ (k < l \/ (k = l /\ a < b))
    BY <1>9, <1>11, <2>1
  <2> QED
    BY <1>1, <1>3, <2>2
<1> QED
  BY <1>10, <1>11

\* What is later may follow; nothing follows itself.
LEMMA LaterFollows ==
    ASSUME NEW x \in Part, NEW y \in Part
    PROVE  (Before(x, y) => y \in After[x]) /\ x \notin After[x]
<1>1. ~Before(x, x)
  BY DEF Before, Part
<1>2. ~MayFollow(x, x)
  BY <1>1 DEF MayFollow
<1>3. Before(x, y) => MayFollow(x, y)
  <2> SUFFICES ASSUME Before(x, y) PROVE MayFollow(x, y)
    OBVIOUS
  <2>1. x # y
    BY <1>1
  <2> QED
    BY <2>1 DEF MayFollow
<1> QED
  BY <1>2, <1>3 DEF After

\* So what follows a set of parts has none of them.
LEMMA FollowersApart ==
    ASSUME NEW A \in SUBSET Part, NEW B, AllAfter(A, B, After) PROVE A \cap B = {}
BY LaterFollows DEF AllAfter

\* Packets in the order of their ids have ordered parts.
LEMMA PartsOrdered ==
    ASSUME NEW ps \in Seq(Packet),
           \A i, j \in 1 .. Len(ps) : i < j =>
             ps[i].id < ps[j].id \/ (sender = "ordered" /\ ps[i].id # ps[j].id)
    PROVE  Ordered(AllParts(ps), After)
<1> SUFFICES ASSUME NEW i \in 1 .. Len(AllParts(ps)), NEW j \in 1 .. Len(AllParts(ps)), i < j
             PROVE  AllParts(ps)[j] \in After[AllParts(ps)[i]]
  BY DEF Ordered
<1>1. PICK x \in Part, y \in Part : x = AllParts(ps)[i] /\ y = AllParts(ps)[j]
  BY AllPartsProperties, ElementOfSeq
<1>2. PICK k \in 1 .. Len(ps), l \in 1 .. Len(ps) : \E a \in 1 .. ps[k].parts, b \in 1 .. ps[l].parts :
         x = <<ps[k].id, a>> /\ y = <<ps[l].id, b>> /\ (k < l \/ (k = l /\ a < b))
  <2>1. \E k, l \in 1 .. Len(ps) : \E a \in 1 .. ps[k].parts, b \in 1 .. ps[l].parts :
           /\ AllParts(ps)[i] = <<ps[k].id, a>> /\ AllParts(ps)[j] = <<ps[l].id, b>>
           /\ k < l \/ (k = l /\ a < b)
    <3>1. \A g, h \in 1 .. Len(AllParts(ps)) : g < h =>
             \E k, l \in 1 .. Len(ps) : \E a \in 1 .. ps[k].parts, b \in 1 .. ps[l].parts :
                /\ AllParts(ps)[g] = <<ps[k].id, a>> /\ AllParts(ps)[h] = <<ps[l].id, b>>
                /\ k < l \/ (k = l /\ a < b)
      BY AllPartsProperties, Zenon
    <3> QED
      BY <3>1, Zenon
  <2> QED
    BY <1>1, <2>1
<1>3. PICK a \in 1 .. ps[k].parts, b \in 1 .. ps[l].parts :
         x = <<ps[k].id, a>> /\ y = <<ps[l].id, b>> /\ (k < l \/ (k = l /\ a < b))
  BY <1>2
<1>4. CASE Before(x, y)
  BY <1>1, <1>4, LaterFollows
<1>5. CASE ~Before(x, y)
  <2>1. k < l /\ ~(ps[k].id < ps[l].id)
    BY <1>3, <1>5 DEF Before
  <2>2. sender = "ordered" /\ ps[k].id # ps[l].id
    BY <2>1
  <2>3. x # y
    BY <1>3, <2>2
  <2>4. MayFollow(x, y)
    BY <2>2, <2>3 DEF MayFollow
  <2> QED
    BY <1>1, <2>4 DEF After
<1> QED
  BY <1>4, <1>5

\* A flush moves what waits to the socket, but for what is gone.
LEMMA EmitKeeps ==
    ASSUME SenderShape, Flow, sender # "multi_port", 0 \in 0 .. Sockets - 1,
           NEW parts \in Seq(Part), NEW gone \in SUBSET ToSet(parts), Emit(0, parts, gone),
           UNCHANGED <<sender, handed, rest, late>>,
           NEW W \in SUBSET Part, W = ToSet(Waiting)', ToSet(Waiting) = ToSet(parts) \cup W,
           Ordered(parts, After), Ordered(Waiting, After)', AllAfter(ToSet(parts), W, After)
    PROVE  out' \in [0 .. Sockets - 1 -> Seq(Part)] /\ Flow'
<1> DEFINE Ports == 0 .. Sockets - 1
<1>1. PICK r \in Seq(Part) : r = Without(parts, gone) /\ ToSet(r) = ToSet(parts) \ gone /\ Ordered(r, After)
  BY WithoutProperties, WithoutOrdered
<1>2. /\ out \in [Ports -> Seq(Part)] /\ out' = [out EXCEPT ![0] = @ \o r] /\ dropped' = dropped \cup gone
      /\ \A t \in SenderTasks : rest[t] \in Seq(Part)
  BY <1>1 DEF SenderShape, Emit
<1>3. /\ out[0] \in Seq(Part) /\ out[0] \o r \in Seq(Part) /\ out'[0] = out[0] \o r
      /\ \A s \in Ports \ {0} : out'[s] = out[s]
      /\ out' \in [Ports -> Seq(Part)]
  <2>1. out[0] \in Seq(Part) /\ out[0] \o r \in Seq(Part)
    BY <1>2, ConcatProperties
  <2> QED
    BY <1>2, <2>1
<1>4. ToSet(out'[0]) = ToSet(out[0]) \cup ToSet(r) /\ \A s \in Ports \ {0} : ToSet(out'[s]) = ToSet(out[s])
  BY <1>3, ToSetOfConcat
<1>5. PICK P \in SUBSET Part : P = ToSet(parts)
  BY ToSetType
<1>6. After' = After
  BY DEF After, MayFollow, CallerOf, Before
<1>7. Ordered(out'[0], After)
  <2>1. Ordered(out[0], After) /\ AllAfter(ToSet(out[0]), ToSet(r), After)
    BY <1>1, <1>5 DEF Flow, AllAfter
  <2>2. Ordered(r, After) /\ out[0] \in Seq(Part) /\ r \in Seq(Part)
    BY <1>1, <1>3
  <2>3. Ordered(out[0] \o r, After)
    BY <2>1, <2>2, OrderedConcat
  <2> QED
    BY <1>3, <2>3
<1>8. \A s \in Ports : Ordered(out'[s], After)
  <2> TAKE s \in Ports
  <2>1. CASE s = 0
    BY <1>7, <2>1
  <2>2. CASE s # 0
    BY <1>3, <2>2 DEF Flow
  <2> QED
    BY <2>1, <2>2
<1>9. \A s \in Ports : ToSet(out'[s]) \subseteq ToSet(out[s]) \cup ToSet(parts)
  BY <1>1, <1>4
<1>10. \A s \in Ports : AllAfter(ToSet(out'[s]), W, After)
  <2>1. \A s \in Ports : AllAfter(ToSet(out[s]), W, After)
    BY DEF Flow, AllAfter
  <2> QED
    BY <1>9, <2>1 DEF AllAfter
<1>11. \A t \in SenderTasks : AllAfter(W, ToSet(rest[t]), After) /\ AllAfter(ToSet(parts), ToSet(rest[t]), After)
  BY DEF Flow, AllAfter
<1>12. \A t \in SenderTasks, s \in Ports : AllAfter(ToSet(out'[s]), ToSet(rest[t]), After)
  <2>1. \A t \in SenderTasks, s \in Ports : AllAfter(ToSet(out[s]), ToSet(rest[t]), After)
    BY DEF Flow
  <2> QED
    BY <1>9, <1>11, <2>1 DEF AllAfter
<1> DEFINE R == UNION {ToSet(rest[t]) : t \in SenderTasks}
<1>13. gone \cap W = {} /\ gone \cap Sent = {} /\ gone \cap R = {}
  <2>1. gone \cap W = {}
    BY <1>5, FollowersApart
  <2>2. gone \cap Sent = {}
    <3> SUFFICES ASSUME NEW x \in gone, x \in Sent PROVE FALSE
      OBVIOUS
    <3>1. PICK s \in Ports : x \in ToSet(out[s])
      BY <1>2 DEF Sent
    <3>2. x \in ToSet(Waiting) /\ x \in Part
      BY <1>5
    <3>3. AllAfter(ToSet(out[s]), ToSet(Waiting), After)
      BY DEF Flow
    <3>4. x \in After[x]
      BY <3>1, <3>2, <3>3 DEF AllAfter
    <3> QED
      BY <3>2, <3>4, LaterFollows
  <2>3. gone \cap R = {}
    <3> SUFFICES ASSUME NEW x \in gone, NEW t \in SenderTasks, x \in ToSet(rest[t]) PROVE FALSE
      OBVIOUS
    <3>1. x \in Part /\ x \in After[x]
      BY <1>5, <1>11 DEF AllAfter
    <3> QED
      BY <3>1, LaterFollows
  <2> QED
    BY <2>1, <2>2, <2>3
<1>14. Sent' = Sent \cup ToSet(r)
  <2>1. Sent = UNION {ToSet(out[s]) : s \in Ports} /\ Sent' = UNION {ToSet(out'[s]) : s \in Ports}
    BY <1>2, <1>3 DEF Sent
  <2>2. Sent' \subseteq Sent \cup ToSet(r)
    BY <1>4, <2>1
  <2>3. Sent \cup ToSet(r) \subseteq Sent'
    BY <1>4, <2>1
  <2> QED
    BY <2>2, <2>3
<1>15. Pending = ToSet(parts) \cup W \cup R /\ Pending' = W \cup R
  BY DEF Pending
<1>16. Lost' = Lost \cup gone
  BY <1>2 DEF Lost
<1>17. Sent \cup ToSet(parts) \cup W \cup R = PartSet(ToSet(handed)) \ Lost /\ Lost \subseteq PartSet(ToSet(handed))
  BY <1>15 DEF Flow
<1> HIDE DEF R
<1>18. Sent' \cup Pending' = PartSet(ToSet(handed)) \ Lost'
  BY <1>1, <1>13, <1>14, <1>15, <1>16, <1>17
<1>19. Lost' \subseteq PartSet(ToSet(handed))
  BY <1>16, <1>17
<1>20. /\ \A t \in SenderTasks : Ordered(rest[t], After)
       /\ \A t \in SenderTasks : \A x \in ToSet(rest[t]) : CallerOf(x) = t
       /\ Ordered(Waiting', After)
  BY <1>6 DEF Flow
<1>21. \A t \in SenderTasks : \A x \in ToSet(rest[t]) : CallerOf(x)' = t
  BY <1>20 DEF CallerOf
<1>22. rest' = rest /\ handed' = handed /\ sender' = sender /\ ToSet(Waiting') = W
  OBVIOUS
<1> QED
  BY <1>3, <1>6, <1>8, <1>10, <1>11, <1>12, <1>18, <1>19, <1>20, <1>21, <1>22 DEF Flow

\* A packet handed over is found under its id.
LEMMA HandedFacts ==
    ASSUME SenderShape
    PROVE  /\ ToSet(handed) \subseteq Packet /\ Len(handed) \in Nat
           /\ \A p \in ToSet(handed) : p.id \in 1 .. Len(handed) /\ p = handed[p.id]
           /\ PartSet(ToSet(handed)) \subseteq Part
           /\ \A x \in PartSet(ToSet(handed)) : x[1] \in 1 .. Len(handed)
           /\ 0 \in 0 .. Sockets - 1
<1>1. handed \in Seq(Packet) /\ \A i \in 1 .. Len(handed) : handed[i].id = i
  BY DEF SenderShape
<1>2. Len(handed) \in Nat /\ DOMAIN handed = 1 .. Len(handed)
  BY <1>1, LenProperties
<1>3. \A p \in ToSet(handed) : p \in Packet /\ p.id \in 1 .. Len(handed) /\ p = handed[p.id]
  <2> TAKE p \in ToSet(handed)
  <2>1. PICK i \in 1 .. Len(handed) : p = handed[i]
    BY <1>2 DEF ToSet
  <2> QED
    BY <1>1, <2>1, ElementOfSeq
<1>4. \A x \in PartSet(ToSet(handed)) : x \in Part /\ x[1] \in 1 .. Len(handed)
  <2> TAKE x \in PartSet(ToSet(handed))
  <2>1. PICK p \in ToSet(handed) : \E k \in 1 .. p.parts : x = <<p.id, k>>
    BY DEF PartSet
  <2>2. PICK k \in 1 .. p.parts : x = <<p.id, k>>
    BY <2>1
  <2>3. p.parts \in 1 .. 2 /\ p.id \in Nat /\ p.id \in 1 .. Len(handed)
    BY <1>3 DEF Packet
  <2>4. k \in 1 .. 2
    BY <2>3
  <2> QED
    BY <2>2, <2>3, <2>4 DEF Part
<1>5. 0 \in 0 .. Sockets - 1
  BY SendersAssumption DEF SendersAssumption
<1> QED
  BY <1>2, <1>3, <1>4, <1>5

\* The parts of packets with greater ids may follow.
LEMMA PartsFollow ==
    ASSUME NEW A \in SUBSET Packet, NEW B \in SUBSET Packet, AllAfter(A, B, ById)
    PROVE  AllAfter(PartSet(A), PartSet(B), After)
<1> SUFFICES ASSUME NEW p \in A, NEW q \in B, NEW a \in 1 .. p.parts, NEW b \in 1 .. q.parts
             PROVE  <<q.id, b>> \in After[<<p.id, a>>]
  BY DEF AllAfter, PartSet
<1>1. p \in Packet /\ q \in Packet /\ p.id < q.id
  BY DEF AllAfter, ById
<1>2. p.id \in Nat /\ q.id \in Nat /\ p.parts \in 1 .. 2 /\ q.parts \in 1 .. 2
  BY <1>1 DEF Packet
<1>3. a \in 1 .. 2 /\ b \in 1 .. 2
  BY <1>2
<1>4. <<p.id, a>> \in Part /\ <<q.id, b>> \in Part /\ Before(<<p.id, a>>, <<q.id, b>>)
  BY <1>1, <1>2, <1>3 DEF Part, Before
<1> QED
  BY <1>4, LaterFollows

\* In the ordered sender those of any other packet may.
LEMMA OtherPartsFollow ==
    ASSUME SenderShape, sender = "ordered",
           NEW A \in SUBSET ToSet(handed), NEW B \in SUBSET ToSet(handed), A \cap B = {}
    PROVE  AllAfter(PartSet(A), PartSet(B), After)
<1> SUFFICES ASSUME NEW p \in A, NEW q \in B, NEW a \in 1 .. p.parts, NEW b \in 1 .. q.parts
             PROVE  <<q.id, b>> \in After[<<p.id, a>>]
  BY DEF AllAfter, PartSet
<1>1. p \in ToSet(handed) /\ q \in ToSet(handed) /\ p # q
  OBVIOUS
<1>2. p.id # q.id
  BY <1>1, HandedFacts
<1>3. <<p.id, a>> \in PartSet(ToSet(handed)) /\ <<q.id, b>> \in PartSet(ToSet(handed))
  BY <1>1 DEF PartSet
<1>4. <<p.id, a>> \in Part /\ <<q.id, b>> \in Part
  BY <1>3, HandedFacts
<1>5. MayFollow(<<p.id, a>>, <<q.id, b>>)
  BY <1>2 DEF MayFollow
<1> QED
  BY <1>4, <1>5 DEF After

\* Packets in order have ordered parts, whatever else may follow what.
LEMMA RisingParts ==
    ASSUME NEW ps \in Seq(Packet), Ordered(ps, ById),
           NEW R, \A x, y \in Part : Before(x, y) => y \in R[x]
    PROVE  Ordered(AllParts(ps), R)
<1> SUFFICES ASSUME NEW i \in 1 .. Len(AllParts(ps)), NEW j \in 1 .. Len(AllParts(ps)), i < j
             PROVE  AllParts(ps)[j] \in R[AllParts(ps)[i]]
  BY DEF Ordered
<1>1. PICK x \in Part, y \in Part : x = AllParts(ps)[i] /\ y = AllParts(ps)[j]
  BY AllPartsProperties, ElementOfSeq
<1>2. PICK k \in 1 .. Len(ps), l \in 1 .. Len(ps) : \E a \in 1 .. ps[k].parts, b \in 1 .. ps[l].parts :
         /\ AllParts(ps)[i] = <<ps[k].id, a>> /\ AllParts(ps)[j] = <<ps[l].id, b>>
         /\ k < l \/ (k = l /\ a < b)
  <2>1. \A g, h \in 1 .. Len(AllParts(ps)) : g < h =>
           \E k, l \in 1 .. Len(ps) : \E a \in 1 .. ps[k].parts, b \in 1 .. ps[l].parts :
              /\ AllParts(ps)[g] = <<ps[k].id, a>> /\ AllParts(ps)[h] = <<ps[l].id, b>>
              /\ k < l \/ (k = l /\ a < b)
    BY AllPartsProperties, Zenon
  <2> QED
    BY <2>1, Zenon
<1>3. PICK a \in 1 .. ps[k].parts, b \in 1 .. ps[l].parts :
         x = <<ps[k].id, a>> /\ y = <<ps[l].id, b>> /\ (k < l \/ (k = l /\ a < b))
  BY <1>1, <1>2
<1>4. Before(x, y)
  <2>1. CASE k = l
    BY <1>3, <2>1 DEF Before
  <2>2. CASE k < l
    <3>1. ps[l] \in ById[ps[k]] /\ ps[k] \in Packet
      BY <2>2, ElementOfSeq DEF Ordered
    <3>2. ps[k].id < ps[l].id
      BY <3>1 DEF ById
    <3> QED
      BY <1>3, <3>2 DEF Before
  <2> QED
    BY <1>3, <2>1, <2>2
<1> QED
  BY <1>1, <1>4

\* The parts of packets in order are in an order in which they may leave.
LEMMA QueueOrdered ==
    ASSUME NEW ps \in Seq(Packet), Ordered(ps, ById) PROVE Ordered(AllParts(ps), After)
BY RisingParts, LaterFollows

\* What waits in the senders that queue packets.
LEMMA WaitingParts ==
    ASSUME SenderShape, QueueGood, sender # "buffered"
    PROVE  /\ batch \o inbox \in Seq(Packet) /\ Waiting = AllParts(batch \o inbox)
           /\ ToSet(Waiting) = PartSet(ToSet(batch \o inbox))
           /\ Ordered(Waiting, After)
<1>1. batch \o inbox \in Seq(Packet)
  BY ConcatProperties DEF SenderShape
<1>2. Waiting = AllParts(batch \o inbox)
  BY DEF Waiting
<1>3. ToSet(Waiting) = PartSet(ToSet(batch \o inbox))
  BY <1>1, <1>2, AllPartsProperties
<1>4. Ordered(Waiting, After)
  BY <1>1, <1>2, QueueOrdered DEF QueueGood
<1> QED
  BY <1>1, <1>2, <1>3, <1>4

\* A flush of the packets in front.
LEMMA FlushFrontKeeps ==
    ASSUME SenderInv, sender \in {"binary", "optimized"},
           NEW a \in Seq(Packet), NEW b \in Seq(Packet), a \o b = batch \o inbox,
           (batch \o inbox)' = b, inbox' \in Seq(Packet), batch' \in Seq(Packet),
           SendEach(AllParts(a)), UNCHANGED <<sender, handed, rest, late, ended, now>>
    PROVE  SenderInv'
<1>1. SenderShape /\ QueueGood /\ Flow /\ sender # "buffered" /\ sender # "multi_port"
  BY DEF SenderInv
<1>2. /\ Ordered(a, ById) /\ Ordered(b, ById) /\ AllAfter(ToSet(a), ToSet(b), ById)
      /\ ToSet(a) \cup ToSet(b) = ToSet(batch \o inbox)
  <2>1. Ordered(batch \o inbox, ById)
    BY <1>1 DEF QueueGood
  <2>2. Ordered(a \o b, ById)
    BY <2>1
  <2>3. ToSet(a \o b) = ToSet(a) \cup ToSet(b)
    <3>1. \A p \in Seq(Packet), q \in Seq(Packet) : ToSet(p \o q) = ToSet(p) \cup ToSet(q)
      BY ToSetOfConcat
    <3> QED
      BY <3>1, Zenon
  <2>4. Ordered(a, ById) /\ Ordered(b, ById) /\ AllAfter(ToSet(a), ToSet(b), ById)
    BY <2>2, OrderedConcat
  <2> QED
    BY <2>3, <2>4
<1>3. QueueGood'
  BY <1>1, <1>2 DEF QueueGood
<1>4. PICK parts \in Seq(Part) : parts = AllParts(a) /\ ToSet(parts) = PartSet(ToSet(a)) /\ Ordered(parts, After)
  BY <1>2, AllPartsProperties, QueueOrdered
<1>5. /\ ToSet(Waiting) = PartSet(ToSet(a) \cup ToSet(b))
      /\ Waiting' = AllParts(b)
  <2>1. ToSet(Waiting) = PartSet(ToSet(a) \cup ToSet(b))
    BY <1>1, <1>2, WaitingParts
  <2>2. Waiting' = AllParts((batch \o inbox)')
    BY <1>1 DEF Waiting
  <2> QED
    BY <2>1, <2>2
<1>6. PICK W \in SUBSET Part : W = ToSet(Waiting)' /\ W = PartSet(ToSet(b))
  <2>1. ToSet(Waiting)' = ToSet(AllParts(b))
    BY <1>5
  <2>2. ToSet(AllParts(b)) = PartSet(ToSet(b)) /\ AllParts(b) \in Seq(Part)
    BY AllPartsProperties
  <2> QED
    BY <2>1, <2>2, ToSetType
<1>7. ToSet(Waiting) = ToSet(parts) \cup W
  BY <1>4, <1>5, <1>6 DEF PartSet
<1>8. AllAfter(ToSet(parts), W, After)
  <2>1. ToSet(a) \in SUBSET Packet /\ ToSet(b) \in SUBSET Packet
    BY ToSetType
  <2> QED
    BY <1>2, <1>4, <1>6, <2>1, PartsFollow
<1>9. Ordered(Waiting, After)'
  <2>1. Ordered(AllParts(b), After)
    BY <1>2, QueueOrdered
  <2>2. After' = After
    BY DEF After, MayFollow, CallerOf, Before
  <2> QED
    BY <1>5, <2>1, <2>2
<1>10. PICK gone \in SUBSET ToSet(parts) : Emit(0, parts, gone)
  BY <1>4 DEF SendEach
<1>11. 0 \in 0 .. Sockets - 1
  BY <1>1, HandedFacts
<1>12. out' \in [0 .. Sockets - 1 -> Seq(Part)] /\ Flow'
  <2>1. UNCHANGED <<sender, handed, rest, late>>
    OBVIOUS
  <2>2. W = ToSet(Waiting)'
    BY <1>6
  <2> QED
    BY <1>1, <1>4, <1>7, <1>8, <1>9, <1>10, <1>11, <2>1, <2>2, EmitKeeps
<1>13. SenderShape'
  BY <1>1, <1>12 DEF SenderShape
<1> QED
  BY <1>3, <1>12, <1>13 DEF SenderInv

\* A packet that changes places in the queue.
LEMMA QueueStaysKeeps ==
    ASSUME SenderInv, sender \notin {"buffered", "multi_port"}, (batch \o inbox)' = batch \o inbox,
           inbox' \in Seq(Packet), batch' \in Seq(Packet),
           UNCHANGED <<sender, handed, rest, out, dropped, late, ended, now>>
    PROVE  SenderInv'
<1>1. SenderShape /\ QueueGood /\ Flow
  BY DEF SenderInv
<1>2. SenderShape'
  BY <1>1 DEF SenderShape
<1>3. QueueGood'
  BY <1>1 DEF QueueGood
<1>4. After' = After /\ Waiting' = Waiting /\ Sent' = Sent /\ Lost' = Lost
  <2>1. After' = After
    BY DEF After, MayFollow, CallerOf, Before
  <2>2. Waiting' = Waiting
    BY DEF Waiting
  <2> QED
    BY <2>1, <2>2 DEF Sent, Lost
<1>5. Pending' = Pending
  BY <1>4 DEF Pending
<1>6. \A t \in SenderTasks : \A x \in ToSet(rest[t]) : CallerOf(x)' = t
  BY <1>1 DEF Flow, CallerOf
<1>7. Flow'
  BY <1>1, <1>4, <1>5, <1>6 DEF Flow
<1> QED
  BY <1>2, <1>3, <1>7 DEF SenderInv

\* The task of a sender takes what is next in its channel.
LEMMA ReceiveKeeps == ASSUME SenderInv, Receive PROVE SenderInv'
<1>1. /\ inbox # <<>> /\ inbox' = Tail(inbox)
      /\ UNCHANGED <<sender, handed, rest, late, closed, ended, now>>
  BY DEF Receive
<1>2. SenderShape /\ QueueGood /\ Flow
  BY DEF SenderInv
<1>3. ASSUME sender \in {"binary", "optimized", "ordered"}
      PROVE  /\ inbox \in Seq(Packet) /\ batch \in Seq(Packet) /\ Head(inbox) \in Packet
             /\ inbox' \in Seq(Packet) /\ Append(batch, Head(inbox)) \in Seq(Packet)
             /\ Append(batch, Head(inbox)) \o inbox' = batch \o inbox
  <2>1. inbox \in Seq(Packet) /\ batch \in Seq(Packet)
    BY <1>2, <1>3 DEF SenderShape
  <2>2. Head(inbox) \in Packet /\ inbox' \in Seq(Packet)
    BY <1>1, <2>1, HeadTailProperties
  <2>3. Append(batch, Head(inbox)) \in Seq(Packet)
    BY <2>1, <2>2, AppendProperties
  <2>4. Append(batch, Head(inbox)) \o inbox' = batch \o inbox
    BY <1>1, <2>1, QueueMoves
  <2> QED
    BY <2>1, <2>2, <2>3, <2>4
<1>4. ASSUME sender \in {"binary", "optimized", "ordered"}, batch' = Append(batch, Head(inbox)),
             UNCHANGED <<out, dropped>>
      PROVE  SenderInv'
  <2>1. (batch \o inbox)' = batch \o inbox /\ batch' \in Seq(Packet)
    BY <1>3, <1>4
  <2> QED
    BY <1>1, <1>3, <1>4, <2>1, QueueStaysKeeps
<1>5. ASSUME sender = "binary", flush_binary_packets(Append(batch, Head(inbox))), batch' = <<>>
      PROVE  SenderInv'
  <2> DEFINE a == Append(batch, Head(inbox))
             b == Tail(inbox)
  <2>1. a \in Seq(Packet) /\ b \in Seq(Packet) /\ a \o b = batch \o inbox
    BY <1>1, <1>3, <1>5
  <2>2. batch' \o inbox' = b
    BY <1>1, <1>5, <2>1, ConcatEmptySeq
  <2>3. (batch \o inbox)' = b /\ inbox' \in Seq(Packet) /\ batch' \in Seq(Packet)
    BY <1>1, <1>5, <2>1, <2>2
  <2>4. SendEach(AllParts(a))
    BY <1>5 DEF flush_binary_packets
  <2>5. UNCHANGED <<sender, handed, rest, late, ended, now>>
    BY <1>1
  <2> HIDE DEF a, b
  <2> QED
    BY <1>5, <2>1, <2>3, <2>4, <2>5, FlushFrontKeeps
<1>6. ASSUME sender = "buffered", SendEach(<<Head(inbox)>>), batch' = batch PROVE SenderInv'
  <2>1. inbox \in Seq(Part) /\ batch = <<>>
    BY <1>2, <1>6 DEF SenderShape
  <2>2. PICK h \in Part : h = Head(inbox)
    BY <1>1, <2>1, HeadTailProperties
  <2>3. PICK b \in Seq(Part) : b = Tail(inbox)
    BY <1>1, <2>1, HeadTailProperties
  <2>4. PICK parts \in Seq(Part) : parts = <<h>>
    <3>1. <<h>> \in Seq(Part)
      BY <2>2
    <3> QED
      BY <3>1
  <2>5. parts \o b = inbox
    BY <1>1, <2>1, <2>2, <2>3, <2>4
  <2>6. Waiting = inbox /\ Waiting' = b
    BY <1>1, <1>6, <2>3 DEF Waiting
  <2>7. Ordered(parts, After) /\ Ordered(b, After) /\ AllAfter(ToSet(parts), ToSet(b), After)
    <3>1. Ordered(parts \o b, After)
      BY <1>2, <2>5, <2>6 DEF Flow
    <3> QED
      BY <3>1, OrderedConcat
  <2>8. ToSet(Waiting) = ToSet(parts) \cup ToSet(b)
    BY <2>5, <2>6, ToSetOfConcat
  <2>9. PICK W \in SUBSET Part : W = ToSet(b)
    BY ToSetType
  <2>10. PICK gone \in SUBSET ToSet(parts) : Emit(0, parts, gone)
    BY <1>6, <2>2, <2>4 DEF SendEach
  <2>11. 0 \in 0 .. Sockets - 1
    BY <1>2, HandedFacts
  <2>12. After' = After
    BY <1>1 DEF After, MayFollow, CallerOf, Before
  <2>13. Ordered(Waiting, After)'
    BY <2>6, <2>7, <2>12
  <2>14. W = ToSet(Waiting)' /\ ToSet(Waiting) = ToSet(parts) \cup W
    BY <2>6, <2>8, <2>9
  <2>15. AllAfter(ToSet(parts), W, After) /\ Ordered(parts, After)
    BY <2>7, <2>9
  <2>16. sender # "multi_port" /\ UNCHANGED <<sender, handed, rest, late>>
    BY <1>1, <1>6
  <2>17. out' \in [0 .. Sockets - 1 -> Seq(Part)] /\ Flow'
    BY <1>2, <2>10, <2>11, <2>13, <2>14, <2>15, <2>16, EmitKeeps
  <2>18. SenderShape'
    BY <1>1, <1>2, <1>6, <2>1, <2>3, <2>17 DEF SenderShape
  <2>19. QueueGood'
    BY <1>1, <1>6 DEF QueueGood
  <2> QED
    BY <2>17, <2>18, <2>19 DEF SenderInv
<1> QED
  BY <1>4, <1>5, <1>6 DEF Receive

\* run_sender of the binary sender: its timeout flushes the batch.
LEMMA BinaryTimeoutKeeps == ASSUME SenderInv, BinaryTimeout PROVE SenderInv'
<1>1. /\ sender = "binary" /\ inbox = <<>> /\ flush_binary_packets(batch) /\ batch' = <<>>
      /\ UNCHANGED <<sender, handed, rest, inbox, late, closed, ended, now>>
  BY DEF BinaryTimeout
<1>2. batch \in Seq(Packet) /\ inbox \in Seq(Packet)
  BY <1>1 DEF SenderInv, SenderShape
<1>3. PICK a \in Seq(Packet), b \in Seq(Packet) : a = batch /\ b = inbox
  BY <1>2
<1>4. (batch \o inbox)' = b /\ inbox' \in Seq(Packet) /\ batch' \in Seq(Packet) /\ a \o b = batch \o inbox
  BY <1>1, <1>2, <1>3, ConcatEmptySeq
<1>5. SendEach(AllParts(a)) /\ UNCHANGED <<sender, handed, rest, late, ended, now>> /\ sender \in {"binary", "optimized"}
  BY <1>1, <1>3 DEF flush_binary_packets
<1> QED
  BY <1>4, <1>5, FlushFrontKeeps

\* The optimized sender flushes its batch.
LEMMA OptimizedFlushKeeps == ASSUME SenderInv, OptimizedFlush PROVE SenderInv'
<1>1. /\ sender = "optimized" /\ batch' = <<>>
      /\ UNCHANGED <<sender, handed, rest, late, closed, ended, now>>
  BY DEF OptimizedFlush
<1>2. batch \in Seq(Packet) /\ inbox \in Seq(Packet)
  BY <1>1 DEF SenderInv, SenderShape
<1>3. sender \in {"binary", "optimized"} /\ UNCHANGED <<sender, handed, rest, late, ended, now>>
  BY <1>1
<1>4. ASSUME inbox = <<>>, flush_packets(batch), inbox' = inbox PROVE SenderInv'
  <2>1. PICK a \in Seq(Packet), b \in Seq(Packet) : a = batch /\ b = inbox
    BY <1>2
  <2>2. (batch \o inbox)' = b /\ inbox' \in Seq(Packet) /\ batch' \in Seq(Packet) /\ a \o b = batch \o inbox
    BY <1>1, <1>2, <1>4, <2>1, ConcatEmptySeq
  <2>3. SendEach(AllParts(a))
    BY <1>4, <2>1 DEF flush_packets
  <2> QED
    BY <1>3, <2>2, <2>3, FlushFrontKeeps
<1>5. ASSUME inbox # <<>>, flush_packets(Append(batch, Head(inbox))), inbox' = Tail(inbox) PROVE SenderInv'
  <2>1. Head(inbox) \in Packet /\ Tail(inbox) \in Seq(Packet)
    BY <1>2, <1>5, HeadTailProperties
  <2>2. Append(batch, Head(inbox)) \in Seq(Packet)
    BY <1>2, <2>1, AppendProperties
  <2>3. PICK a \in Seq(Packet), b \in Seq(Packet) : a = Append(batch, Head(inbox)) /\ b = Tail(inbox)
    BY <2>1, <2>2
  <2>4. a \o b = batch \o inbox
    BY <1>2, <1>5, <2>3, QueueMoves
  <2>5. (batch \o inbox)' = b /\ inbox' \in Seq(Packet) /\ batch' \in Seq(Packet)
    BY <1>1, <1>5, <2>3, ConcatEmptySeq
  <2>6. SendEach(AllParts(a))
    BY <1>5, <2>3 DEF flush_packets
  <2> QED
    BY <1>3, <2>4, <2>5, <2>6, FlushFrontKeeps
<1> QED
  BY <1>4, <1>5 DEF OptimizedFlush

--------------------------------------------------------------------------------
(* A packet is handed over.                                                *)

\* What may follow an earlier part does not change, and the new parts may follow all.
LEMMA NewPacket ==
    ASSUME SenderShape, NEW p \in Packet, p.id = Len(handed) + 1,
           handed' = Append(handed, p), sender' = sender
    PROVE  LET O == PartSet(ToSet(handed))
               N == PartSet({p}) IN
           /\ handed' \in Seq(Packet) /\ \A i \in 1 .. Len(handed') : handed'[i].id = i
           /\ ToSet(handed') = ToSet(handed) \cup {p} /\ PartSet(ToSet(handed')) = O \cup N
           /\ O \cap N = {} /\ O \in SUBSET Part /\ N \in SUBSET Part
           /\ \A x, y \in O : y \in After[x] <=> y \in After'[x]
           /\ AllAfter(O, N, After')
           /\ \A x \in O : handed'[x[1]] = handed[x[1]]
           /\ \A x \in N : handed'[x[1]] = p
           /\ AllAfter(ToSet(handed), {p}, ById)
<1> DEFINE O == PartSet(ToSet(handed))
           N == PartSet({p})
<1>1. PICK n \in Nat : n = Len(handed)
  BY HandedFacts
<1>2. handed \in Seq(Packet) /\ \A i \in 1 .. n : handed[i].id = i
  BY <1>1 DEF SenderShape
<1>3. PICK h : h = handed'
  OBVIOUS
<1>4. h \in Seq(Packet) /\ Len(h) = n + 1 /\ h[n + 1] = p /\ \A i \in 1 .. n : h[i] = handed[i]
  BY <1>1, <1>2, <1>3, AppendProperties
<1>5. \A i \in 1 .. n + 1 : h[i].id = i
  <2> TAKE i \in 1 .. n + 1
  <2>1. i \in 1 .. n \/ i = n + 1
    OBVIOUS
  <2> QED
    BY <1>1, <1>2, <1>4, <2>1
<1>6. ToSet(h) = ToSet(handed) \cup {p}
  BY <1>2, <1>3, ToSetOfAppend
<1>7. PartSet(ToSet(h)) = O \cup N
  BY <1>6 DEF PartSet
<1>8. O \subseteq Part /\ \A x \in O : x[1] \in 1 .. n
  BY <1>1, HandedFacts
<1>9. \A x \in N : x \in Part /\ x[1] = n + 1
  <2> TAKE x \in N
  <2>1. PICK k \in 1 .. p.parts : x = <<p.id, k>>
    BY DEF PartSet
  <2>2. p.parts \in 1 .. 2
    BY DEF Packet
  <2>3. k \in 1 .. 2 /\ p.id = n + 1
    BY <1>1, <2>2
  <2> QED
    BY <2>1, <2>3 DEF Part
<1>10. O \cap N = {}
  <2> SUFFICES ASSUME NEW x \in O, x \in N PROVE FALSE
    OBVIOUS
  <2>1. x[1] \in 1 .. n
    BY <1>8
  <2>2. x[1] = n + 1
    BY <1>9
  <2> QED
    BY <2>1, <2>2
<1>11. \A x \in O : h[x[1]] = handed[x[1]]
  BY <1>4, <1>8
<1>12. \A x \in N : h[x[1]] = p
  BY <1>4, <1>9
<1>13. \A x, y \in O : y \in After[x] <=> y \in After'[x]
  <2> TAKE x \in O, y \in O
  <2>1. CallerOf(x)' = CallerOf(x) /\ CallerOf(y)' = CallerOf(y)
    BY <1>3, <1>11 DEF CallerOf
  <2>2. MayFollow(x, y)' <=> MayFollow(x, y)
    BY <2>1 DEF MayFollow, Before
  <2>3. x \in Part /\ y \in Part
    BY <1>8
  <2> QED
    BY <2>2, <2>3 DEF After
<1>14. AllAfter(O, N, After')
  <2> SUFFICES ASSUME NEW x \in O, NEW y \in N PROVE y \in After'[x]
    BY DEF AllAfter
  <2>1. x \in Part /\ x[1] \in 1 .. n
    BY <1>8
  <2>2. y \in Part /\ y[1] = n + 1
    BY <1>9
  <2>3. x[1] < y[1]
    BY <2>1, <2>2
  <2>4. Before(x, y)
    BY <2>3 DEF Before
  <2>5. x # y
    BY <2>1, <2>2
  <2>6. MayFollow(x, y)'
    BY <2>4, <2>5 DEF MayFollow, Before
  <2> QED
    BY <2>1, <2>2, <2>6 DEF After
<1>15. AllAfter(ToSet(handed), {p}, ById)
  <2> SUFFICES ASSUME NEW q \in ToSet(handed) PROVE p \in ById[q]
    BY DEF AllAfter
  <2>1. q \in Packet /\ q.id \in 1 .. n
    BY <1>1, HandedFacts
  <2> QED
    BY <1>1, <2>1 DEF ById
<1> QED
  BY <1>3, <1>4, <1>5, <1>6, <1>7, <1>8, <1>9, <1>10, <1>11, <1>12, <1>13, <1>14, <1>15

\* What holds of earlier parts goes on holding.
LEMMA OldOrder ==
    ASSUME NEW O \in SUBSET Part, NEW Q, NEW R, \A x, y \in O : y \in Q[x] <=> y \in R[x]
    PROVE  /\ \A s \in Seq(Part) : ToSet(s) \subseteq O /\ Ordered(s, Q) => Ordered(s, R)
           /\ \A A, B \in SUBSET O : AllAfter(A, B, Q) => AllAfter(A, B, R)
<1>1. ASSUME NEW s \in Seq(Part), ToSet(s) \subseteq O, Ordered(s, Q) PROVE Ordered(s, R)
  <2>1. DOMAIN s = 1 .. Len(s)
    BY LenProperties
  <2>2. \A i \in 1 .. Len(s) : s[i] \in O
    BY <1>1, <2>1 DEF ToSet
  <2> QED
    BY <1>1, <2>2 DEF Ordered
<1>2. \A A, B \in SUBSET O : AllAfter(A, B, Q) => AllAfter(A, B, R)
  BY DEF AllAfter
<1> QED
  BY <1>1, <1>2

\* The parts of one packet.
LEMMA PartsOfProperties ==
    ASSUME NEW p \in Packet, NEW R, \A x, y \in Part : Before(x, y) => y \in R[x]
    PROVE  PartsOf(p) \in Seq(Part) /\ ToSet(PartsOf(p)) = PartSet({p}) /\ Ordered(PartsOf(p), R)
<1>1. p.parts \in Nat /\ p.id \in Nat /\ p.parts \in 1 .. 2
  BY DEF Packet
<1>2. PICK q : q = [k \in 1 .. p.parts |-> <<p.id, k>>]
  OBVIOUS
<1>3. q = PartsOf(p)
  BY <1>2 DEF PartsOf
<1>4. \A k \in 1 .. p.parts : <<p.id, k>> \in Part
  BY <1>1 DEF Part
<1>5. q \in Seq(Part) /\ Len(q) = p.parts /\ DOMAIN q = 1 .. p.parts
  <2>1. q \in [1 .. p.parts -> Part]
    BY <1>2, <1>4
  <2> QED
    BY <1>1, <1>2, <2>1, IsASeq, LenProperties
<1>6. ToSet(q) = PartSet({p})
  <2>1. \A k \in 1 .. p.parts : q[k] = <<p.id, k>>
    BY <1>2
  <2>2. ToSet(q) = {<<p.id, k>> : k \in 1 .. p.parts}
    BY <1>5, <2>1 DEF ToSet
  <2> QED
    BY <2>2 DEF PartSet
<1>7. Ordered(q, R)
  <2> SUFFICES ASSUME NEW i \in 1 .. p.parts, NEW j \in 1 .. p.parts, i < j PROVE q[j] \in R[q[i]]
    BY <1>5 DEF Ordered
  <2>1. q[i] = <<p.id, i>> /\ q[j] = <<p.id, j>> /\ q[i] \in Part /\ q[j] \in Part
    BY <1>2, <1>4
  <2>2. Before(q[i], q[j])
    BY <2>1 DEF Before
  <2> QED
    BY <2>1, <2>2
<1> QED
  BY <1>3, <1>5, <1>6, <1>7

\* A caller hands a packet over: it goes to the queue, or its parts are left to the task.
LEMMA HandKeeps ==
    ASSUME SenderInv, NEW t \in SenderTasks, NEW symbol \in Nat, NEW parts \in 1 .. 2, NEW ts \in Nat,
           Hand(t, symbol, parts, ts)
    PROVE  SenderInv'
<1> DEFINE Ports == 0 .. Sockets - 1
<1>0. PICK R : R = After'
  OBVIOUS
<1>1. SenderShape /\ QueueGood /\ Flow
  BY DEF SenderInv
<1>2. /\ UNCHANGED <<sender, batch, out, dropped, late, closed, ended, now>>
      /\ rest[t] = <<>>
  BY DEF Hand
<1>3. PICK p \in Packet :
        /\ p.id = Len(handed) + 1 /\ p.task = t /\ handed' = Append(handed, p)
        /\ IF sender \in {"buffered", "multi_port"}
             THEN rest' = [rest EXCEPT ![t] = PartsOf(p)] /\ inbox' = inbox
             ELSE inbox' = Append(inbox, p) /\ rest' = rest
  <2> DEFINE p == [id |-> Len(handed) + 1, task |-> t, symbol |-> symbol, parts |-> parts, ts |-> ts, at |-> now]
  <2>1. Len(handed) + 1 \in Nat /\ now \in Nat
    BY <1>1, HandedFacts DEF SenderShape
  <2>2. p \in Packet
    BY <2>1 DEF Packet
  <2>3. /\ p.id = Len(handed) + 1 /\ p.task = t /\ handed' = Append(handed, p)
        /\ IF sender \in {"buffered", "multi_port"}
             THEN rest' = [rest EXCEPT ![t] = PartsOf(p)] /\ inbox' = inbox
             ELSE inbox' = Append(inbox, p) /\ rest' = rest
    BY DEF Hand
  <2> HIDE DEF p
  <2> QED
    BY <2>2, <2>3
<1>4. PICK O \in SUBSET Part, N \in SUBSET Part :
        /\ O = PartSet(ToSet(handed)) /\ N = PartSet({p}) /\ R = After'
        /\ handed' \in Seq(Packet) /\ \A i \in 1 .. Len(handed') : handed'[i].id = i
        /\ ToSet(handed') = ToSet(handed) \cup {p} /\ PartSet(ToSet(handed')) = O \cup N
        /\ O \cap N = {}
        /\ \A x, y \in O : y \in After[x] <=> y \in R[x]
        /\ AllAfter(O, N, R)
        /\ \A x \in O : handed'[x[1]] = handed[x[1]]
        /\ \A x \in N : handed'[x[1]] = p
        /\ AllAfter(ToSet(handed), {p}, ById)
  <2>1. sender' = sender
    BY <1>2
  <2> QED
    BY <1>0, <1>1, <1>3, <2>1, NewPacket
<1>5. \A x, y \in Part : Before(x, y) => y \in R[x]
  <2> SUFFICES ASSUME NEW x \in Part, NEW y \in Part, Before(x, y) PROVE y \in After'[x]
    BY <1>4
  <2>1. x # y
    BY DEF Before, Part
  <2>2. MayFollow(x, y)'
    BY <2>1 DEF MayFollow, Before
  <2> QED
    BY <2>2 DEF After
<1>6. PICK w \in Seq(Part) : w = Waiting
  <2>1. CASE sender = "buffered"
    BY <1>1, <2>1 DEF Waiting, SenderShape
  <2>2. CASE sender # "buffered"
    BY <1>1, <2>2, WaitingParts, AllPartsProperties
  <2> QED
    BY <2>1, <2>2
<1>7. /\ Sent \cup Pending = O \ Lost /\ Lost \subseteq O
      /\ Ordered(w, After)
      /\ \A s \in Ports : Ordered(out[s], After) /\ AllAfter(ToSet(out[s]), ToSet(w), After)
      /\ \A u \in SenderTasks :
           /\ Ordered(rest[u], After) /\ AllAfter(ToSet(w), ToSet(rest[u]), After)
           /\ \A x \in ToSet(rest[u]) : CallerOf(x) = u
           /\ \A s \in Ports : AllAfter(ToSet(out[s]), ToSet(rest[u]), After)
  BY <1>1, <1>4, <1>6 DEF Flow
<1>8. /\ ToSet(w) \in SUBSET O
      /\ \A s \in Ports : out[s] \in Seq(Part) /\ ToSet(out[s]) \in SUBSET O
      /\ \A u \in SenderTasks : rest[u] \in Seq(Part) /\ ToSet(rest[u]) \in SUBSET O
  <2>1. out \in [Ports -> Seq(Part)] /\ rest \in [SenderTasks -> Seq(Part)]
    BY <1>1 DEF SenderShape
  <2>2. Sent \subseteq O /\ Pending \subseteq O
    BY <1>7
  <2>3. \A s \in Ports : ToSet(out[s]) \subseteq Sent
    BY <2>1 DEF Sent
  <2>4. ToSet(w) \subseteq Pending /\ \A u \in SenderTasks : ToSet(rest[u]) \subseteq Pending
    BY <1>6 DEF Pending
  <2> QED
    BY <2>1, <2>2, <2>3, <2>4
<1>9. /\ Ordered(w, R)
      /\ \A s \in Ports : Ordered(out[s], R) /\ AllAfter(ToSet(out[s]), ToSet(w), R)
      /\ \A u \in SenderTasks :
           /\ Ordered(rest[u], R) /\ AllAfter(ToSet(w), ToSet(rest[u]), R)
           /\ \A s \in Ports : AllAfter(ToSet(out[s]), ToSet(rest[u]), R)
  <2>1. /\ \A s \in Seq(Part) : ToSet(s) \subseteq O /\ Ordered(s, After) => Ordered(s, R)
        /\ \A A, B \in SUBSET O : AllAfter(A, B, After) => AllAfter(A, B, R)
    BY <1>4, OldOrder
  <2> QED
    BY <1>7, <1>8, <2>1
<1>10. /\ AllAfter(ToSet(w), N, R) /\ \A s \in Ports : AllAfter(ToSet(out[s]), N, R)
  BY <1>4, <1>8 DEF AllAfter
<1>11. Sent' = Sent /\ Lost' = Lost
  BY <1>2 DEF Sent, Lost
<1>12. Sent \cup Pending \cup N = (O \cup N) \ Lost /\ Lost \subseteq O \cup N
  BY <1>4, <1>7
<1>13. \A u \in SenderTasks : \A x \in ToSet(rest[u]) : CallerOf(x)' = u
  <2> TAKE u \in SenderTasks
  <2> TAKE x \in ToSet(rest[u])
  <2>1. x \in O /\ CallerOf(x) = u
    BY <1>7, <1>8
  <2>2. handed'[x[1]] = handed[x[1]]
    BY <1>4, <2>1
  <2> QED
    BY <2>1, <2>2 DEF CallerOf
<1>14. sender = "multi_port" =>
         \A s \in Ports : \A x \in ToSet(out[s]) : select_socket(handed'[x[1]].symbol) = s
  <2> SUFFICES ASSUME sender = "multi_port", NEW s \in Ports, NEW x \in ToSet(out[s])
               PROVE  select_socket(handed'[x[1]].symbol) = s
    OBVIOUS
  <2>1. select_socket(handed[x[1]].symbol) = s
    BY <1>1 DEF Flow
  <2>2. x \in O
    BY <1>8
  <2>3. handed'[x[1]] = handed[x[1]]
    BY <1>4, <2>2
  <2> QED
    BY <2>1, <2>3
<1>15. CASE sender \notin {"buffered", "multi_port"}
  <2>1. /\ inbox' = Append(inbox, p) /\ rest' = rest
        /\ inbox \in Seq(Packet) /\ batch \in Seq(Packet) /\ \A u \in SenderTasks : rest[u] = <<>>
    BY <1>1, <1>3, <1>15 DEF SenderShape
  <2>2. PICK q \in Seq(Packet) : q = batch \o inbox
    BY <2>1, ConcatProperties
  <2>3. PICK r \in Seq(Packet) : r = Append(q, p) /\ r = q \o <<p>> /\ ToSet(r) = ToSet(q) \cup {p}
    <3>1. Append(q, p) \in Seq(Packet)
      BY AppendProperties
    <3>2. Append(q, p) = q \o <<p>>
      BY AppendIsConcat
    <3>3. ToSet(Append(q, p)) = ToSet(q) \cup {p}
      BY ToSetOfAppend
    <3> QED
      BY <3>1, <3>2, <3>3
  <2>4. (batch \o inbox)' = r
    <3>1. batch \o Append(inbox, p) = Append(batch \o inbox, p)
      BY <2>1, AppendToConcat
    <3> QED
      BY <1>2, <2>1, <2>2, <2>3, <3>1
  <2>5. inbox' \in Seq(Packet)
    BY <2>1, AppendProperties
  <2>6. Ordered(q, ById) /\ ToSet(q) \subseteq ToSet(handed)
    BY <1>1, <1>15, <2>2 DEF QueueGood
  <2>7. Ordered(r, ById)
    <3>1. PICK f \in Seq(Packet) : f = <<p>> /\ ToSet(f) = {p} /\ Ordered(f, ById)
      BY OneElement
    <3>2. AllAfter(ToSet(q), ToSet(f), ById)
      BY <1>4, <2>6, <3>1 DEF AllAfter
    <3>3. Ordered(q \o f, ById)
      BY <2>6, <3>1, <3>2, OrderedConcat
    <3> QED
      BY <2>3, <3>1, <3>3
  <2>8. QueueGood'
    <3>1. ToSet(r) \subseteq ToSet(handed')
      BY <1>4, <2>3, <2>6
    <3> QED
      BY <2>4, <2>7, <3>1 DEF QueueGood
  <2>9. w = AllParts(q) /\ Waiting' = AllParts(r)
    BY <1>2, <1>6, <1>15, <2>2, <2>4 DEF Waiting
  <2>10. PICK v \in Seq(Part) : v = Waiting' /\ ToSet(v) = ToSet(w) \cup N /\ Ordered(v, R)
    <3>1. ToSet(AllParts(q)) = PartSet(ToSet(q)) /\ ToSet(AllParts(r)) = PartSet(ToSet(r))
      BY AllPartsProperties
    <3>2. PartSet(ToSet(r)) = PartSet(ToSet(q)) \cup N
      <4>1. \A P, X : PartSet(P \cup X) = PartSet(P) \cup PartSet(X)
        BY DEF PartSet
      <4>2. N = PartSet({p}) /\ ToSet(r) = ToSet(q) \cup {p}
        BY <1>4, <2>3
      <4> QED
        BY <4>1, <4>2, Zenon
    <3>3. Ordered(AllParts(r), R)
      BY <1>5, <2>7, RisingParts
    <3>4. AllParts(r) \in Seq(Part)
      BY AllPartsProperties
    <3> QED
      BY <2>9, <3>1, <3>2, <3>3, <3>4
  <2>11. \A s \in Ports : AllAfter(ToSet(out[s]), ToSet(v), R)
    BY <1>9, <1>10, <2>10 DEF AllAfter
  <2>12. Pending' = Pending \cup N
    <3>1. Pending' = ToSet(v) \cup UNION {ToSet(rest[u]) : u \in SenderTasks}
      BY <2>1, <2>10 DEF Pending
    <3>2. Pending = ToSet(w) \cup UNION {ToSet(rest[u]) : u \in SenderTasks}
      BY <1>6 DEF Pending
    <3> QED
      BY <2>10, <3>1, <3>2
  <2>13. \A u \in SenderTasks : AllAfter(ToSet(v), ToSet(rest[u]), R)
    <3>1. ToSet(<<>>) = {}
      BY DEF ToSet
    <3> QED
      BY <2>1, <3>1 DEF AllAfter
  <2>14. Flow'
    <3>1. Sent' \cup Pending' = PartSet(ToSet(handed))' \ Lost' /\ Lost' \subseteq PartSet(ToSet(handed))'
      BY <1>4, <1>11, <1>12, <2>12
    <3> QED
      BY <1>2, <1>4, <1>9, <1>13, <1>15, <2>1, <2>10, <2>11, <2>13, <3>1 DEF Flow
  <2>15. SenderShape'
    BY <1>1, <1>2, <1>4, <1>15, <2>1, <2>5 DEF SenderShape
  <2> QED
    BY <2>8, <2>14, <2>15 DEF SenderInv
<1>16. CASE sender \in {"buffered", "multi_port"}
  <2>1. rest' = [rest EXCEPT ![t] = PartsOf(p)] /\ inbox' = inbox /\ rest \in [SenderTasks -> Seq(Part)]
    BY <1>1, <1>3, <1>16 DEF SenderShape
  <2>2. PICK c \in Seq(Part) : c = PartsOf(p) /\ ToSet(c) = N /\ Ordered(c, R)
    BY <1>4, <1>5, PartsOfProperties
  <2>3. /\ rest' \in [SenderTasks -> Seq(Part)] /\ rest'[t] = c
        /\ \A u \in SenderTasks \ {t} : rest'[u] = rest[u]
    BY <2>1, <2>2
  <2>4. Waiting' = w
    BY <1>2, <1>6, <2>1 DEF Waiting
  <2>5. QueueGood'
    BY <1>1, <1>2, <1>4, <2>1 DEF QueueGood
  <2>6. \A u \in SenderTasks :
          /\ Ordered(rest'[u], R) /\ AllAfter(ToSet(w), ToSet(rest'[u]), R)
          /\ \A x \in ToSet(rest'[u]) : CallerOf(x)' = u
          /\ \A s \in Ports : AllAfter(ToSet(out[s]), ToSet(rest'[u]), R)
    <3> TAKE u \in SenderTasks
    <3>1. CASE u = t
      <4>1. \A x \in N : CallerOf(x)' = t
        BY <1>3, <1>4 DEF CallerOf
      <4> QED
        BY <1>10, <2>2, <2>3, <3>1, <4>1
    <3>2. CASE u # t
      <4>1. rest'[u] = rest[u]
        BY <2>3, <3>2
      <4> QED
        BY <1>9, <1>13, <4>1
    <3> QED
      BY <3>1, <3>2
  <2>7. Pending' = Pending \cup N
    <3> DEFINE Old == UNION {ToSet(rest[u]) : u \in SenderTasks}
               New == UNION {ToSet(rest'[u]) : u \in SenderTasks}
    <3>1. Pending' = ToSet(w) \cup New /\ Pending = ToSet(w) \cup Old
      BY <1>6, <2>4 DEF Pending
    <3>2. ToSet(rest[t]) = {}
      BY <1>2 DEF ToSet
    <3>3. \A u \in SenderTasks : ToSet(rest'[u]) = ToSet(rest[u]) \cup (IF u = t THEN N ELSE {})
      BY <2>2, <2>3, <3>2
    <3>4. New = Old \cup N
      BY <3>3
    <3> QED
      BY <3>1, <3>4
  <2>8. Flow'
    <3>1. Sent' \cup Pending' = PartSet(ToSet(handed))' \ Lost' /\ Lost' \subseteq PartSet(ToSet(handed))'
      BY <1>4, <1>11, <1>12, <2>7
    <3>2. \A s \in Ports : Ordered(out'[s], R) /\ AllAfter(ToSet(out'[s]), ToSet(w), R)
      BY <1>2, <1>9
    <3>3. \A u \in SenderTasks : \A s \in Ports : AllAfter(ToSet(out'[s]), ToSet(rest'[u]), R)
      BY <1>2, <2>6
    <3>4. sender' = "multi_port" =>
            \A s \in Ports : \A x \in ToSet(out'[s]) : select_socket(handed'[x[1]].symbol) = s
      BY <1>2, <1>14
    <3> QED
      BY <1>4, <1>9, <2>4, <2>6, <3>1, <3>2, <3>3, <3>4 DEF Flow
  <2>9. SenderShape'
    BY <1>1, <1>2, <1>4, <1>16, <2>1, <2>3 DEF SenderShape
  <2> QED
    BY <2>5, <2>8, <2>9 DEF SenderInv
<1> QED
  BY <1>15, <1>16

\* What a tick takes: packets that wait, each once, later timestamps first.
LEMMA PoppedPackets ==
    ASSUME SenderShape, QueueGood, sender = "ordered", NEW ps \in Popped
    PROVE  /\ Ready \subseteq ToSet(batch) /\ Ready \subseteq Packet
           /\ \E n \in Nat :
                /\ ps \in Seq(Packet) /\ Len(ps) = n /\ ToSet(ps) = Ready
                /\ \A k \in 1 .. n : ps[k] \in ToSet(handed)
                /\ \A k, l \in 1 .. n : k < l => Newest(ps[k], ps[l]) /\ ps[k].id # ps[l].id
<1>1. batch \in Seq(Packet) /\ inbox \in Seq(Packet)
  BY DEF SenderShape
<1>2. PICK B \in SUBSET Packet : B = Ready /\ B \subseteq ToSet(batch)
  <2>1. Ready \subseteq ToSet(batch)
    BY DEF Ready
  <2>2. ToSet(batch) \subseteq Packet
    BY <1>1, ToSetType
  <2> QED
    BY <2>1, <2>2
<1>3. B \subseteq ToSet(handed)
  <2>1. ToSet(batch \o inbox) = ToSet(batch) \cup ToSet(inbox)
    BY <1>1, ToSetOfConcat
  <2> QED
    BY <1>2, <2>1 DEF QueueGood
<1>4. PICK n \in Nat : ps \in [1 .. n -> B]
  <2>1. ps \in [1 .. Cardinality(B) -> B]
    BY <1>2 DEF Popped
  <2>2. IsFiniteSet(B) /\ Cardinality(B) \in Nat
    <3>1. IsFiniteSet(ToSet(batch))
      BY <1>1, ToSetFinite
    <3> QED
      BY <1>2, <3>1, FS_Subset, FS_CardinalityType
  <2> QED
    BY <2>1, <2>2
<1>5. ToSet(ps) = B /\ \A i, j \in DOMAIN ps : i < j => Newest(ps[i], ps[j])
  BY <1>2 DEF Popped
<1>6. ps \in Seq(Packet) /\ Len(ps) = n /\ DOMAIN ps = 1 .. n
  <2>1. ps \in [1 .. n -> Packet]
    BY <1>4
  <2> QED
    BY <2>1, IsASeq, LenProperties
<1>7. \A k, l \in 1 .. n : k < l => Newest(ps[k], ps[l]) /\ ps[k].id # ps[l].id
  <2> SUFFICES ASSUME NEW k \in 1 .. n, NEW l \in 1 .. n, k < l PROVE Newest(ps[k], ps[l]) /\ ps[k].id # ps[l].id
    OBVIOUS
  <2>1. Newest(ps[k], ps[l])
    BY <1>5, <1>6
  <2>2. ps[k] \in ToSet(handed) /\ ps[l] \in ToSet(handed) /\ ps[k] \in Packet /\ ps[l] \in Packet
    BY <1>3, <1>4
  <2>3. ASSUME ps[k].id = ps[l].id PROVE FALSE
    <3>1. ps[k] = ps[l]
      BY <2>2, <2>3, HandedFacts
    <3>2. ps[k].ts \in Nat /\ ps[k].id \in Nat
      BY <2>2 DEF Packet
    <3> QED
      BY <2>1, <3>1, <3>2 DEF Newest
  <2> QED
    BY <2>1, <2>3
<1>8. \A k \in 1 .. n : ps[k] \in ToSet(handed)
  BY <1>3, <1>4
<1> QED
  BY <1>2, <1>5, <1>6, <1>7, <1>8

\* A tick of the ordered sender sends some of its packets, in any order.
LEMMA OrderedFlushKeeps == ASSUME SenderInv, OrderedFlush PROVE SenderInv'
<1>1. SenderShape /\ QueueGood /\ Flow
  BY DEF SenderInv
<1>2. /\ sender = "ordered" /\ batch' = Without(batch, Ready)
      /\ UNCHANGED <<sender, handed, rest, inbox, late, closed, ended, now>>
  BY DEF OrderedFlush
<1>3. PICK ps \in Popped : \E gone \in SUBSET ToSet(AllParts(ps)) : Emit(0, AllParts(ps), gone)
  <2>1. PICK ps \in Popped : \E missed \in SUBSET ToSet(AllParts(ps)) :
           Emit(0, AllParts(ps), ordered_send_packet(AllParts(ps), missed))
    BY DEF OrderedFlush
  <2>2. PICK missed \in SUBSET ToSet(AllParts(ps)) :
           Emit(0, AllParts(ps), ordered_send_packet(AllParts(ps), missed))
    BY <2>1
  <2>3. ordered_send_packet(AllParts(ps), missed) \in SUBSET ToSet(AllParts(ps))
    BY DEF ordered_send_packet
  <2> QED
    BY <2>2, <2>3
<1>4. batch \in Seq(Packet) /\ inbox \in Seq(Packet) /\ \A u \in SenderTasks : rest[u] = <<>>
  BY <1>1, <1>2 DEF SenderShape
<1>5. PICK B \in SUBSET Packet : B = Ready /\ B \subseteq ToSet(batch)
  <2>1. Ready \subseteq ToSet(batch)
    BY DEF Ready
  <2>2. ToSet(batch) \subseteq Packet
    BY <1>4, ToSetType
  <2> QED
    BY <2>1, <2>2
<1>6. PICK q \in Seq(Packet) : q = Without(batch, B) /\ ToSet(q) = ToSet(batch) \ B
  BY <1>4, WithoutProperties
<1>7. /\ q \o inbox \in Seq(Packet) /\ ToSet(q \o inbox) = ToSet(q) \cup ToSet(inbox)
      /\ ToSet(batch \o inbox) = ToSet(batch) \cup ToSet(inbox)
  BY <1>4, ConcatProperties, ToSetOfConcat
<1>8. /\ Ordered(batch, ById) /\ Ordered(inbox, ById) /\ AllAfter(ToSet(batch), ToSet(inbox), ById)
      /\ ToSet(batch \o inbox) \subseteq ToSet(handed)
  <2>1. Ordered(batch \o inbox, ById) /\ ToSet(batch \o inbox) \subseteq ToSet(handed)
    BY <1>1, <1>2 DEF QueueGood
  <2> QED
    BY <1>4, <2>1, OrderedConcat
<1>9. Ordered(q \o inbox, ById)
  <2>1. Ordered(q, ById)
    BY <1>4, <1>6, <1>8, WithoutOrdered
  <2>2. AllAfter(ToSet(q), ToSet(inbox), ById)
    BY <1>6, <1>8 DEF AllAfter
  <2> QED
    BY <1>4, <1>8, <2>1, <2>2, OrderedConcat
<1>10. (batch \o inbox)' = q \o inbox /\ batch' \in Seq(Packet)
  BY <1>2, <1>5, <1>6
<1>11. QueueGood'
  <2>1. ToSet(q \o inbox) \subseteq ToSet(handed)
    BY <1>6, <1>7, <1>8
  <2> QED
    BY <1>2, <1>9, <1>10, <2>1 DEF QueueGood
<1>12. PICK n \in Nat : /\ ps \in Seq(Packet) /\ Len(ps) = n /\ ToSet(ps) = B
                        /\ \A k, l \in 1 .. n : k < l => ps[k].id # ps[l].id
  BY <1>1, <1>2, <1>5, PoppedPackets
<1>13. PICK parts \in Seq(Part) : parts = AllParts(ps) /\ ToSet(parts) = PartSet(B) /\ Ordered(parts, After)
  <2>1. Ordered(AllParts(ps), After)
    BY <1>2, <1>12, PartsOrdered
  <2> QED
    BY <1>12, <2>1, AllPartsProperties
<1>14. PICK W \in SUBSET Part : W = ToSet(Waiting)' /\ W = PartSet(ToSet(q \o inbox))
  <2>1. Waiting' = AllParts(q \o inbox)
    BY <1>2, <1>10 DEF Waiting
  <2>2. ToSet(AllParts(q \o inbox)) = PartSet(ToSet(q \o inbox)) /\ AllParts(q \o inbox) \in Seq(Part)
    BY <1>7, AllPartsProperties
  <2> QED
    BY <2>1, <2>2, ToSetType
<1>15. ToSet(Waiting) = ToSet(parts) \cup W
  <2>1. ToSet(Waiting) = PartSet(ToSet(batch \o inbox))
    BY <1>1, <1>2, WaitingParts
  <2>2. ToSet(batch \o inbox) = B \cup ToSet(q \o inbox)
    BY <1>5, <1>6, <1>7
  <2> QED
    BY <1>13, <1>14, <2>1, <2>2 DEF PartSet
<1>16. AllAfter(ToSet(parts), W, After)
  <2>1. B \cap ToSet(q \o inbox) = {}
    <3>1. B \cap ToSet(q) = {}
      BY <1>6
    <3>2. B \cap ToSet(inbox) = {}
      <4> SUFFICES ASSUME NEW x \in B, x \in ToSet(inbox) PROVE FALSE
        OBVIOUS
      <4>1. x \in ById[x] /\ x \in Packet
        BY <1>5, <1>8 DEF AllAfter
      <4> QED
        BY <4>1 DEF ById, Packet
    <3> QED
      BY <1>7, <3>1, <3>2
  <2>2. B \subseteq ToSet(handed) /\ ToSet(q \o inbox) \subseteq ToSet(handed)
    BY <1>5, <1>6, <1>7, <1>8
  <2> QED
    BY <1>1, <1>2, <1>13, <1>14, <2>1, <2>2, OtherPartsFollow
<1>17. Ordered(Waiting, After)'
  <2>1. Ordered(AllParts(q \o inbox), After)
    BY <1>7, <1>9, QueueOrdered
  <2>2. After' = After
    BY <1>2 DEF After, MayFollow, CallerOf, Before
  <2>3. Waiting' = AllParts(q \o inbox)
    BY <1>2, <1>10 DEF Waiting
  <2> QED
    BY <2>1, <2>2, <2>3
<1>18. out' \in [0 .. Sockets - 1 -> Seq(Part)] /\ Flow'
  <2>1. UNCHANGED <<sender, handed, rest, late>> /\ sender # "multi_port"
    BY <1>2
  <2>2. W = ToSet(Waiting)' /\ 0 \in 0 .. Sockets - 1
    BY <1>1, <1>14, HandedFacts
  <2>3. PICK gone \in SUBSET ToSet(parts) : Emit(0, parts, gone)
    BY <1>3, <1>13
  <2> QED
    BY <1>1, <1>13, <1>15, <1>16, <1>17, <2>1, <2>2, <2>3, EmitKeeps
<1>19. SenderShape'
  BY <1>1, <1>2, <1>10, <1>18 DEF SenderShape
<1> QED
  BY <1>11, <1>18, <1>19 DEF SenderInv

\* What waits, is sent and is still to be sent are different parts.
LEMMA PlacesApart ==
    ASSUME SenderShape, Flow
    PROVE  /\ ToSet(Waiting) \cap Sent = {}
           /\ \A t \in SenderTasks : ToSet(rest[t]) \cap (Sent \cup ToSet(Waiting)) = {}
           /\ \A t, u \in SenderTasks : t # u => ToSet(rest[t]) \cap ToSet(rest[u]) = {}
<1>1. \A x \in Sent \cup Pending : x \in Part
  BY HandedFacts DEF Flow
<1>2. ASSUME NEW x, x \in Sent, x \in ToSet(Waiting) PROVE FALSE
  <2>1. PICK s \in 0 .. Sockets - 1 : x \in ToSet(out[s])
    BY <1>2 DEF Sent, SenderShape
  <2>2. x \in After[x]
    BY <1>2, <2>1 DEF Flow, AllAfter
  <2> QED
    BY <1>1, <1>2, <2>2, LaterFollows
<1>3. ASSUME NEW t \in SenderTasks, NEW x \in ToSet(rest[t]), x \in Sent PROVE FALSE
  <2>1. PICK s \in 0 .. Sockets - 1 : x \in ToSet(out[s])
    BY <1>3 DEF Sent, SenderShape
  <2>2. x \in After[x]
    BY <1>3, <2>1 DEF Flow, AllAfter
  <2> QED
    BY <1>1, <1>3, <2>2, LaterFollows
<1>4. ASSUME NEW t \in SenderTasks, NEW x \in ToSet(rest[t]), x \in ToSet(Waiting) PROVE FALSE
  <2>1. x \in After[x]
    BY <1>4 DEF Flow, AllAfter
  <2>2. x \in Pending
    BY <1>4 DEF Pending
  <2> QED
    BY <1>1, <2>1, <2>2, LaterFollows
<1>5. \A t \in SenderTasks : \A x \in ToSet(rest[t]) : CallerOf(x) = t
  BY DEF Flow
<1>6. \A t, u \in SenderTasks : t # u => ToSet(rest[t]) \cap ToSet(rest[u]) = {}
  BY <1>5
<1> QED
  BY <1>2, <1>3, <1>4, <1>6

\* No packets have no parts.
LEMMA NoParts == AllParts(<<>>) = <<>> /\ ToSet(<<>>) = {} /\ \A R : Ordered(<<>>, R)
<1>1. AllParts(<<>>) = <<>>
  <2>1. [i \in 1 .. Len(<<>>) |-> PartsOf(<<>>[i])] = <<>>
    <3>1. Len(<<>>) = 0 /\ 1 .. 0 = {}
      OBVIOUS
    <3>2. [i \in 1 .. Len(<<>>) |-> PartsOf(<<>>[i])] = [i \in {} |-> PartsOf(<<>>[i])]
      BY <3>1
    <3>3. [i \in {} |-> PartsOf(<<>>[i])] \in [1 .. 0 -> Part]
      BY <3>1
    <3>4. [i \in {} |-> PartsOf(<<>>[i])] \in Seq(Part) /\ Len([i \in {} |-> PartsOf(<<>>[i])]) = 0
      BY <3>1, <3>3, IsASeq, LenProperties
    <3> QED
      BY <3>2, <3>4, EmptySeq
  <2> QED
    BY <2>1 DEF AllParts, FlattenSeq
<1>2. ToSet(<<>>) = {}
  BY DEF ToSet
<1>3. \A R : Ordered(<<>>, R)
  <2> TAKE R
  <2>1. Ordered(<<0>>, R) /\ Ordered(<<>>, R)
    BY OrderedOne
  <2> QED
    BY <2>1
<1> QED
  BY <1>1, <1>2, <1>3

\* What the task still had is lost.
LEMMA ExitKeeps == ASSUME SenderInv, Exit PROVE SenderInv'
<1>1. SenderShape /\ QueueGood /\ Flow
  BY DEF SenderInv
<1>2. /\ ~ended /\ inbox = <<>> /\ sender \in {"binary", "optimized", "buffered"}
      /\ ended' = TRUE /\ late' = ToSet(AllParts(batch)) /\ batch' = <<>>
      /\ UNCHANGED <<sender, handed, rest, inbox, out, dropped, closed, now>>
  BY DEF Exit
<1>3. PICK w \in Seq(Part) : w = Waiting /\ late' = ToSet(w)
  <2>1. CASE sender = "buffered"
    <3>1. batch = <<>> /\ Waiting = <<>>
      BY <1>1, <1>2, <2>1 DEF SenderShape, Waiting
    <3>2. <<>> \in Seq(Part)
      OBVIOUS
    <3>3. late' = ToSet(AllParts(<<>>))
      BY <1>2, <3>1
    <3>4. late' = ToSet(<<>>)
      BY <3>3, NoParts
    <3> QED
      BY <3>1, <3>2, <3>4
  <2>2. CASE sender # "buffered"
    <3>1. batch \in Seq(Packet)
      BY <1>1, <2>2 DEF SenderShape
    <3>2. batch \o inbox = batch
      BY <1>2, <3>1, ConcatEmptySeq
    <3>3. Waiting = AllParts(batch)
      BY <2>2, <3>2 DEF Waiting
    <3> QED
      BY <1>2, <3>1, <3>3, AllPartsProperties
  <2> QED
    BY <2>1, <2>2
<1>4. Waiting' = <<>> /\ (batch \o inbox)' = <<>>
  <2>1. <<>> \o <<>> = <<>>
    OBVIOUS
  <2> QED
    BY <1>2, <2>1, NoParts DEF Waiting
<1>5. After' = After
  BY <1>2 DEF After, MayFollow, CallerOf, Before
<1>6. Sent' = Sent /\ Lost' = Lost \cup ToSet(w)
  <2>1. late = {}
    BY <1>1, <1>2 DEF SenderShape
  <2> QED
    BY <1>2, <1>3, <2>1 DEF Sent, Lost
<1>7. PICK Left : Left = UNION {ToSet(rest[t]) : t \in SenderTasks}
  OBVIOUS
<1>8. Pending = ToSet(w) \cup Left /\ Pending' = Left
  BY <1>2, <1>3, <1>4, <1>7, NoParts DEF Pending
<1>9. ToSet(w) \cap Sent = {} /\ ToSet(w) \cap Left = {}
  BY <1>1, <1>3, <1>7, PlacesApart
<1>10. Sent \cup Pending = PartSet(ToSet(handed)) \ Lost /\ Lost \subseteq PartSet(ToSet(handed))
  BY <1>1 DEF Flow
<1>11. Sent' \cup Pending' = PartSet(ToSet(handed)) \ Lost' /\ Lost' \subseteq PartSet(ToSet(handed))
  BY <1>6, <1>8, <1>9, <1>10
<1>12. \A t \in SenderTasks : \A x \in ToSet(rest[t]) : CallerOf(x)' = t
  BY <1>1, <1>2 DEF Flow, CallerOf
<1>13. Flow'
  <2>1. Ordered(Waiting', After) /\ ToSet(Waiting') = {}
    BY <1>4, NoParts
  <2> QED
    BY <1>1, <1>2, <1>5, <1>11, <1>12, <2>1 DEF Flow, AllAfter
<1>14. SenderShape'
  <2>1. <<>> \in Seq(Packet)
    OBVIOUS
  <2> QED
    BY <1>1, <1>2, <2>1 DEF SenderShape
<1>15. QueueGood'
  BY <1>4, NoParts DEF QueueGood
<1> QED
  BY <1>13, <1>14, <1>15 DEF SenderInv

\* The clock and the channel play no part in it.
LEMMA OthersLeaveIt ==
    ASSUME SenderInv, now' \in Nat,
           UNCHANGED <<sender, handed, rest, inbox, batch, out, dropped, late, ended>>
    PROVE  SenderInv'
<1>1. SenderShape /\ QueueGood /\ Flow
  BY DEF SenderInv
<1>2. SenderShape'
  BY <1>1 DEF SenderShape
<1>3. QueueGood'
  BY <1>1 DEF QueueGood
<1>4. After' = After /\ Waiting' = Waiting /\ Sent' = Sent /\ Lost' = Lost
  <2>1. After' = After
    BY DEF After, MayFollow, CallerOf, Before
  <2>2. Waiting' = Waiting
    BY DEF Waiting
  <2> QED
    BY <2>1, <2>2 DEF Sent, Lost
<1>5. Pending' = Pending
  BY <1>4 DEF Pending
<1>6. \A t \in SenderTasks : \A x \in ToSet(rest[t]) : CallerOf(x)' = t
  BY <1>1 DEF Flow, CallerOf
<1>7. Flow'
  BY <1>1, <1>4, <1>5, <1>6 DEF Flow
<1> QED
  BY <1>2, <1>3, <1>7 DEF SenderInv

\* The last handle of the channel is dropped.
LEMMA CloseChannelKeeps == ASSUME SenderInv, CloseChannel PROVE SenderInv'
<1>1. now' \in Nat /\ UNCHANGED <<sender, handed, rest, inbox, batch, out, dropped, late, ended>>
  BY DEF CloseChannel, SenderInv, SenderShape
<1> QED
  BY <1>1, OthersLeaveIt

\* Time passes.
LEMMA TimePassesKeeps == ASSUME SenderInv, TimePasses PROVE SenderInv'
<1>1. now' \in Nat /\ UNCHANGED <<sender, handed, rest, inbox, batch, out, dropped, late, ended>>
  BY DEF TimePasses, SenderInv, SenderShape
<1> QED
  BY <1>1, OthersLeaveIt

--------------------------------------------------------------------------------
(* A task goes on with the parts it has left.                              *)

\* The next part of a task comes before the others it has left.
LEMMA NextPart ==
    ASSUME SenderShape, Flow, NEW t \in SenderTasks, rest[t] # <<>>, sender \in {"buffered", "multi_port"}
    PROVE  \E h \in Part, T \in Seq(Part) :
             /\ h = Head(rest[t]) /\ T = Tail(rest[t])
             /\ ToSet(rest[t]) = {h} \cup ToSet(T) /\ h \notin ToSet(T)
             /\ Ordered(T, After) /\ AllAfter({h}, ToSet(T), After)
             /\ \A u \in SenderTasks \ {t} : AllAfter({h}, ToSet(rest[u]), After)
<1>1. rest[t] \in Seq(Part)
  BY DEF SenderShape
<1>2. PICK h \in Part : h = Head(rest[t])
  BY <1>1, HeadTailProperties
<1>3. PICK T \in Seq(Part) : T = Tail(rest[t])
  BY <1>1, HeadTailProperties
<1>4. <<h>> \in Seq(Part) /\ ToSet(<<h>>) = {h}
  BY DEF ToSet
<1>5. rest[t] = <<h>> \o T
  BY <1>1, <1>2, <1>3
<1>6. Ordered(<<h>> \o T, After)
  BY <1>5 DEF Flow
<1>7. Ordered(T, After) /\ AllAfter({h}, ToSet(T), After)
  BY <1>4, <1>6, OrderedConcat
<1>8. ToSet(<<h>> \o T) = {h} \cup ToSet(T)
  <2>1. PICK f \in Seq(Part) : f = <<h>> /\ ToSet(f) = {h}
    BY <1>4
  <2>2. ToSet(f \o T) = ToSet(f) \cup ToSet(T)
    BY ToSetOfConcat
  <2> QED
    BY <2>1, <2>2
<1>9. h \notin ToSet(T)
  BY <1>7, LaterFollows DEF AllAfter
<1>10. ASSUME NEW u \in SenderTasks \ {t} PROVE AllAfter({h}, ToSet(rest[u]), After)
  <2> SUFFICES ASSUME NEW y \in ToSet(rest[u]) PROVE y \in After[h]
    BY DEF AllAfter
  <2>1. h \in ToSet(rest[t])
    BY <1>5, <1>8
  <2>2. CallerOf(h) = t /\ CallerOf(y) = u /\ t # u
    BY <2>1 DEF Flow
  <2>3. MayFollow(h, y)
    BY <2>2 DEF MayFollow
  <2>4. rest[u] \in Seq(Part)
    BY DEF SenderShape
  <2>5. y \in Part
    BY <2>4, ToSetType
  <2> QED
    BY <2>3, <2>5 DEF After
<1> QED
  BY <1>2, <1>3, <1>5, <1>7, <1>8, <1>9, <1>10

\* The buffered sender buffers the next chunk of a task.
LEMMA send_chunkedKeeps == ASSUME SenderInv, NEW t \in SenderTasks, send_chunked(t) PROVE SenderInv'
<1> DEFINE Ports == 0 .. Sockets - 1
<1>1. SenderShape /\ QueueGood /\ Flow
  BY DEF SenderInv
<1>2. /\ sender = "buffered" /\ rest[t] # <<>>
      /\ inbox' = Append(inbox, Head(rest[t])) /\ rest' = [rest EXCEPT ![t] = Tail(@)]
      /\ UNCHANGED <<sender, handed, batch, out, dropped, late, closed, ended, now>>
  BY DEF send_chunked
<1>3. PICK h \in Part, T \in Seq(Part) :
        /\ h = Head(rest[t]) /\ T = Tail(rest[t])
        /\ ToSet(rest[t]) = {h} \cup ToSet(T) /\ h \notin ToSet(T)
        /\ Ordered(T, After) /\ AllAfter({h}, ToSet(T), After)
        /\ \A u \in SenderTasks \ {t} : AllAfter({h}, ToSet(rest[u]), After)
  BY <1>1, <1>2, NextPart
<1>4. PICK w \in Seq(Part) : w = inbox /\ w = Waiting /\ batch = <<>>
  BY <1>1, <1>2 DEF SenderShape, Waiting
<1>5. PICK v \in Seq(Part) : v = Append(w, h) /\ v = w \o <<h>> /\ ToSet(v) = ToSet(w) \cup {h}
  <2>1. Append(w, h) \in Seq(Part)
    BY AppendProperties
  <2>2. Append(w, h) = w \o <<h>>
    BY AppendIsConcat
  <2>3. ToSet(Append(w, h)) = ToSet(w) \cup {h}
    BY ToSetOfAppend
  <2> QED
    BY <2>1, <2>2, <2>3
<1>6. inbox' = v /\ Waiting' = v
  BY <1>2, <1>3, <1>4, <1>5 DEF Waiting
<1>7. /\ rest \in [SenderTasks -> Seq(Part)] /\ rest' \in [SenderTasks -> Seq(Part)] /\ rest'[t] = T
      /\ \A u \in SenderTasks \ {t} : rest'[u] = rest[u]
  BY <1>1, <1>2, <1>3 DEF SenderShape
<1>8. After' = After /\ Sent' = Sent /\ Lost' = Lost
  <2>1. After' = After
    BY <1>2 DEF After, MayFollow, CallerOf, Before
  <2> QED
    BY <1>2, <2>1 DEF Sent, Lost
<1>9. Ordered(v, After)
  <2>1. PICK f \in Seq(Part) : f = <<h>> /\ ToSet(f) = {h} /\ Ordered(f, After)
    BY OneElement
  <2>2. AllAfter(ToSet(w), ToSet(f), After) /\ Ordered(w, After)
    BY <1>1, <1>3, <1>4, <2>1 DEF Flow, AllAfter
  <2>3. Ordered(w \o f, After)
    BY <2>1, <2>2, OrderedConcat
  <2> QED
    BY <1>5, <2>1, <2>3
<1>10. \A s \in Ports : Ordered(out[s], After) /\ AllAfter(ToSet(out[s]), ToSet(v), After)
  <2> TAKE s \in Ports
  <2>1. /\ Ordered(out[s], After) /\ AllAfter(ToSet(out[s]), ToSet(w), After)
        /\ AllAfter(ToSet(out[s]), ToSet(rest[t]), After)
    BY <1>1, <1>4 DEF Flow
  <2> QED
    BY <1>3, <1>5, <2>1 DEF AllAfter
<1>11. \A u \in SenderTasks :
         /\ Ordered(rest'[u], After) /\ AllAfter(ToSet(v), ToSet(rest'[u]), After)
         /\ \A x \in ToSet(rest'[u]) : CallerOf(x)' = u
         /\ \A s \in Ports : AllAfter(ToSet(out[s]), ToSet(rest'[u]), After)
  <2> TAKE u \in SenderTasks
  <2>1. ToSet(rest'[u]) \subseteq ToSet(rest[u]) /\ Ordered(rest'[u], After)
    BY <1>1, <1>3, <1>7 DEF Flow
  <2>2. AllAfter({h}, ToSet(rest'[u]), After)
    BY <1>3, <1>7
  <2>3. AllAfter(ToSet(w), ToSet(rest[u]), After) /\ \A s \in Ports : AllAfter(ToSet(out[s]), ToSet(rest[u]), After)
    BY <1>1, <1>4 DEF Flow
  <2>4. AllAfter(ToSet(v), ToSet(rest'[u]), After)
    BY <1>5, <2>1, <2>2, <2>3 DEF AllAfter
  <2>5. \A s \in Ports : AllAfter(ToSet(out[s]), ToSet(rest'[u]), After)
    BY <2>1, <2>3 DEF AllAfter
  <2>6. \A x \in ToSet(rest[u]) : CallerOf(x)' = u
    BY <1>1, <1>2 DEF Flow, CallerOf
  <2> QED
    BY <2>1, <2>4, <2>5, <2>6
<1>12. Pending' = Pending
  <2> DEFINE Old == UNION {ToSet(rest[u]) : u \in SenderTasks}
             New == UNION {ToSet(rest'[u]) : u \in SenderTasks}
  <2>1. Pending = ToSet(w) \cup Old /\ Pending' = ToSet(w) \cup {h} \cup New
    BY <1>4, <1>5, <1>6 DEF Pending
  <2>2. \A u \in SenderTasks : ToSet(rest[u]) = ToSet(rest'[u]) \cup (IF u = t THEN {h} ELSE {})
    BY <1>3, <1>7
  <2>3. Old \subseteq New \cup {h} /\ New \subseteq Old
    BY <2>2
  <2>4. h \in Old
    BY <1>3
  <2> QED
    BY <2>1, <2>3, <2>4
<1>13. Flow'
  <2>1. Sent' \cup Pending' = PartSet(ToSet(handed))' \ Lost' /\ Lost' \subseteq PartSet(ToSet(handed))'
    BY <1>1, <1>2, <1>8, <1>12 DEF Flow
  <2>2. Ordered(Waiting', After') /\ sender' # "multi_port"
    BY <1>2, <1>6, <1>8, <1>9
  <2>3. \A s \in Ports : Ordered(out'[s], After') /\ AllAfter(ToSet(out'[s]), ToSet(Waiting'), After')
    BY <1>2, <1>6, <1>8, <1>10
  <2>4. \A u \in SenderTasks :
         /\ Ordered(rest'[u], After') /\ AllAfter(ToSet(Waiting'), ToSet(rest'[u]), After')
         /\ \A x \in ToSet(rest'[u]) : CallerOf(x)' = u
         /\ \A s \in Ports : AllAfter(ToSet(out'[s]), ToSet(rest'[u]), After')
    BY <1>2, <1>6, <1>8, <1>11
  <2> QED
    BY <2>1, <2>2, <2>3, <2>4 DEF Flow
<1>14. SenderShape'
  BY <1>1, <1>2, <1>4, <1>6, <1>7 DEF SenderShape
<1>15. QueueGood'
  BY <1>2 DEF QueueGood
<1> QED
  BY <1>13, <1>14, <1>15 DEF SenderInv

\* The multi-port sender sends the next side of a task.
LEMMA send_orderbook_dataKeeps == ASSUME SenderInv, NEW t \in SenderTasks, send_orderbook_data(t) PROVE SenderInv'
<1> DEFINE Ports == 0 .. Sockets - 1
<1>1. SenderShape /\ QueueGood /\ Flow
  BY DEF SenderInv
<1>2. /\ sender = "multi_port" /\ rest[t] # <<>>
      /\ UNCHANGED <<sender, handed, inbox, batch, late, closed, ended, now>>
  BY DEF send_orderbook_data
<1>3. PICK h \in Part, T \in Seq(Part) :
        /\ h = Head(rest[t]) /\ T = Tail(rest[t])
        /\ ToSet(rest[t]) = {h} \cup ToSet(T) /\ h \notin ToSet(T)
        /\ Ordered(T, After) /\ AllAfter({h}, ToSet(T), After)
        /\ \A u \in SenderTasks \ {t} : AllAfter({h}, ToSet(rest[u]), After)
  BY <1>1, <1>2, NextPart
<1>4. /\ inbox = <<>> /\ batch = <<>> /\ inbox' = <<>> /\ batch' = <<>>
      /\ rest \in [SenderTasks -> Seq(Part)] /\ out \in [Ports -> Seq(Part)]
  BY <1>1, <1>2 DEF SenderShape
<1>5. Waiting = <<>> /\ Waiting' = <<>>
  <2>1. <<>> \o <<>> = <<>>
    OBVIOUS
  <2> QED
    BY <1>2, <1>4, <2>1, NoParts DEF Waiting
<1>6. After' = After
  BY <1>2 DEF After, MayFollow, CallerOf, Before
<1>7. QueueGood'
  BY <1>1, <1>2, <1>4 DEF QueueGood
<1>8. \A u \in SenderTasks : \A x \in ToSet(rest[u]) : CallerOf(x)' = u
  BY <1>1, <1>2 DEF Flow, CallerOf
<1>9. /\ PartSet(ToSet(handed))' = PartSet(ToSet(handed))
      /\ Sent \cup Pending = PartSet(ToSet(handed)) \ Lost /\ Lost \subseteq PartSet(ToSet(handed))
  BY <1>1, <1>2 DEF Flow
<1>10. /\ \A s \in Ports : Ordered(out[s], After) /\ \A u \in SenderTasks : AllAfter(ToSet(out[s]), ToSet(rest[u]), After)
       /\ \A u \in SenderTasks : Ordered(rest[u], After)
       /\ \A s \in Ports : \A x \in ToSet(out[s]) : select_socket(handed[x[1]].symbol) = s
  BY <1>1, <1>2 DEF Flow
<1>11. ASSUME rest' \in [SenderTasks -> Seq(Part)], out' \in [Ports -> Seq(Part)],
              Sent' \cup Pending' = PartSet(ToSet(handed)) \ Lost', Lost' \subseteq PartSet(ToSet(handed)),
              \A s \in Ports : Ordered(out'[s], After) /\ \A u \in SenderTasks : AllAfter(ToSet(out'[s]), ToSet(rest'[u]), After),
              \A u \in SenderTasks : Ordered(rest'[u], After) /\ ToSet(rest'[u]) \subseteq ToSet(rest[u]),
              \A s \in Ports : \A x \in ToSet(out'[s]) : select_socket(handed[x[1]].symbol) = s
       PROVE  SenderInv'
  <2>1. SenderShape'
    BY <1>1, <1>2, <1>4, <1>11 DEF SenderShape
  <2>2. \A u \in SenderTasks : \A x \in ToSet(rest'[u]) : CallerOf(x)' = u
    BY <1>8, <1>11
  <2>3. Ordered(Waiting', After') /\ ToSet(Waiting') = {}
    BY <1>5, NoParts
  <2>4. \A s \in Ports : Ordered(out'[s], After') /\ AllAfter(ToSet(out'[s]), ToSet(Waiting'), After')
    BY <1>6, <1>11, <2>3 DEF AllAfter
  <2>5. \A u \in SenderTasks : 
          /\ Ordered(rest'[u], After') /\ AllAfter(ToSet(Waiting'), ToSet(rest'[u]), After')
          /\ \A s \in Ports : AllAfter(ToSet(out'[s]), ToSet(rest'[u]), After')
    BY <1>6, <1>11, <2>3 DEF AllAfter
  <2>6. \A s \in Ports : \A x \in ToSet(out'[s]) : select_socket(handed'[x[1]].symbol) = s
    BY <1>2, <1>11
  <2>7. Sent' \cup Pending' = PartSet(ToSet(handed))' \ Lost' /\ Lost' \subseteq PartSet(ToSet(handed))'
    BY <1>9, <1>11
  <2>8. Flow'
    BY <2>2, <2>3, <2>4, <2>5, <2>6, <2>7 DEF Flow
  <2> QED
    BY <1>7, <2>1, <2>8 DEF SenderInv
<1>12. PICK port \in Ports : port = select_socket(handed[h[1]].symbol)
  <2>1. h \in PartSet(ToSet(handed))
    <3>1. h \in Pending
      BY <1>3 DEF Pending
    <3> QED
      BY <1>9, <3>1
  <2>2. h[1] \in 1 .. Len(handed) /\ handed \in Seq(Packet)
    BY <1>1, <2>1, HandedFacts DEF SenderShape
  <2>3. handed[h[1]] \in Packet
    BY <2>2, ElementOfSeq
  <2>4. PICK symbol \in Nat : symbol = handed[h[1]].symbol
    BY <2>3 DEF Packet
  <2>5. symbol % Sockets \in 0 .. Sockets - 1
    BY SendersAssumption DEF SendersAssumption
  <2> QED
    BY <2>4, <2>5 DEF select_socket
<1>13. ASSUME Emit(port, <<h>>, {}), rest' = [rest EXCEPT ![t] = Tail(@)] PROVE SenderInv'
  <2>1. /\ rest' \in [SenderTasks -> Seq(Part)] /\ rest'[t] = T
        /\ \A u \in SenderTasks \ {t} : rest'[u] = rest[u]
    BY <1>3, <1>4, <1>13
  <2>2. PICK r \in Seq(Part) : r = Without(<<h>>, {}) /\ ToSet(r) = {h} /\ Ordered(r, After)
    <3>1. PICK f \in Seq(Part) : f = <<h>> /\ ToSet(f) = {h} /\ Ordered(f, After)
      <4>1. <<h>> \in Seq(Part) /\ ToSet(<<h>>) = {h}
        BY DEF ToSet
      <4> QED
        BY <4>1, OrderedOne
    <3>2. Without(f, {}) \in Seq(Part) /\ ToSet(Without(f, {})) = ToSet(f) \ {}
      BY WithoutProperties
    <3>3. Ordered(Without(f, {}), After)
      BY <3>1, WithoutOrdered
    <3> QED
      BY <3>1, <3>2, <3>3
  <2>3. /\ out' = [out EXCEPT ![port] = @ \o r] /\ dropped' = dropped
    BY <1>13, <2>2 DEF Emit
  <2>4. PICK o \in Seq(Part) : o = out[port] \o r /\ ToSet(o) = ToSet(out[port]) \cup {h} /\ Ordered(o, After)
    <3>1. out[port] \in Seq(Part)
      BY <1>4
    <3>2. AllAfter(ToSet(out[port]), ToSet(r), After) /\ Ordered(out[port], After)
      BY <1>3, <1>10, <2>2 DEF AllAfter
    <3>3. Ordered(out[port] \o r, After)
      BY <2>2, <3>1, <3>2, OrderedConcat
    <3>4. ToSet(out[port] \o r) = ToSet(out[port]) \cup ToSet(r)
      BY <3>1, ToSetOfConcat
    <3>5. out[port] \o r \in Seq(Part)
      BY <3>1, ConcatProperties
    <3> QED
      BY <2>2, <3>3, <3>4, <3>5
  <2>5. out' \in [Ports -> Seq(Part)] /\ out'[port] = o /\ \A s \in Ports \ {port} : out'[s] = out[s]
    BY <1>4, <2>3, <2>4
  <2>6. \A u \in SenderTasks : Ordered(rest'[u], After) /\ ToSet(rest'[u]) \subseteq ToSet(rest[u])
    BY <1>3, <1>10, <2>1
  <2>7. \A u \in SenderTasks : AllAfter({h}, ToSet(rest'[u]), After)
    BY <1>3, <2>1
  <2>8. \A s \in Ports : Ordered(out'[s], After) /\ ToSet(out'[s]) = ToSet(out[s]) \cup (IF s = port THEN {h} ELSE {})
    BY <1>10, <2>4, <2>5
  <2>9. \A s \in Ports, u \in SenderTasks : AllAfter(ToSet(out'[s]), ToSet(rest'[u]), After)
    <3> TAKE s \in Ports, u \in SenderTasks
    <3>1. AllAfter(ToSet(out[s]), ToSet(rest[u]), After)
      BY <1>10
    <3>2. ToSet(rest'[u]) \subseteq ToSet(rest[u]) /\ ToSet(out'[s]) \subseteq ToSet(out[s]) \cup {h}
      BY <2>6, <2>8
    <3> QED
      BY <2>7, <3>1, <3>2 DEF AllAfter
  <2>10. \A s \in Ports : \A x \in ToSet(out'[s]) : select_socket(handed[x[1]].symbol) = s
    <3> TAKE s \in Ports
    <3> TAKE x \in ToSet(out'[s])
    <3>1. x \in ToSet(out[s]) \/ (s = port /\ x = h)
      BY <2>8
    <3> QED
      BY <1>10, <1>12, <3>1
  <2>11. Lost' = Lost
    BY <1>2, <2>3 DEF Lost
  <2>12. Sent' = Sent \cup {h}
    <3>1. Sent = UNION {ToSet(out[s]) : s \in Ports} /\ Sent' = UNION {ToSet(out'[s]) : s \in Ports}
      BY <1>4, <2>5 DEF Sent
    <3>2. \A s \in Ports : ToSet(out'[s]) \subseteq ToSet(out[s]) \cup {h} /\ ToSet(out[s]) \subseteq ToSet(out'[s])
      BY <2>8
    <3>3. Sent' \subseteq Sent \cup {h}
      <4> SUFFICES ASSUME NEW s \in Ports, NEW x \in ToSet(out'[s]) PROVE x \in Sent \cup {h}
        BY <3>1
      <4> QED
        BY <3>1, <3>2
    <3>4. Sent \subseteq Sent'
      <4> SUFFICES ASSUME NEW s \in Ports, NEW x \in ToSet(out[s]) PROVE x \in Sent'
        BY <3>1
      <4> QED
        BY <3>1, <3>2
    <3>5. h \in ToSet(out'[port])
      BY <2>4, <2>5
    <3>6. h \in Sent'
      BY <3>1, <3>5
    <3> QED
      BY <3>3, <3>4, <3>6
  <2>13. Pending = Pending' \cup {h}
    <3> DEFINE Old == UNION {ToSet(rest[u]) : u \in SenderTasks}
               New == UNION {ToSet(rest'[u]) : u \in SenderTasks}
    <3>1. Pending = Old /\ Pending' = New
      BY <1>5, NoParts DEF Pending
    <3>2. \A u \in SenderTasks : ToSet(rest[u]) = ToSet(rest'[u]) \cup (IF u = t THEN {h} ELSE {})
      BY <1>3, <2>1
    <3>3. Old \subseteq New \cup {h} /\ New \subseteq Old
      BY <3>2
    <3>4. h \in Old
      BY <1>3
    <3> QED
      BY <3>1, <3>3, <3>4
  <2>14. Sent' \cup Pending' = PartSet(ToSet(handed)) \ Lost' /\ Lost' \subseteq PartSet(ToSet(handed))
    BY <1>9, <2>11, <2>12, <2>13
  <2> QED
    BY <1>11, <2>1, <2>5, <2>6, <2>8, <2>9, <2>10, <2>14
<1>14. ASSUME dropped' = dropped \cup ToSet(rest[t]), rest' = [rest EXCEPT ![t] = <<>>], out' = out PROVE SenderInv'
  <2>1. /\ rest' \in [SenderTasks -> Seq(Part)] /\ rest'[t] = <<>>
        /\ \A u \in SenderTasks \ {t} : rest'[u] = rest[u]
    <3>1. <<>> \in Seq(Part)
      OBVIOUS
    <3> QED
      BY <1>4, <1>14, <3>1
  <2>2. \A u \in SenderTasks : Ordered(rest'[u], After) /\ ToSet(rest'[u]) = (IF u = t THEN {} ELSE ToSet(rest[u]))
    BY <1>10, <2>1, NoParts
  <2>3. \A u \in SenderTasks : Ordered(rest'[u], After) /\ ToSet(rest'[u]) \subseteq ToSet(rest[u])
    BY <2>2
  <2>4. \A s \in Ports : Ordered(out'[s], After) /\ \A u \in SenderTasks : AllAfter(ToSet(out'[s]), ToSet(rest'[u]), After)
    BY <1>10, <1>14, <2>3 DEF AllAfter
  <2>5. Sent' = Sent /\ Lost' = Lost \cup ToSet(rest[t])
    BY <1>2, <1>14 DEF Sent, Lost
  <2>6. Pending' = Pending \ ToSet(rest[t])
    <3>1. Pending = UNION {ToSet(rest[u]) : u \in SenderTasks} /\ Pending' = UNION {ToSet(rest'[u]) : u \in SenderTasks}
      BY <1>5, NoParts DEF Pending
    <3>2. \A u \in SenderTasks : u # t => ToSet(rest[t]) \cap ToSet(rest[u]) = {}
      BY <1>1, PlacesApart
    <3>3. Pending' \subseteq Pending \ ToSet(rest[t])
      BY <2>2, <3>1, <3>2
    <3>4. Pending \ ToSet(rest[t]) \subseteq Pending'
      BY <2>2, <3>1
    <3> QED
      BY <3>3, <3>4
  <2>7. ToSet(rest[t]) \cap Sent = {} /\ ToSet(rest[t]) \subseteq Pending
    BY <1>1, PlacesApart DEF Pending
  <2>8. Sent' \cup Pending' = PartSet(ToSet(handed)) \ Lost' /\ Lost' \subseteq PartSet(ToSet(handed))
    BY <1>9, <2>5, <2>6, <2>7
  <2>9. \A s \in Ports : \A x \in ToSet(out'[s]) : select_socket(handed[x[1]].symbol) = s
    BY <1>10, <1>14
  <2>10. out' \in [Ports -> Seq(Part)]
    BY <1>4, <1>14
  <2> QED
    BY <1>11, <2>1, <2>3, <2>4, <2>8, <2>9, <2>10
<1> QED
  BY <1>3, <1>12, <1>13, <1>14 DEF send_orderbook_data

\* Nothing is handed over at first.
LEMMA SenderStarts == SenderInit => SenderInv
<1> SUFFICES ASSUME SenderInit PROVE SenderInv
  OBVIOUS
<1> DEFINE Ports == 0 .. Sockets - 1
<1>1. /\ handed = <<>> /\ inbox = <<>> /\ batch = <<>> /\ dropped = {} /\ late = {} /\ ended = FALSE /\ now = 0
      /\ rest = [t \in SenderTasks |-> <<>>] /\ out = [s \in Ports |-> <<>>]
  BY DEF SenderInit
<1>2. Waiting = <<>> /\ batch \o inbox = <<>>
  <2>1. <<>> \o <<>> = <<>>
    OBVIOUS
  <2> QED
    BY <1>1, <2>1, NoParts DEF Waiting
<1>3. \A t \in SenderTasks : rest[t] = <<>>
  BY <1>1
<1>4. \A s \in Ports : out[s] = <<>>
  BY <1>1
<1>5. Sent = {} /\ Pending = {} /\ Lost = {} /\ PartSet(ToSet(handed)) = {}
  BY <1>1, <1>2, <1>3, <1>4, NoParts DEF Sent, Pending, Lost, PartSet
<1>6. Flow
  BY <1>2, <1>3, <1>4, <1>5, NoParts DEF Flow, AllAfter
<1>7. SenderShape
  <2>1. <<>> \in Seq(Packet) /\ <<>> \in Seq(Part) /\ 1 .. Len(<<>>) = {}
    OBVIOUS
  <2> QED
    BY <1>1, <1>3, <2>1 DEF SenderShape
<1>8. QueueGood
  BY <1>2, NoParts DEF QueueGood
<1> QED
  BY <1>6, <1>7, <1>8 DEF SenderInv

\* Every step of the senders keeps SenderInv.
LEMMA SenderSteps == SenderInv /\ [SenderNext]_svars => SenderInv'
<1> SUFFICES ASSUME SenderInv, [SenderNext]_svars PROVE SenderInv'
  OBVIOUS
<1>1. ASSUME NEW t \in Some({"buffered", "multi_port"}, SenderTasks), NEW symbol \in Some({"multi_port"}, 0 .. 1),
             NEW parts \in 1 .. 2, NEW ts \in Some({"ordered"}, 1 .. 2), Hand(t, symbol, parts, ts)
      PROVE  SenderInv'
  <2>1. \A senders, S : S # {} => Some(senders, S) \subseteq S
    BY DEF Some
  <2>2. SenderTasks # {} /\ 0 \in 0 .. 1 /\ 1 \in 1 .. 2 /\ 0 .. 1 \subseteq Nat /\ 1 .. 2 \subseteq Nat
    BY SendersAssumption DEF SendersAssumption
  <2>3. t \in SenderTasks /\ symbol \in Nat /\ ts \in Nat
    BY <2>1, <2>2
  <2> QED
    BY <1>1, <2>3, HandKeeps
<1>2. ASSUME NEW t \in SenderTasks, send_chunked(t) \/ send_orderbook_data(t) PROVE SenderInv'
  BY <1>2, send_chunkedKeeps, send_orderbook_dataKeeps
<1>3. CASE UNCHANGED svars
  <2>1. now' \in Nat /\ UNCHANGED <<sender, handed, rest, inbox, batch, out, dropped, late, ended>>
    BY <1>3 DEF svars, SenderInv, SenderShape
  <2> QED
    BY <2>1, OthersLeaveIt
<1> QED
  BY <1>1, <1>2, <1>3, ReceiveKeeps, BinaryTimeoutKeeps, OptimizedFlushKeeps, OrderedFlushKeeps, ExitKeeps,
     TimePassesKeeps, CloseChannelKeeps DEF SenderNext, SenderStep

\* What is in order follows itself as it may.
LEMMA OrderedMeans ==
    ASSUME NEW s \in Seq(Part), Ordered(s, After)
    PROVE  \A i, j \in DOMAIN s : i < j => MayFollow(s[i], s[j])
<1> SUFFICES ASSUME NEW i \in DOMAIN s, NEW j \in DOMAIN s, i < j PROVE MayFollow(s[i], s[j])
  OBVIOUS
<1>1. i \in 1 .. Len(s) /\ j \in 1 .. Len(s)
  BY LenProperties
<1>2. s[j] \in After[s[i]] /\ s[i] \in Part
  BY <1>1, ElementOfSeq DEF Ordered
<1> QED
  BY <1>2 DEF After

\* SenderInv tells where every part is, and in what order parts left.
LEMMA SenderInvImplies == SenderInv => InOrderOnce
<1> SUFFICES ASSUME SenderInv PROVE InOrderOnce
  OBVIOUS
<1> DEFINE Ports == 0 .. Sockets - 1
<1>1. SenderShape /\ QueueGood /\ Flow
  BY DEF SenderInv
<1>2. /\ \A s \in Ports : out[s] \in Seq(Part)
      /\ \A t \in SenderTasks : rest[t] \in Seq(Part)
      /\ handed \in Seq(Packet) /\ 0 \in Ports
  BY <1>1, HandedFacts DEF SenderShape
<1>3. PICK w \in Seq(Part) : w = Waiting
  <2>1. CASE sender = "buffered"
    BY <1>1, <2>1 DEF Waiting, SenderShape
  <2>2. CASE sender # "buffered"
    BY <1>1, <2>2, WaitingParts, AllPartsProperties
  <2> QED
    BY <2>1, <2>2
<1>4. Sent \cup Pending = ToSet(AllParts(handed)) \ Lost
  BY <1>1, <1>2, AllPartsProperties DEF Flow
<1>5. PICK q \in Seq(Part) : q = out[0] \o w /\ Ordered(q, After) /\ ToSet(q) = ToSet(out[0]) \cup ToSet(w)
  <2>1. Ordered(out[0], After) /\ Ordered(w, After) /\ AllAfter(ToSet(out[0]), ToSet(w), After)
    BY <1>1, <1>2, <1>3 DEF Flow
  <2>2. Ordered(out[0] \o w, After)
    BY <1>2, <2>1, OrderedConcat
  <2>3. out[0] \o w \in Seq(Part) /\ ToSet(out[0] \o w) = ToSet(out[0]) \cup ToSet(w)
    BY <1>2, ConcatProperties, ToSetOfConcat
  <2> QED
    BY <2>2, <2>3
<1>6. sender \in {"binary", "optimized"} => Rising(q)
  BY <1>5, OrderedMeans DEF Rising, MayFollow
<1>7. sender = "ordered" => IsInjective(q)
  <2> SUFFICES ASSUME sender = "ordered", NEW i \in DOMAIN q, NEW j \in DOMAIN q, q[i] = q[j] PROVE i = j
    BY DEF IsInjective
  <2>1. i \in Nat /\ j \in Nat
    BY LenProperties
  <2>2. \A k, l \in DOMAIN q : k < l => q[k] # q[l]
    BY <1>5, OrderedMeans DEF MayFollow
  <2> QED
    BY <2>1, <2>2
<1>8. ASSUME sender = "buffered", NEW t \in SenderTasks PROVE RisingByTask(q \o rest[t])
  <2>1. AllAfter(ToSet(q), ToSet(rest[t]), After) /\ Ordered(rest[t], After)
    BY <1>1, <1>2, <1>3, <1>5 DEF Flow, AllAfter
  <2>2. Ordered(q \o rest[t], After) /\ q \o rest[t] \in Seq(Part)
    BY <1>2, <1>5, <2>1, OrderedConcat, ConcatProperties
  <2>3. \A i, j \in DOMAIN (q \o rest[t]) : i < j => MayFollow((q \o rest[t])[i], (q \o rest[t])[j])
    BY <2>2, OrderedMeans
  <2> QED
    BY <1>8, <2>3 DEF RisingByTask, MayFollow
<1>9. ASSUME sender = "multi_port", NEW s \in Ports, NEW t \in SenderTasks PROVE RisingByTask(out[s] \o rest[t])
  <2>1. AllAfter(ToSet(out[s]), ToSet(rest[t]), After) /\ Ordered(rest[t], After) /\ Ordered(out[s], After)
    BY <1>1 DEF Flow
  <2>2. Ordered(out[s] \o rest[t], After) /\ out[s] \o rest[t] \in Seq(Part)
    BY <1>2, <2>1, OrderedConcat, ConcatProperties
  <2>3. \A i, j \in DOMAIN (out[s] \o rest[t]) : i < j => MayFollow((out[s] \o rest[t])[i], (out[s] \o rest[t])[j])
    BY <2>2, OrderedMeans
  <2> QED
    BY <1>9, <2>3 DEF RisingByTask, MayFollow
<1>10. sender = "multi_port" => \A s \in Ports : \A x \in ToSet(out[s]) : select_socket(handed[x[1]].symbol) = s
  BY <1>1 DEF Flow
<1> QED
  BY <1>3, <1>4, <1>5, <1>6, <1>7, <1>8, <1>9, <1>10 DEF InOrderOnce

\* Whatever the sender, the packets, the tasks that call it and the sends that fail: every
\* part handed over is sent, waits, or was lost with its send or its task, and only one of
\* these; the batches of the binary and the optimized sender, the buffer of send_chunked and
\* the sockets of send_orderbook_data neither repeat nor swap the parts of a task, and a
\* symbol always uses the same socket; for any number of packets, tasks and sockets and any
\* sizes of the batches.
THEOREM PartsAlwaysInOrder == SenderSpec => []InOrderOnce
<1>1. SenderInit => SenderInv
  BY SenderStarts
<1>2. SenderInv /\ [SenderNext]_svars => SenderInv'
  BY SenderSteps
<1>3. SenderInv => InOrderOnce
  BY SenderInvImplies
<1> QED
  BY <1>1, <1>2, <1>3, PTL DEF SenderSpec

\* What a tick sends goes on from what was sent before.
LEMMA TickLatestFirst ==
    ASSUME SenderInv, OrderedFlush
    PROVE  \A i, j \in Len(out[0]) + 1 .. Len(out'[0]) :
             i < j => handed[out'[0][i][1]].ts >= handed[out'[0][j][1]].ts
<1>1. SenderShape /\ QueueGood /\ sender = "ordered"
  BY DEF SenderInv, OrderedFlush
<1>2. PICK ps \in Popped : \E gone \in SUBSET ToSet(AllParts(ps)) : Emit(0, AllParts(ps), gone)
  <2>1. PICK ps \in Popped : \E missed \in SUBSET ToSet(AllParts(ps)) :
           Emit(0, AllParts(ps), ordered_send_packet(AllParts(ps), missed))
    BY DEF OrderedFlush
  <2>2. PICK missed \in SUBSET ToSet(AllParts(ps)) :
           Emit(0, AllParts(ps), ordered_send_packet(AllParts(ps), missed))
    BY <2>1
  <2>3. ordered_send_packet(AllParts(ps), missed) \in SUBSET ToSet(AllParts(ps))
    BY DEF ordered_send_packet
  <2> QED
    BY <2>2, <2>3
<1>3. PICK n \in Nat : /\ ps \in Seq(Packet) /\ Len(ps) = n /\ \A k \in 1 .. n : ps[k] \in ToSet(handed)
                       /\ \A k, l \in 1 .. n : k < l => Newest(ps[k], ps[l])
  BY <1>1, PoppedPackets
<1>4. PICK parts \in Seq(Part) : parts = AllParts(ps)
  BY <1>3, AllPartsProperties
<1>5. \A i, j \in 1 .. Len(parts) : i < j =>
        \E k, l \in 1 .. n : \E a \in 1 .. ps[k].parts, b \in 1 .. ps[l].parts :
           /\ parts[i] = <<ps[k].id, a>> /\ parts[j] = <<ps[l].id, b>>
           /\ k < l \/ (k = l /\ a < b)
  <2>1. \A i, j \in 1 .. Len(AllParts(ps)) : i < j =>
          \E k, l \in 1 .. Len(ps) : \E a \in 1 .. ps[k].parts, b \in 1 .. ps[l].parts :
             /\ AllParts(ps)[i] = <<ps[k].id, a>> /\ AllParts(ps)[j] = <<ps[l].id, b>>
             /\ k < l \/ (k = l /\ a < b)
    BY <1>3, AllPartsProperties, Zenon
  <2>2. n = Len(ps)
    BY <1>3
  <2> SUFFICES ASSUME NEW i \in 1 .. Len(parts), NEW j \in 1 .. Len(parts), i < j
               PROVE  \E k, l \in 1 .. n : \E a \in 1 .. ps[k].parts, b \in 1 .. ps[l].parts :
                         /\ parts[i] = <<ps[k].id, a>> /\ parts[j] = <<ps[l].id, b>>
                         /\ k < l \/ (k = l /\ a < b)
    OBVIOUS
  <2>3. i \in 1 .. Len(AllParts(ps)) /\ j \in 1 .. Len(AllParts(ps))
    BY <1>4
  <2>4. PICK k \in 1 .. Len(ps), l \in 1 .. Len(ps) : \E a \in 1 .. ps[k].parts, b \in 1 .. ps[l].parts :
           AllParts(ps)[i] = <<ps[k].id, a>> /\ AllParts(ps)[j] = <<ps[l].id, b>> /\ (k < l \/ (k = l /\ a < b))
    BY <2>1, <2>3
  <2> QED
    BY <1>4, <2>2, <2>4
<1>6. PICK gone : Emit(0, parts, gone)
  BY <1>2, <1>4
<1>7. PICK r \in Seq(Part) :
        /\ r = Without(parts, gone)
        /\ \A i, j \in 1 .. Len(r) : i < j => \E k, l \in 1 .. Len(parts) : k < l /\ r[i] = parts[k] /\ r[j] = parts[l]
  BY WithoutProperties
<1>8. PICK o \in Seq(Part) : o = out[0]
  BY <1>1, HandedFacts DEF SenderShape
<1>9. PICK m \in Nat, c \in Nat : m = Len(o) /\ c = Len(r)
  BY LenProperties
<1>10. out'[0] = o \o r
  <2>1. out \in [0 .. Sockets - 1 -> Seq(Part)] /\ 0 \in 0 .. Sockets - 1
    BY <1>1, HandedFacts DEF SenderShape
  <2> QED
    BY <1>6, <1>7, <1>8, <2>1 DEF Emit
<1>11. PICK q : q = o \o r
  OBVIOUS
<1>12. Len(q) = m + c /\ \A i \in 1 .. m + c : q[i] = IF i <= m THEN o[i] ELSE r[i - m]
  BY <1>9, <1>11, TwoJoined
<1>13. ASSUME NEW i \in m + 1 .. m + c, NEW j \in m + 1 .. m + c, i < j
       PROVE  handed[q[i][1]].ts >= handed[q[j][1]].ts
  <2>1. PICK x \in 1 .. c, y \in 1 .. c : x = i - m /\ y = j - m /\ x < y
    BY <1>13
  <2>2. q[i] = r[x] /\ q[j] = r[y]
    BY <1>12, <2>1
  <2>3. PICK g \in 1 .. Len(parts), h \in 1 .. Len(parts) : g < h /\ q[i] = parts[g] /\ q[j] = parts[h]
    <3>1. \E g, h \in 1 .. Len(parts) : g < h /\ r[x] = parts[g] /\ r[y] = parts[h]
      BY <1>7, <1>9, <2>1
    <3> QED
      BY <2>2, <3>1
  <2>4. PICK k \in 1 .. n, l \in 1 .. n : \E a \in 1 .. ps[k].parts, b \in 1 .. ps[l].parts :
           q[i] = <<ps[k].id, a>> /\ q[j] = <<ps[l].id, b>> /\ (k < l \/ (k = l /\ a < b))
    <3>1. \E k, l \in 1 .. n : \E a \in 1 .. ps[k].parts, b \in 1 .. ps[l].parts :
             parts[g] = <<ps[k].id, a>> /\ parts[h] = <<ps[l].id, b>> /\ (k < l \/ (k = l /\ a < b))
      BY <1>5, <2>3
    <3> QED
      BY <2>3, <3>1
  <2>5. q[i][1] = ps[k].id /\ q[j][1] = ps[l].id /\ (k < l \/ k = l)
    BY <2>4
  <2>6. handed[ps[k].id] = ps[k] /\ handed[ps[l].id] = ps[l] /\ ps[k].ts \in Nat /\ ps[l].ts \in Nat
    <3>1. ps[k] \in ToSet(handed) /\ ps[l] \in ToSet(handed)
      BY <1>3
    <3>2. ps[k] \in Packet /\ ps[l] \in Packet
      BY <1>1, <3>1, HandedFacts
    <3> QED
      BY <1>1, <3>1, <3>2, HandedFacts DEF Packet
  <2>7. ps[k].ts >= ps[l].ts
    <3>1. CASE k = l
      BY <2>6, <3>1
    <3>2. CASE k < l
      <4>1. Newest(ps[k], ps[l])
        BY <1>3, <3>2
      <4> QED
        BY <2>6, <4>1 DEF Newest
    <3> QED
      BY <2>5, <3>1, <3>2
  <2> QED
    BY <2>5, <2>6, <2>7
<1> QED
  BY <1>8, <1>9, <1>10, <1>11, <1>12, <1>13

\* One tick of the ordered sender (OrderedUdpSender::new) sends later timestamps before
\* earlier ones: BinaryHeap gives up the packet with the largest timestamp first, for any
\* packets that wait and any window.
THEOREM TicksAlwaysLatestFirst == SenderSpec => LatestFirst
<1> DEFINE Tick == sender = "ordered" =>
             \A i, j \in Len(out[0]) + 1 .. Len(out'[0]) :
               i < j => handed[out'[0][i][1]].ts >= handed[out'[0][j][1]].ts
<1>1. SenderInit => SenderInv
  BY SenderStarts
<1>2. SenderInv /\ [SenderNext]_svars => SenderInv'
  BY SenderSteps
<1>3. SenderInv /\ [SenderNext]_svars => [Tick]_svars
  <2> SUFFICES ASSUME SenderInv, SenderNext, sender = "ordered"
               PROVE  \A i, j \in Len(out[0]) + 1 .. Len(out'[0]) :
                        i < j => handed[out'[0][i][1]].ts >= handed[out'[0][j][1]].ts
    OBVIOUS
  <2>1. CASE OrderedFlush
    BY <2>1, TickLatestFirst
  <2>2. CASE out' = out
    <3>1. PICK m \in Nat : m = Len(out[0])
      <4>1. out[0] \in Seq(Part)
        BY HandedFacts DEF SenderInv, SenderShape
      <4> QED
        BY <4>1, LenProperties
    <3>2. \A i \in m + 1 .. m : FALSE
      OBVIOUS
    <3> QED
      BY <2>2, <3>1, <3>2
  <2> QED
    BY <2>1, <2>2 DEF SenderNext, SenderStep, Hand, CloseChannel, Receive, BinaryTimeout, OptimizedFlush, Exit,
       TimePasses, send_chunked, send_orderbook_data
<1> QED
  BY <1>1, <1>2, <1>3, PTL DEF SenderSpec, LatestFirst

--------------------------------------------------------------------------------
(* Binary datagrams: what is read of them.                                 *)

\* Sender and monitor of binary datagrams on their own.
BinarySpec == BinaryInit /\ [][BinaryNext]_yvars

\* What datagrams are made of, and the datagrams.
Origins ==
    [what : {"trade", "bids", "asks", "CONN", "STATS"}, levels : Seq(Scaled), precision : Nat]
Datagrams ==
    {from_trade(v, precision) : v \in Scaled, precision \in Nat}
      \cup {from_orderbook(levels, bid, precision) : levels \in Seq(Scaled), bid \in BOOLEAN, precision \in Nat}
      \cup {[text |-> what] : what \in {"CONN", "STATS"}}

\* Datagram p was made of s.
Encodes(p, s) ==
    \/ s.what \in {"CONN", "STATS"} /\ p = [text |-> s.what]
    \/ s.what = "trade" /\ Len(s.levels) = 1 /\ p = from_trade(s.levels[1], s.precision)
    \/ s.what \in {"bids", "asks"} /\ p = from_orderbook(s.levels, s.what = "bids", s.precision)

\* Every datagram was made of its origin, whether it is read or under way, and the
\* monitor has counted those that are read.
BinaryInv ==
    /\ read \in Seq(Datagrams) /\ in_flight \in Seq(Datagrams) /\ source \in Seq(Origins)
    /\ Len(source) = Len(read) + Len(in_flight)
    /\ \A i \in 1 .. Len(read) : Encodes(read[i], source[i])
    /\ \A i \in 1 .. Len(in_flight) : Encodes(in_flight[i], source[Len(read) + i])
    /\ {"trades", "orderbooks"} \subseteq DOMAIN monitor
    /\ monitor.trades = Cardinality({i \in 1 .. Len(read) : source[i].what = "trade"})
    /\ monitor.orderbooks = 0

\* Nothing is under way at first.
LEMMA BinaryStarts == BinaryInit => BinaryInv
<1> SUFFICES ASSUME BinaryInit PROVE BinaryInv
  OBVIOUS
<1>1. /\ read = <<>> /\ in_flight = <<>> /\ source = <<>>
      /\ monitor = [binary |-> 0, text |-> 0, trades |-> 0, orderbooks |-> 0, reported |-> {}]
  BY DEF BinaryInit
<1>2. {i \in 1 .. 0 : source[i].what = "trade"} = {}
  OBVIOUS
<1>3. Cardinality({}) = 0
  BY FS_EmptySet
<1> QED
  BY <1>1, <1>2, <1>3 DEF BinaryInv

\* Datagrams are put under way with their origins.
LEMMA PutKeeps ==
    ASSUME BinaryInv, NEW added \in Seq(Datagrams), NEW made \in Seq(Origins), Len(added) = Len(made),
           \A i \in 1 .. Len(added) : Encodes(added[i], made[i]), Put(added, made)
    PROVE  BinaryInv'
<1>1. PICK r \in Nat, f \in Nat, a \in Nat : r = Len(read) /\ f = Len(in_flight) /\ a = Len(added) /\ a = Len(made)
  BY LenProperties DEF BinaryInv
<1>2. /\ in_flight' = in_flight \o added /\ source' = source \o made /\ read' = read /\ monitor' = monitor
      /\ read \in Seq(Datagrams) /\ in_flight \in Seq(Datagrams) /\ source \in Seq(Origins) /\ Len(source) = r + f
  BY <1>1 DEF Put, BinaryInv
<1>3. /\ in_flight' \in Seq(Datagrams) /\ Len(in_flight') = f + a
      /\ \A i \in 1 .. f + a : in_flight'[i] = IF i <= f THEN in_flight[i] ELSE added[i - f]
  <2>1. /\ in_flight \o added \in Seq(Datagrams) /\ Len(in_flight \o added) = f + a
        /\ \A i \in 1 .. f + a : (in_flight \o added)[i] = IF i <= f THEN in_flight[i] ELSE added[i - f]
    <3>1. PICK u \in Seq(Datagrams), v \in Seq(Datagrams) : u = in_flight /\ v = added
      BY <1>2
    <3>2. f = Len(u) /\ a = Len(v)
      BY <1>1, <3>1
    <3>3. PICK w : w = u \o v
      OBVIOUS
    <3>4. /\ w \in Seq(Datagrams) /\ Len(w) = f + a
          /\ \A i \in 1 .. f + a : w[i] = IF i <= f THEN u[i] ELSE v[i - f]
      BY <3>2, <3>3, TwoJoined
    <3> QED
      BY <3>1, <3>3, <3>4
  <2> QED
    BY <1>2, <2>1
<1>4. /\ source' \in Seq(Origins) /\ Len(source') = (r + f) + a
      /\ \A i \in 1 .. (r + f) + a : source'[i] = IF i <= r + f THEN source[i] ELSE made[i - (r + f)]
  <2>1. PICK k \in Nat : k = r + f
    OBVIOUS
  <2>2. /\ source \o made \in Seq(Origins) /\ Len(source \o made) = k + a
        /\ \A i \in 1 .. k + a : (source \o made)[i] = IF i <= k THEN source[i] ELSE made[i - k]
    <3>1. PICK u \in Seq(Origins), v \in Seq(Origins) : u = source /\ v = made /\ Len(u) = k /\ Len(v) = a
      BY <1>1, <1>2, <2>1
    <3>2. u \o v \in Seq(Origins) /\ Len(u \o v) = k + a
          /\ \A i \in 1 .. k + a : (u \o v)[i] = IF i <= k THEN u[i] ELSE v[i - k]
      BY <3>1, TwoJoined
    <3> QED
      BY <3>1, <3>2
  <2> QED
    BY <1>2, <2>1, <2>2
<1>5. \A i \in 1 .. r : source'[i] = source[i]
  <2> TAKE i \in 1 .. r
  <2>1. i \in 1 .. (r + f) + a /\ i <= r + f
    BY <1>1
  <2> QED
    BY <1>4, <2>1
<1>6. \A i \in 1 .. f + a : Encodes(in_flight'[i], source'[r + i])
  <2> TAKE i \in 1 .. f + a
  <2>1. CASE i <= f
    <3>1. i \in 1 .. Len(in_flight)
      BY <1>1, <2>1
    <3>4. \A j \in 1 .. Len(in_flight) : Encodes(in_flight[j], source[r + j])
      BY <1>1 DEF BinaryInv
    <3>5. Encodes(in_flight[i], source[r + i])
      BY <3>1, <3>4
    <3>2. source'[r + i] = source[r + i] /\ in_flight'[i] = in_flight[i]
      BY <1>3, <1>4, <2>1
    <3> QED
      BY <3>2, <3>5
  <2>2. CASE ~(i <= f)
    <3>1. PICK k \in 1 .. a : k = i - f
      BY <2>2
    <3>2. Encodes(added[k], made[k])
      BY <1>1
    <3>3. r + i \in 1 .. (r + f) + a /\ ~(r + i <= r + f) /\ (r + i) - (r + f) = k
      BY <2>2, <3>1
    <3>4. in_flight'[i] = added[k] /\ source'[r + i] = made[k]
      BY <1>3, <1>4, <2>2, <3>1, <3>3
    <3> QED
      BY <3>2, <3>4
  <2> QED
    BY <2>1, <2>2
<1>7. {i \in 1 .. r : source'[i].what = "trade"} = {i \in 1 .. r : source[i].what = "trade"}
  BY <1>5
<1>8. \A i \in 1 .. r : Encodes(read[i], source'[i])
  BY <1>1, <1>5 DEF BinaryInv
<1> QED
  <2>1. {"trades", "orderbooks"} \subseteq DOMAIN monitor' /\ monitor'.orderbooks = 0
    BY <1>2 DEF BinaryInv
  <2>2. monitor'.trades = Cardinality({i \in 1 .. r : source'[i].what = "trade"})
    BY <1>1, <1>2, <1>7 DEF BinaryInv
  <2>3. Len(read') = r /\ Len(in_flight') = f + a /\ Len(source') = r + (f + a)
    BY <1>1, <1>2, <1>3, <1>4
  <2> QED
    BY <1>2, <1>3, <1>4, <1>6, <1>8, <2>1, <2>2, <2>3 DEF BinaryInv

\* One datagram is put under way with its origin.
LEMMA PutOneKeeps ==
    ASSUME BinaryInv, NEW p \in Datagrams, NEW s \in Origins, Encodes(p, s), Put(<<p>>, <<s>>)
    PROVE  BinaryInv'
<1>1. /\ <<p>> \in Seq(Datagrams) /\ <<s>> \in Seq(Origins) /\ Len(<<p>>) = 1 /\ Len(<<s>>) = 1
      /\ <<p>>[1] = p /\ <<s>>[1] = s
  OBVIOUS
<1>2. \A i \in 1 .. Len(<<p>>) : Encodes(<<p>>[i], <<s>>[i])
  BY <1>1
<1> QED
  BY <1>1, <1>2, PutKeeps

\* What the packet of one side of a book says.
LEMMA BookIs ==
    ASSUME NEW levels \in Seq(Scaled), NEW bid \in BOOLEAN, NEW precision \in Nat,
           NEW p, p = from_orderbook(levels, bid, precision)
    PROVE  /\ "text" \notin DOMAIN p /\ "flags" \in DOMAIN p
           /\ packet_type(p.flags) = 2 /\ is_last(p.flags) /\ (is_bid(p.flags) <=> bid)
           /\ item_count(p.flags) = Len(p.items) /\ Len(p.items) <= Len(levels)
           /\ Len(p.items) \in Nat /\ DOMAIN p.items = 1 .. Len(p.items)
           /\ Len(levels) <= MaxItems => Len(p.items) = Len(levels)
           /\ \A k \in DOMAIN p.items : p.items[k] = new_from_scaled(levels[k], precision)
<1>1. PICK n \in Nat : n = Len(levels)
  BY LenProperties
<1>2. PICK m \in 0 .. 7 : m = (IF Len(levels) < MaxItems THEN Len(levels) ELSE MaxItems)
  <2>1. CASE n < 7
    <3>1. n \in 0 .. 7
      BY <2>1
    <3>2. n = (IF Len(levels) < MaxItems THEN Len(levels) ELSE MaxItems)
      BY <1>1, <2>1 DEF MaxItems
    <3> QED
      BY <3>1, <3>2
  <2>2. CASE ~(n < 7)
    <3>1. 7 \in 0 .. 7 /\ (IF Len(levels) < MaxItems THEN Len(levels) ELSE MaxItems) = 7
      BY <1>1, <2>2 DEF MaxItems
    <3> QED
      BY <3>1
  <2> QED
    BY <2>1, <2>2
<1>3. m <= n
  BY <1>1, <1>2 DEF MaxItems
<1>4. PICK fitting \in Seq(Scaled) : fitting = SubSeq(levels, 1, m) /\ Len(fitting) = m /\ \A k \in 1 .. m : fitting[k] = levels[k]
  <2>1. SubSeq(levels, 1, m) \in Seq(Scaled) /\ Len(SubSeq(levels, 1, m)) = m
        /\ \A k \in 1 .. m : SubSeq(levels, 1, m)[k] = levels[k]
    BY <1>1, <1>3
  <2> QED
    BY <2>1
<1>5. PICK c \in {0, 8} : c = (IF bid THEN 8 ELSE 0)
  OBVIOUS
<1>6. PICK items : items = [k \in 1 .. m |-> new_from_scaled(fitting[k], precision)]
  OBVIOUS
<1>7. p.items = items /\ p.flags = 160 + c + m /\ DOMAIN p = {"flags", "items"}
  <2>1. DOMAIN fitting = 1 .. m
    BY <1>4, LenProperties
  <2>2. m % 8 = m /\ 2 % 8 = 2
    OBVIOUS
  <2> QED
    BY <1>2, <1>4, <1>5, <1>6, <2>1, <2>2 DEF from_orderbook, set_flags_and_count
<1>8. DOMAIN items = 1 .. m /\ Len(items) = m
  BY <1>6
<1>9. /\ packet_type(160 + c + m) = 2 /\ is_last(160 + c + m) /\ item_count(160 + c + m) = m
      /\ is_bid(160 + c + m) <=> c = 8
  BY DEF packet_type, is_last, item_count, is_bid
<1>10. \A k \in 1 .. m : items[k] = new_from_scaled(levels[k], precision)
  BY <1>4, <1>6
<1>11. is_bid(160 + c + m) <=> bid
  BY <1>5, <1>9
<1>12. n <= MaxItems => m = n
  BY <1>1, <1>2 DEF MaxItems
<1>13. /\ "text" \notin DOMAIN p /\ "flags" \in DOMAIN p
  BY <1>7
<1> QED
  BY <1>1, <1>3, <1>7, <1>8, <1>9, <1>10, <1>11, <1>12, <1>13

\* What the monitor does with a datagram that was made of s.
LEMMA CountedIs ==
    ASSUME BinaryInv, NEW p \in Datagrams, NEW s \in Origins, Encodes(p, s)
    PROVE  /\ {"trades", "orderbooks"} \subseteq DOMAIN Counted(p)
           /\ Counted(p).orderbooks = 0
           /\ Counted(p).trades = monitor.trades + (IF s.what = "trade" THEN 1 ELSE 0)
<1>1. /\ {"trades", "orderbooks"} \subseteq DOMAIN monitor /\ monitor.trades \in Nat
      /\ monitor.orderbooks = 0
  <2>1. IsFiniteSet({i \in 1 .. Len(read) : source[i].what = "trade"})
    <3>1. PICK r \in Nat : r = Len(read)
      BY LenProperties DEF BinaryInv
    <3>2. IsFiniteSet(1 .. r)
      BY FS_Interval
    <3>3. {i \in 1 .. Len(read) : source[i].what = "trade"} \subseteq 1 .. r
      BY <3>1
    <3> QED
      BY <3>2, <3>3, FS_Subset
  <2> QED
    BY <2>1, FS_CardinalityType DEF BinaryInv
<1>2. CASE s.what \in {"CONN", "STATS"}
  <2>1. p = [text |-> s.what]
    BY <1>2 DEF Encodes
  <2>2. "text" \in DOMAIN p /\ p.text = s.what
    BY <2>1
  <2>3. Counted(p) = [monitor EXCEPT !.text = @ + 1, !.reported = IF p.text = "CONN" THEN @ \cup {p.text} ELSE @]
    BY <2>2 DEF Counted
  <2>4. s.what # "trade"
    BY <1>2
  <2>5. Counted(p).trades = monitor.trades /\ Counted(p).orderbooks = monitor.orderbooks
    BY <1>1, <2>3
  <2>6. {"trades", "orderbooks"} \subseteq DOMAIN Counted(p)
    BY <1>1, <2>3
  <2> QED
    BY <1>1, <2>4, <2>5, <2>6
<1>5. ASSUME "text" \notin DOMAIN p, NEW kind \in {1, 2}, packet_type(p.flags) = kind
      PROVE  /\ {"trades", "orderbooks"} \subseteq DOMAIN Counted(p)
             /\ Counted(p).orderbooks = monitor.orderbooks
             /\ Counted(p).trades = monitor.trades + (IF kind = 1 THEN 1 ELSE 0)
  <2>1. CASE kind = 1
    <3>1. Counted(p) = [monitor EXCEPT !.binary = @ + 1, !.orderbooks = @, !.trades = @ + 1]
      BY <1>5, <2>1 DEF Counted
    <3> QED
      BY <1>1, <2>1, <3>1
  <2>2. CASE kind = 2
    <3>1. Counted(p) = [monitor EXCEPT !.binary = @ + 1, !.orderbooks = @, !.trades = @]
      BY <1>5, <2>2 DEF Counted
    <3> QED
      BY <1>1, <2>2, <3>1
  <2> QED
    BY <2>1, <2>2
<1>3. CASE s.what = "trade"
  <2>1. p = from_trade(s.levels[1], s.precision)
    BY <1>3 DEF Encodes
  <2>2. "text" \notin DOMAIN p /\ p.flags = 145
    BY <2>1 DEF from_trade, set_flags_and_count
  <2>3. packet_type(p.flags) = 1
    BY <2>2 DEF packet_type
  <2> QED
    BY <1>1, <1>3, <1>5, <2>2, <2>3
<1>4. CASE s.what \in {"bids", "asks"}
  <2>1. p = from_orderbook(s.levels, s.what = "bids", s.precision)
    BY <1>4 DEF Encodes
  <2>2. s.levels \in Seq(Scaled) /\ s.precision \in Nat /\ (s.what = "bids") \in BOOLEAN
    BY DEF Origins
  <2>3. "text" \notin DOMAIN p /\ packet_type(p.flags) = 2
    <3>1. PICK levels \in Seq(Scaled), bid \in BOOLEAN, precision \in Nat : p = from_orderbook(levels, bid, precision)
      BY <2>1, <2>2
    <3> QED
      BY <3>1, BookIs
  <2> QED
    BY <1>1, <1>4, <1>5, <2>3
<1> QED
  BY <1>2, <1>3, <1>4 DEF Origins

\* The items of a packet are read back as they were, if they fit.
LEMMA ItemIs ==
    ASSUME NEW v \in Nat, NEW precision \in Nat, precision <= Digits, Fits(v, precision)
    PROVE  new_from_scaled(v, precision) = v * 10 ^ (Digits - precision)
<1>1. PICK w \in Nat : w = Word /\ w # 0
  BY BinaryAssumption
<1>2. CASE precision = Digits
  <2>1. 10 ^ (Digits - precision) = 1
    <3>1. Digits - precision = 0
      BY <1>2
    <3>2. 10 ^ 0 = 1
      OBVIOUS
    <3> QED
      BY <3>1, <3>2
  <2>2. v * 1 = v
    OBVIOUS
  <2>3. new_from_scaled(v, precision) = v
    BY <1>2 DEF new_from_scaled
  <2> QED
    BY <2>1, <2>2, <2>3
<1>3. CASE precision # Digits
  <2>1. Digits \in Nat /\ precision < Digits
    BY <1>3, BinaryAssumption
  <2>2. new_from_scaled(v, precision) = Wrapped(v * 10 ^ (Digits - precision))
    BY <1>3, <2>1 DEF new_from_scaled
  <2>3. PICK x \in -w .. w - 1 : x = v * 10 ^ (Digits - precision)
    BY <1>1 DEF Fits
  <2>4. Wrapped(x) = x
    <3>1. x + w \in 0 .. 2 * w - 1
      BY <2>3
    <3>2. PICK m \in Nat, y \in Nat : m = 2 * w /\ y = x + w /\ y < m
      BY <3>1
    <3>3. y % m = y
      BY <3>2
    <3>4. ((x + w) % (2 * w)) - w = x
      BY <3>2, <3>3
    <3> QED
      BY <1>1, <3>4 DEF Wrapped
  <2> QED
    BY <2>2, <2>3, <2>4
<1> QED
  BY <1>2, <1>3

\* What a datagram says of what it was made of.
LEMMA PacketIs ==
    ASSUME NEW p \in Datagrams, NEW s \in Origins, Encodes(p, s), "flags" \in DOMAIN p
    PROVE  /\ packet_type(p.flags) = (IF s.what = "trade" THEN 1 ELSE 2)
           /\ is_bid(p.flags) <=> s.what = "bids"
           /\ is_last(p.flags)
           /\ item_count(p.flags) = Len(p.items) /\ (Len(s.levels) <= MaxItems => Len(p.items) = Len(s.levels))
           /\ s.precision <= Digits =>
                \A k \in DOMAIN p.items : Fits(s.levels[k], s.precision) =>
                  p.items[k] = s.levels[k] * 10 ^ (Digits - s.precision)
<1>1. s.levels \in Seq(Scaled) /\ s.precision \in Nat
  BY DEF Origins
<1>2. s.what \notin {"CONN", "STATS"}
  <2> SUFFICES ASSUME s.what \in {"CONN", "STATS"} PROVE FALSE
    OBVIOUS
  <2>1. p = [text |-> s.what]
    BY DEF Encodes
  <2>2. DOMAIN p = {"text"}
    BY <2>1
  <2> QED
    BY <2>2
<1>3. CASE s.what = "trade"
  <2>1. PICK v \in Scaled : v = s.levels[1]
    BY <1>1, <1>3, ElementOfSeq DEF Encodes
  <2>2. v \in Nat /\ Len(s.levels) = 1 /\ p = from_trade(v, s.precision)
    BY <1>3, <2>1, BinaryAssumption DEF Encodes
  <2>3. p.flags = 145 /\ p.items = <<new_from_scaled(v, s.precision)>>
    BY <2>2 DEF from_trade, set_flags_and_count
  <2>4. packet_type(145) = 1 /\ ~is_bid(145) /\ is_last(145) /\ item_count(145) = 1
    BY DEF packet_type, is_bid, is_last, item_count
  <2>5. Len(p.items) = 1 /\ DOMAIN p.items = {1} /\ p.items[1] = new_from_scaled(v, s.precision)
    BY <2>3
  <2>6. ASSUME s.precision <= Digits, NEW k \in DOMAIN p.items, Fits(s.levels[k], s.precision)
        PROVE  p.items[k] = s.levels[k] * 10 ^ (Digits - s.precision)
    <3>1. k = 1
      BY <2>5, <2>6
    <3>2. Fits(v, s.precision)
      BY <2>1, <2>6, <3>1
    <3>3. new_from_scaled(v, s.precision) = v * 10 ^ (Digits - s.precision)
      BY <1>1, <2>2, <2>6, <3>2, ItemIs
    <3> QED
      BY <2>1, <2>5, <3>1, <3>3
  <2> QED
    BY <1>3, <2>2, <2>3, <2>4, <2>5, <2>6
<1>4. CASE s.what \in {"bids", "asks"}
  <2>1. PICK levels \in Seq(Scaled), bid \in BOOLEAN, precision \in Nat :
          levels = s.levels /\ bid = (s.what = "bids") /\ precision = s.precision
    BY <1>1
  <2>2. p = from_orderbook(levels, bid, precision)
    BY <1>4, <2>1 DEF Encodes
  <2>3. /\ packet_type(p.flags) = 2 /\ is_last(p.flags) /\ (is_bid(p.flags) <=> bid)
        /\ item_count(p.flags) = Len(p.items) /\ Len(p.items) <= Len(levels)
        /\ Len(p.items) \in Nat /\ DOMAIN p.items = 1 .. Len(p.items)
        /\ Len(levels) <= MaxItems => Len(p.items) = Len(levels)
        /\ \A k \in DOMAIN p.items : p.items[k] = new_from_scaled(levels[k], precision)
    BY <2>2, BookIs
  <2>4. ASSUME s.precision <= Digits, NEW k \in DOMAIN p.items, Fits(s.levels[k], s.precision)
        PROVE  p.items[k] = s.levels[k] * 10 ^ (Digits - s.precision)
    <3>1. levels[k] \in Nat
      <4>1. PICK n \in Nat, m \in Nat : n = Len(levels) /\ m = n /\ k \in 1 .. n
        <5>1. Len(levels) \in Nat
          BY LenProperties
        <5>2. PICK n \in Nat : n = Len(levels)
          BY <5>1
        <5>3. k \in DOMAIN p.items /\ DOMAIN p.items = 1 .. Len(p.items) /\ Len(p.items) <= n
          BY <2>3, <2>4, <5>2
        <5> QED
          BY <2>3, <5>2, <5>3
      <4> QED
        BY <4>1, ElementOfSeq, BinaryAssumption
    <3>2. new_from_scaled(levels[k], precision) = levels[k] * 10 ^ (Digits - precision)
      BY <2>1, <2>4, <3>1, ItemIs
    <3> QED
      BY <2>1, <2>3, <2>4, <3>2
  <2>5. s.what # "trade"
    BY <1>4
  <2> QED
    BY <2>1, <2>3, <2>4, <2>5
<1> QED
  BY <1>2, <1>3, <1>4 DEF Origins

\* The inductive invariant says what the monitor reads.
LEMMA BinaryShows == BinaryInv => BinaryReadsBack
<1> SUFFICES ASSUME BinaryInv PROVE BinaryReadsBack
  OBVIOUS
<1>1. PICK r \in Nat, f \in Nat : r = Len(read) /\ f = Len(in_flight)
  BY LenProperties DEF BinaryInv
<1>2. DOMAIN read = 1 .. r /\ Len(source) = r + f /\ source \in Seq(Origins)
  BY <1>1, LenProperties DEF BinaryInv
<1>3. ASSUME NEW i \in DOMAIN read PROVE read[i] \in Datagrams /\ source[i] \in Origins /\ Encodes(read[i], source[i])
  <2>1. i \in 1 .. Len(read) /\ i \in 1 .. Len(source)
    BY <1>1, <1>2, <1>3
  <2> QED
    BY <2>1, ElementOfSeq DEF BinaryInv
<1>4. ASSUME NEW i \in {j \in DOMAIN read : "flags" \in DOMAIN read[j]}
      PROVE  LET p == read[i]
                 s == source[i] IN
           /\ packet_type(p.flags) = (IF s.what = "trade" THEN 1 ELSE 2)
           /\ is_bid(p.flags) <=> s.what = "bids"
           /\ is_last(p.flags)
           /\ item_count(p.flags) = Len(p.items) /\ (Len(s.levels) <= MaxItems => Len(p.items) = Len(s.levels))
           /\ s.precision <= Digits =>
                \A k \in DOMAIN p.items : Fits(s.levels[k], s.precision) =>
                  p.items[k] = s.levels[k] * 10 ^ (Digits - s.precision)
  <2>1. PICK p \in Datagrams, s \in Origins : p = read[i] /\ s = source[i]
    BY <1>3
  <2>2. Encodes(p, s) /\ "flags" \in DOMAIN p
    BY <1>3, <2>1
  <2> QED
    BY <2>1, <2>2, PacketIs
<1>5. monitor.trades = Cardinality({i \in DOMAIN read : source[i].what = "trade"}) /\ monitor.orderbooks = 0
  BY <1>1, <1>2 DEF BinaryInv
<1> QED
  BY <1>4, <1>5 DEF BinaryReadsBack

\* A trade is put under way.
LEMMA SendTradeKeeps ==
    ASSUME BinaryInv, NEW v \in Scaled, NEW precision \in Nat, SendTrade(v, precision)
    PROVE  BinaryInv'
<1>1. PICK p \in Datagrams : p = from_trade(v, precision)
  BY DEF Datagrams
<1>2. PICK s \in Origins : s = [what |-> "trade", levels |-> <<v>>, precision |-> precision]
  <2>1. <<v>> \in Seq(Scaled)
    OBVIOUS
  <2> QED
    BY <2>1 DEF Origins
<1>3. Encodes(p, s)
  <2>1. s.what = "trade" /\ s.levels = <<v>> /\ Len(<<v>>) = 1 /\ <<v>>[1] = v /\ s.precision = precision
    BY <1>2
  <2> QED
    BY <1>1, <2>1 DEF Encodes
<1>4. Put(<<p>>, <<s>>)
  BY <1>1, <1>2 DEF SendTrade
<1> QED
  BY <1>3, <1>4, PutOneKeeps

\* One side of a book, with its origin.
LEMMA SideIs ==
    ASSUME NEW levels \in Seq(Scaled), NEW bid \in BOOLEAN, NEW precision \in Nat
    PROVE  \E p \in Datagrams, s \in Origins :
             /\ p = from_orderbook(levels, bid, precision)
             /\ s = [what |-> IF bid THEN "bids" ELSE "asks", levels |-> levels, precision |-> precision]
             /\ Encodes(p, s)
<1>1. PICK p \in Datagrams : p = from_orderbook(levels, bid, precision)
  BY DEF Datagrams
<1>2. PICK what \in {"bids", "asks"} : what = (IF bid THEN "bids" ELSE "asks")
  OBVIOUS
<1>3. PICK s \in Origins : s = [what |-> what, levels |-> levels, precision |-> precision]
  BY DEF Origins
<1>4. Encodes(p, s)
  <2>1. s.what = what /\ s.levels = levels /\ s.precision = precision /\ (what = "bids") = bid
    BY <1>2, <1>3
  <2> QED
    BY <1>1, <2>1 DEF Encodes
<1> QED
  BY <1>1, <1>2, <1>3, <1>4

\* Nothing before or after a sequence.
LEMMA EmptyJoined == ASSUME NEW S, NEW f \in Seq(S) PROVE <<>> \o f = f /\ f \o <<>> = f
<1>1. <<>> \o f = f
  OBVIOUS
<1>2. f \o <<>> = f
  OBVIOUS
<1> QED
  BY <1>1, <1>2

\* Two elements, one after the other.
LEMMA PairJoined ==
    ASSUME NEW S, NEW a \in S, NEW b \in S
    PROVE  \E w \in Seq(S) : w = <<a>> \o <<b>> /\ Len(w) = 2 /\ w[1] = a /\ w[2] = b
<1>1. <<a>> \in Seq(S) /\ Len(<<a>>) = 1 /\ <<a>>[1] = a
  OBVIOUS
<1>2. <<b>> \in Seq(S) /\ Len(<<b>>) = 1 /\ <<b>>[1] = b
  OBVIOUS
<1>3. PICK u \in Seq(S) : u = <<a>> /\ Len(u) = 1 /\ u[1] = a
  BY <1>1
<1>4. PICK v \in Seq(S) : v = <<b>> /\ Len(v) = 1 /\ v[1] = b
  BY <1>2
<1>5. PICK w : w = u \o v
  OBVIOUS
<1>6. w \in Seq(S) /\ Len(w) = 1 + 1 /\ \A i \in 1 .. 1 + 1 : w[i] = IF i <= 1 THEN u[i] ELSE v[i - 1]
  BY <1>3, <1>4, <1>5, TwoJoined
<1>7. Len(w) = 2 /\ w[1] = a /\ w[2] = b
  BY <1>3, <1>4, <1>6
<1> QED
  BY <1>3, <1>4, <1>5, <1>6, <1>7

\* Two sides of a book are put under way, those that are not empty.
LEMMA SendBookKeeps ==
    ASSUME BinaryInv, NEW bids \in Seq(Scaled), NEW asks \in Seq(Scaled), NEW precision \in Nat,
           SendBook(bids, asks, precision)
    PROVE  BinaryInv'
<1>1. PICK p \in Datagrams, s \in Origins :
        /\ p = from_orderbook(bids, TRUE, precision)
        /\ s = [what |-> "bids", levels |-> bids, precision |-> precision]
        /\ Encodes(p, s)
  <2>1. \E p \in Datagrams, s \in Origins :
             /\ p = from_orderbook(bids, TRUE, precision)
             /\ s = [what |-> IF TRUE THEN "bids" ELSE "asks", levels |-> bids, precision |-> precision]
             /\ Encodes(p, s)
    BY SideIs
  <2> QED
    BY <2>1
<1>2. PICK q \in Datagrams, t \in Origins :
        /\ q = from_orderbook(asks, FALSE, precision)
        /\ t = [what |-> "asks", levels |-> asks, precision |-> precision]
        /\ Encodes(q, t)
  <2>1. \E q \in Datagrams, t \in Origins :
             /\ q = from_orderbook(asks, FALSE, precision)
             /\ t = [what |-> IF FALSE THEN "bids" ELSE "asks", levels |-> asks, precision |-> precision]
             /\ Encodes(q, t)
    BY SideIs
  <2> QED
    BY <2>1
<1>3. Put(SidePackets(bids, asks, precision), SideSources(bids, asks, precision))
  BY DEF SendBook
<1>4. ASSUME NEW added \in Seq(Datagrams), NEW made \in Seq(Origins), Len(added) = Len(made),
             \A i \in 1 .. Len(added) : Encodes(added[i], made[i]),
             SidePackets(bids, asks, precision) = added, SideSources(bids, asks, precision) = made
      PROVE  BinaryInv'
  <2>1. Put(added, made)
    BY <1>3, <1>4
  <2> QED
    BY <1>4, <2>1, PutKeeps
<1>5. /\ <<p>> \in Seq(Datagrams) /\ <<q>> \in Seq(Datagrams)
      /\ <<s>> \in Seq(Origins) /\ <<t>> \in Seq(Origins)
      /\ <<>> \in Seq(Datagrams) /\ <<>> \in Seq(Origins)
  OBVIOUS
<1>10. /\ <<>> \o <<q>> = <<q>> /\ <<>> \o <<t>> = <<t>>
       /\ <<p>> \o <<>> = <<p>> /\ <<s>> \o <<>> = <<s>>
       /\ <<>> \o <<>> = <<>>
  BY <1>5, EmptyJoined
<1>11. \A i \in 1 .. 1 : i = 1
  OBVIOUS
<1>6. CASE bids = <<>> /\ asks = <<>>
  <2>1. SidePackets(bids, asks, precision) = <<>> /\ SideSources(bids, asks, precision) = <<>>
    BY <1>6, <1>10 DEF SidePackets, SideSources
  <2>2. Len(<<>>) = 0 /\ \A i \in 1 .. Len(<<>>) : Encodes(<<>>[i], <<>>[i])
    OBVIOUS
  <2> QED
    BY <1>4, <1>5, <2>1, <2>2
<1>7. CASE bids = <<>> /\ asks # <<>>
  <2>1. SidePackets(bids, asks, precision) = <<q>> /\ SideSources(bids, asks, precision) = <<t>>
    BY <1>2, <1>7, <1>10 DEF SidePackets, SideSources
  <2>2. Len(<<q>>) = 1 /\ Len(<<t>>) = 1 /\ <<q>>[1] = q /\ <<t>>[1] = t
    OBVIOUS
  <2>3. \A i \in 1 .. 1 : Encodes(<<q>>[i], <<t>>[i])
    BY <1>2, <1>11, <2>2
  <2> QED
    BY <1>4, <1>5, <2>1, <2>2, <2>3
<1>8. CASE bids # <<>> /\ asks = <<>>
  <2>1. SidePackets(bids, asks, precision) = <<p>> /\ SideSources(bids, asks, precision) = <<s>>
    BY <1>1, <1>8, <1>10 DEF SidePackets, SideSources
  <2>2. Len(<<p>>) = 1 /\ Len(<<s>>) = 1 /\ <<p>>[1] = p /\ <<s>>[1] = s
    OBVIOUS
  <2>3. \A i \in 1 .. 1 : Encodes(<<p>>[i], <<s>>[i])
    BY <1>1, <1>11, <2>2
  <2> QED
    BY <1>4, <1>5, <2>1, <2>2, <2>3
<1>9. CASE bids # <<>> /\ asks # <<>>
  <2>1. SidePackets(bids, asks, precision) = <<p>> \o <<q>> /\ SideSources(bids, asks, precision) = <<s>> \o <<t>>
    BY <1>1, <1>2, <1>9 DEF SidePackets, SideSources
  <2>2. PICK v \in Seq(Datagrams) : v = <<p>> \o <<q>> /\ Len(v) = 2 /\ v[1] = p /\ v[2] = q
    BY PairJoined
  <2>3. PICK w \in Seq(Origins) : w = <<s>> \o <<t>> /\ Len(w) = 2 /\ w[1] = s /\ w[2] = t
    BY PairJoined
  <2>4. \A i \in 1 .. 2 : i = 1 \/ i = 2
    OBVIOUS
  <2>5. \A i \in 1 .. Len(v) : Encodes(v[i], w[i])
    BY <1>1, <1>2, <2>2, <2>3, <2>4
  <2> QED
    BY <1>4, <2>1, <2>2, <2>3, <2>5
<1> QED
  BY <1>6, <1>7, <1>8, <1>9

\* A text is put under way.
LEMMA SendTextKeeps ==
    ASSUME BinaryInv, NEW what \in {"CONN", "STATS"}, SendText(what)
    PROVE  BinaryInv'
<1>1. PICK p \in Datagrams : p = [text |-> what]
  <2>1. [text |-> what] \in {[text |-> w] : w \in {"CONN", "STATS"}}
    OBVIOUS
  <2>2. [text |-> what] \in Datagrams
    BY <2>1 DEF Datagrams
  <2> QED
    BY <2>2
<1>2. PICK s \in Origins : s = [what |-> what, levels |-> <<>>, precision |-> Digits]
  <2>1. <<>> \in Seq(Scaled) /\ Digits \in Nat
    BY BinaryAssumption
  <2> QED
    BY <2>1 DEF Origins
<1>3. Encodes(p, s)
  <2>1. s.what = what
    BY <1>2
  <2> QED
    BY <1>1, <2>1 DEF Encodes
<1>4. Put(<<p>>, <<s>>)
  BY <1>1, <1>2 DEF SendText
<1> QED
  BY <1>3, <1>4, PutOneKeeps

\* The oldest datagram is read.
LEMMA ReadPacketKeeps == ASSUME BinaryInv, ReadPacket PROVE BinaryInv'
<1>1. PICK r \in Nat, f \in Nat : r = Len(read) /\ f = Len(in_flight)
  BY LenProperties DEF BinaryInv
<1>2. /\ in_flight # <<>> /\ in_flight' = Tail(in_flight) /\ read' = Append(read, Head(in_flight))
      /\ monitor' = Counted(Head(in_flight)) /\ source' = source
      /\ read \in Seq(Datagrams) /\ in_flight \in Seq(Datagrams) /\ source \in Seq(Origins) /\ Len(source) = r + f
  BY <1>1 DEF ReadPacket, BinaryInv
<1>3. PICK p \in Datagrams : p = Head(in_flight) /\ p = in_flight[1]
  BY <1>2, HeadTailProperties
<1>4. f > 0
  BY <1>1, <1>2, EmptySeq
<1>5. /\ in_flight' \in Seq(Datagrams) /\ Len(in_flight') = f - 1
      /\ \A i \in 1 .. f - 1 : in_flight'[i] = in_flight[i + 1]
  BY <1>1, <1>2, <1>4
<1>6. /\ read' \in Seq(Datagrams) /\ Len(read') = r + 1 /\ read'[r + 1] = p
      /\ \A i \in 1 .. r : read'[i] = read[i]
  BY <1>1, <1>2, <1>3
<1>7. PICK s \in Origins : s = source[r + 1]
  <2>1. r + 1 \in 1 .. Len(source)
    BY <1>2, <1>4
  <2> QED
    BY <1>2, <2>1, ElementOfSeq
<1>8. \A i \in 1 .. f : Encodes(in_flight[i], source[r + i])
  BY <1>1 DEF BinaryInv
<1>9. Encodes(p, s)
  BY <1>3, <1>4, <1>7, <1>8
<1>10. \A i \in 1 .. r + 1 : Encodes(read'[i], source'[i])
  <2> TAKE i \in 1 .. r + 1
  <2>1. CASE i = r + 1
    BY <1>2, <1>6, <1>7, <1>9, <2>1
  <2>2. CASE i # r + 1
    <3>1. i \in 1 .. r
      BY <2>2
    <3>2. Encodes(read[i], source[i])
      BY <1>1, <3>1 DEF BinaryInv
    <3> QED
      BY <1>2, <1>6, <3>1, <3>2
  <2> QED
    BY <2>1, <2>2
<1>11. \A i \in 1 .. f - 1 : Encodes(in_flight'[i], source'[(r + 1) + i])
  <2> TAKE i \in 1 .. f - 1
  <2>1. PICK j \in 1 .. f : j = i + 1 /\ r + j = (r + 1) + i
    OBVIOUS
  <2>2. Encodes(in_flight[j], source[r + j])
    BY <1>8
  <2> QED
    BY <1>2, <1>5, <2>1, <2>2
<1>12. DEFINE T == {i \in 1 .. r : source[i].what = "trade"}
<1>13. IsFiniteSet(T) /\ r + 1 \notin T
  <2>1. IsFiniteSet(1 .. r)
    BY FS_Interval
  <2>2. T \subseteq 1 .. r
    OBVIOUS
  <2> QED
    BY <2>1, <2>2, FS_Subset
<1>14. monitor.trades = Cardinality(T)
  BY <1>1 DEF BinaryInv
<1>15. Cardinality({i \in 1 .. r + 1 : source[i].what = "trade"}) = Cardinality(T) + (IF s.what = "trade" THEN 1 ELSE 0)
  <2>1. CASE s.what = "trade"
    <3>1. {i \in 1 .. r + 1 : source[i].what = "trade"} = T \cup {r + 1}
      BY <1>7, <2>1
    <3>2. Cardinality(T \cup {r + 1}) = Cardinality(T) + 1
      BY <1>13, FS_AddElement
    <3> QED
      BY <2>1, <3>1, <3>2
  <2>2. CASE s.what # "trade"
    <3>1. {i \in 1 .. r + 1 : source[i].what = "trade"} = T
      BY <1>7, <2>2
    <3>2. Cardinality(T) \in Nat
      BY <1>13, FS_CardinalityType
    <3>3. PICK c \in Nat : c = Cardinality(T)
      BY <3>2
    <3>4. (IF s.what = "trade" THEN 1 ELSE 0) = 0
      BY <2>2
    <3>5. c = c + 0
      OBVIOUS
    <3> QED
      BY <3>1, <3>3, <3>4, <3>5
  <2> QED
    BY <2>1, <2>2
<1> HIDE DEF T
<1>16. /\ {"trades", "orderbooks"} \subseteq DOMAIN Counted(p) /\ Counted(p).orderbooks = 0
       /\ Counted(p).trades = monitor.trades + (IF s.what = "trade" THEN 1 ELSE 0)
  BY <1>9, CountedIs
<1>17. /\ {"trades", "orderbooks"} \subseteq DOMAIN monitor' /\ monitor'.orderbooks = 0
       /\ monitor'.trades = Cardinality({i \in 1 .. r + 1 : source'[i].what = "trade"})
  BY <1>2, <1>3, <1>14, <1>15, <1>16
<1>18. Len(source') = (r + 1) + (f - 1)
  BY <1>2, <1>4
<1> QED
  BY <1>2, <1>5, <1>6, <1>10, <1>11, <1>17, <1>18 DEF BinaryInv

\* Every step keeps the invariant.
LEMMA BinarySteps == BinaryInv /\ [BinaryNext]_yvars => BinaryInv'
<1> SUFFICES ASSUME BinaryInv, [BinaryNext]_yvars PROVE BinaryInv'
  OBVIOUS
<1>1. CASE ReadPacket
  BY <1>1, ReadPacketKeeps
<1>2. ASSUME NEW v \in Scaled, NEW precision \in Precisions, SendTrade(v, precision) PROVE BinaryInv'
  BY <1>2, SendTradeKeeps, BinaryAssumption
<1>3. ASSUME NEW bids \in Ladders, NEW asks \in Ladders, NEW precision \in Precisions, SendBook(bids, asks, precision)
      PROVE  BinaryInv'
  <2>1. ASSUME NEW l \in Ladders PROVE l \in Seq(Scaled)
    <3>1. PICK n \in Nat, v \in Scaled : l = [i \in 1 .. n |-> v]
      BY BinaryAssumption DEF Ladders
    <3> QED
      BY <3>1
  <2>2. bids \in Seq(Scaled) /\ asks \in Seq(Scaled) /\ precision \in Nat
    BY <2>1, BinaryAssumption
  <2> QED
    BY <1>3, <2>2, SendBookKeeps
<1>4. ASSUME NEW what \in {"CONN", "STATS"}, SendText(what) PROVE BinaryInv'
  BY <1>4, SendTextKeeps
<1>5. CASE UNCHANGED yvars
  <2>1. in_flight' = in_flight /\ read' = read /\ source' = source /\ monitor' = monitor
    BY <1>5 DEF yvars
  <2> QED
    BY <2>1 DEF BinaryInv
<1> QED
  BY <1>1, <1>2, <1>3, <1>4, <1>5 DEF BinaryNext

\* Whatever is sent, a binary datagram is read as what it was made of: kind, side,
\* number of items and the first levels, exact where they fit; and udp_monitor counts
\* every trade and not one order book.
THEOREM BinaryAlwaysReadsBack == BinarySpec => []BinaryReadsBack
<1>1. BinaryInit => BinaryInv
  BY BinaryStarts
<1>2. BinaryInv /\ [BinaryNext]_yvars => BinaryInv'
  BY BinarySteps
<1>3. BinaryInv => BinaryReadsBack
  BY BinaryShows
<1> QED
  BY <1>1, <1>2, <1>3, PTL DEF BinarySpec

--------------------------------------------------------------------------------
(* Trace analyzers: neighbours of a key in a trace.                        *)

\* b is the next datagram of key k after a in the trace.
IsNext(t, a, b, k) ==
    /\ a < b /\ t[a].key = k /\ t[b].key = k
    /\ \A i \in a + 1 .. b - 1 : t[i].key # k

\* v is the stamp of the last datagram of key k among the first n, None if there is none.
LatestOf(t, n, k, v) ==
    \/ v = None /\ \A i \in 1 .. n : t[i].key # k
    \/ \E m \in 1 .. n : /\ t[m].key = k /\ t[m].stamp = v
                         /\ \A i \in m + 1 .. n : t[i].key # k

\* Neighbours, pair by pair.
LEMMA NeighboursAre ==
    ASSUME NEW t, NEW n \in Nat, NEW k
    PROVE  /\ \A a, b \in 1 .. n : <<a, b>> \in Neighbours(t, n, k) <=> IsNext(t, a, b, k)
           /\ \A e \in Neighbours(t, n, k) : \E a, b \in 1 .. n : e = <<a, b>> /\ IsNext(t, a, b, k)
           /\ \A a, b : <<a, b>> \in Neighbours(t, n, k) => a \in 1 .. n /\ b \in 1 .. n
<1>1. ASSUME NEW a \in 1 .. n, NEW b \in 1 .. n PROVE <<a, b>> \in Neighbours(t, n, k) <=> IsNext(t, a, b, k)
  <2>1. <<a, b>> \in (1 .. n) \X (1 .. n) /\ <<a, b>>[1] = a /\ <<a, b>>[2] = b
    OBVIOUS
  <2> QED
    BY <2>1 DEF Neighbours, IsNext
<1>2. ASSUME NEW e \in Neighbours(t, n, k) PROVE \E a, b \in 1 .. n : e = <<a, b>> /\ IsNext(t, a, b, k)
  <2>1. e \in (1 .. n) \X (1 .. n)
    BY DEF Neighbours
  <2>2. PICK a \in 1 .. n, b \in 1 .. n : e = <<a, b>>
    BY <2>1
  <2> QED
    BY <1>1, <2>2
<1>3. ASSUME NEW a, NEW b, <<a, b>> \in Neighbours(t, n, k) PROVE a \in 1 .. n /\ b \in 1 .. n
  <2>1. <<a, b>> \in (1 .. n) \X (1 .. n)
    BY <1>3 DEF Neighbours
  <2> QED
    BY <2>1
<1> QED
  BY <1>1, <1>2, <1>3

\* A fall is two neighbours.
LEMMA FallIs ==
    ASSUME NEW t, NEW n \in Nat, NEW k, NEW e \in Falls(t, n, k)
    PROVE  \E a, b \in 1 .. n : e = <<a, b>> /\ IsNext(t, a, b, k) /\ t[b].stamp < t[a].stamp
<1>1. e \in Neighbours(t, n, k) /\ t[e[2]].stamp < t[e[1]].stamp
  BY DEF Falls
<1>2. PICK a \in 1 .. n, b \in 1 .. n : e = <<a, b>> /\ IsNext(t, a, b, k)
  BY <1>1, NeighboursAre
<1>3. e[1] = a /\ e[2] = b
  BY <1>2
<1> QED
  BY <1>1, <1>2, <1>3

\* Falls, pair by pair, and there are finitely many.
LEMMA FallsAre ==
    ASSUME NEW t, NEW n \in Nat, NEW k
    PROVE  /\ \A a, b \in 1 .. n : <<a, b>> \in Falls(t, n, k) <=> IsNext(t, a, b, k) /\ t[b].stamp < t[a].stamp
           /\ \A a, b : <<a, b>> \in Falls(t, n, k) => a \in 1 .. n /\ b \in 1 .. n
           /\ IsFiniteSet(Falls(t, n, k)) /\ Descents(t, n, k) \in Nat
<1>1. ASSUME NEW a \in 1 .. n, NEW b \in 1 .. n
      PROVE  <<a, b>> \in Falls(t, n, k) <=> IsNext(t, a, b, k) /\ t[b].stamp < t[a].stamp
  <2>1. <<a, b>>[1] = a /\ <<a, b>>[2] = b
    OBVIOUS
  <2>2. <<a, b>> \in Neighbours(t, n, k) <=> IsNext(t, a, b, k)
    BY NeighboursAre
  <2> QED
    BY <2>1, <2>2 DEF Falls
<1>3. ASSUME NEW a, NEW b, <<a, b>> \in Falls(t, n, k) PROVE a \in 1 .. n /\ b \in 1 .. n
  <2>1. <<a, b>> \in Neighbours(t, n, k)
    BY <1>3 DEF Falls
  <2> QED
    BY <2>1, NeighboursAre
<1>4. IsFiniteSet(Falls(t, n, k))
  <2>1. IsFiniteSet(1 .. n)
    BY FS_Interval
  <2>2. IsFiniteSet((1 .. n) \X (1 .. n))
    BY <2>1, FS_Product
  <2>3. Falls(t, n, k) \subseteq (1 .. n) \X (1 .. n)
    BY DEF Falls, Neighbours
  <2> QED
    BY <2>2, <2>3, FS_Subset
<1>5. Descents(t, n, k) \in Nat
  BY <1>4, FS_CardinalityType DEF Descents
<1> QED
  BY <1>1, <1>3, <1>4, <1>5

\* What follows in a trace does not change the neighbours among the first n.
LEMMA SameStart ==
    ASSUME NEW t, NEW u, NEW n \in Nat, \A i \in 1 .. n : u[i] = t[i], NEW k
    PROVE  /\ Falls(u, n, k) = Falls(t, n, k) /\ Descents(u, n, k) = Descents(t, n, k)
           /\ \A a, b \in 1 .. n : IsNext(u, a, b, k) <=> IsNext(t, a, b, k)
           /\ \A v : LatestOf(t, n, k, v) => LatestOf(u, n, k, v)
<1>1. ASSUME NEW a \in 1 .. n, NEW b \in 1 .. n PROVE IsNext(u, a, b, k) <=> IsNext(t, a, b, k)
  <2>1. \A i \in a + 1 .. b - 1 : i \in 1 .. n
    OBVIOUS
  <2>2. (\A i \in a + 1 .. b - 1 : u[i].key # k) <=> (\A i \in a + 1 .. b - 1 : t[i].key # k)
    BY <2>1
  <2> QED
    BY <2>2 DEF IsNext
<1>2. ASSUME NEW e \in Falls(u, n, k) PROVE e \in Falls(t, n, k)
  <2>1. PICK a \in 1 .. n, b \in 1 .. n : e = <<a, b>> /\ IsNext(u, a, b, k) /\ u[b].stamp < u[a].stamp
    BY FallIs
  <2>2. IsNext(t, a, b, k) /\ t[b].stamp < t[a].stamp
    BY <1>1, <2>1
  <2> QED
    BY <2>1, <2>2, FallsAre
<1>3. ASSUME NEW e \in Falls(t, n, k) PROVE e \in Falls(u, n, k)
  <2>1. PICK a \in 1 .. n, b \in 1 .. n : e = <<a, b>> /\ IsNext(t, a, b, k) /\ t[b].stamp < t[a].stamp
    BY FallIs
  <2>2. IsNext(u, a, b, k) /\ u[b].stamp < u[a].stamp
    BY <1>1, <2>1
  <2> QED
    BY <2>1, <2>2, FallsAre
<1>4. Falls(u, n, k) = Falls(t, n, k)
  BY <1>2, <1>3
<1>5. Descents(u, n, k) = Descents(t, n, k)
  BY <1>4 DEF Descents
<1>6. ASSUME NEW v, LatestOf(t, n, k, v) PROVE LatestOf(u, n, k, v)
  <2>1. CASE v = None /\ \A i \in 1 .. n : t[i].key # k
    BY <2>1 DEF LatestOf
  <2>2. CASE \E m \in 1 .. n : t[m].key = k /\ t[m].stamp = v /\ \A i \in m + 1 .. n : t[i].key # k
    <3>1. PICK m \in 1 .. n : t[m].key = k /\ t[m].stamp = v /\ \A i \in m + 1 .. n : t[i].key # k
      BY <2>2
    <3>2. \A i \in m + 1 .. n : i \in 1 .. n
      OBVIOUS
    <3>3. u[m].key = k /\ u[m].stamp = v /\ \A i \in m + 1 .. n : u[i].key # k
      BY <3>1, <3>2
    <3> QED
      BY <3>3 DEF LatestOf
  <2> QED
    BY <1>6, <2>1, <2>2 DEF LatestOf
<1> QED
  BY <1>1, <1>4, <1>5, <1>6

\* One datagram more: what it adds to the falls of a key is that it is below the last one.
LEMMA OneDatagramMore ==
    ASSUME NEW t, NEW u, NEW n \in Nat, \A i \in 1 .. n : u[i] = t[i], NEW k
    PROVE  /\ \A e \in Falls(t, n, k) : e \in Falls(u, n + 1, k)
           /\ \A e \in Falls(u, n + 1, k) :
                \/ e \in Falls(t, n, k)
                \/ \E a \in 1 .. n : e = <<a, n + 1>> /\ IsNext(u, a, n + 1, k) /\ u[n + 1].stamp < u[a].stamp
<1>1. \A i \in 1 .. n + 1 : i \in 1 .. n \/ i = n + 1
  OBVIOUS
<1>2. \A a, b \in 1 .. n : IsNext(u, a, b, k) <=> IsNext(t, a, b, k)
  BY SameStart
<1>3. \A i \in 1 .. n : i \in 1 .. n + 1
  OBVIOUS
<1>4. ASSUME NEW e \in Falls(t, n, k) PROVE e \in Falls(u, n + 1, k)
  <2>1. PICK a \in 1 .. n, b \in 1 .. n : e = <<a, b>> /\ IsNext(t, a, b, k) /\ t[b].stamp < t[a].stamp
    BY FallIs
  <2>2. IsNext(u, a, b, k) /\ u[b].stamp < u[a].stamp /\ a \in 1 .. n + 1 /\ b \in 1 .. n + 1
    BY <1>2, <1>3, <2>1
  <2>3. PICK n1 \in Nat : n1 = n + 1
    OBVIOUS
  <2>4. <<a, b>> \in Falls(u, n1, k)
    BY <2>2, <2>3, FallsAre
  <2> QED
    BY <2>1, <2>3, <2>4
<1>5. ASSUME NEW e \in Falls(u, n + 1, k)
      PROVE  \/ e \in Falls(t, n, k)
             \/ \E a \in 1 .. n : e = <<a, n + 1>> /\ IsNext(u, a, n + 1, k) /\ u[n + 1].stamp < u[a].stamp
  <2>1. PICK n1 \in Nat : n1 = n + 1
    OBVIOUS
  <2>2. PICK a \in 1 .. n1, b \in 1 .. n1 : e = <<a, b>> /\ IsNext(u, a, b, k) /\ u[b].stamp < u[a].stamp
    <3>1. e \in Falls(u, n1, k)
      BY <1>5, <2>1
    <3> QED
      BY <3>1, FallIs
  <2>3. a < b
    BY <2>2 DEF IsNext
  <2>4. a \in 1 .. n
    BY <2>1, <2>2, <2>3
  <2>5. CASE b \in 1 .. n
    <3>1. IsNext(t, a, b, k) /\ t[b].stamp < t[a].stamp
      BY <1>2, <2>2, <2>4, <2>5
    <3>2. <<a, b>> \in Falls(t, n, k)
      BY <2>4, <2>5, <3>1, FallsAre
    <3> QED
      BY <2>2, <3>2
  <2>6. CASE b = n + 1
    BY <2>2, <2>4, <2>6
  <2> QED
    BY <1>1, <2>1, <2>2, <2>5, <2>6
<1> QED
  BY <1>4, <1>5

\* One of another key changes nothing for this one;
LEMMA OtherKey ==
    ASSUME NEW t, NEW u, NEW n \in Nat, \A i \in 1 .. n : u[i] = t[i], NEW k, NEW v, LatestOf(t, n, k, v),
           u[n + 1].key # k
    PROVE  Descents(u, n + 1, k) = Descents(t, n, k) /\ LatestOf(u, n + 1, k, v)
<1>0. \A i \in 1 .. n + 1 : i \in 1 .. n \/ i = n + 1
  OBVIOUS
<1>7. \A i \in 1 .. n : i \in 1 .. n + 1
  OBVIOUS
<1>1. Falls(u, n + 1, k) = Falls(t, n, k)
  <2>1. \A a \in 1 .. n : ~IsNext(u, a, n + 1, k)
    BY DEF IsNext
  <2>2. ASSUME NEW e \in Falls(u, n + 1, k) PROVE e \in Falls(t, n, k)
    BY <2>1, OneDatagramMore
  <2>3. ASSUME NEW e \in Falls(t, n, k) PROVE e \in Falls(u, n + 1, k)
    BY OneDatagramMore
  <2> QED
    BY <2>2, <2>3
<1>2. LatestOf(u, n + 1, k, v)
  <2>1. LatestOf(u, n, k, v)
    BY SameStart
  <2>2. CASE v = None /\ \A i \in 1 .. n : u[i].key # k
    <3>1. \A i \in 1 .. n + 1 : u[i].key # k
      BY <1>0, <2>2
    <3> QED
      BY <2>2, <3>1 DEF LatestOf
  <2>3. CASE \E m \in 1 .. n : u[m].key = k /\ u[m].stamp = v /\ \A i \in m + 1 .. n : u[i].key # k
    <3>1. PICK m \in 1 .. n : u[m].key = k /\ u[m].stamp = v /\ \A i \in m + 1 .. n : u[i].key # k
      BY <2>3
    <3>2. \A i \in m + 1 .. n + 1 : i \in m + 1 .. n \/ i = n + 1
      OBVIOUS
    <3>3. \A i \in m + 1 .. n + 1 : u[i].key # k
      BY <3>1, <3>2
    <3> QED
      BY <1>7, <3>1, <3>3 DEF LatestOf
  <2> QED
    BY <2>1, <2>2, <2>3 DEF LatestOf
<1> QED
  BY <1>1, <1>2 DEF Descents

\* the first of its key falls from nothing;
LEMMA FirstOfKey ==
    ASSUME NEW t, NEW u, NEW n \in Nat, \A i \in 1 .. n : u[i] = t[i], NEW k, LatestOf(t, n, k, None),
           u[n + 1].key = k, \A i \in 1 .. n : t[i].stamp # None
    PROVE  Descents(u, n + 1, k) = Descents(t, n, k)
<1>1. \A i \in 1 .. n : t[i].key # k
  BY DEF LatestOf
<1>2. \A a \in 1 .. n : ~IsNext(u, a, n + 1, k)
  BY <1>1 DEF IsNext
<1>3. ASSUME NEW e \in Falls(u, n + 1, k) PROVE e \in Falls(t, n, k)
  BY <1>2, OneDatagramMore
<1>4. ASSUME NEW e \in Falls(t, n, k) PROVE e \in Falls(u, n + 1, k)
  BY OneDatagramMore
<1>5. Falls(u, n + 1, k) = Falls(t, n, k)
  BY <1>3, <1>4
<1> QED
  BY <1>5 DEF Descents

\* a later one has the last before it as its neighbour,
LEMMA LastBefore ==
    ASSUME NEW t, NEW u, NEW n \in Nat, \A i \in 1 .. n : u[i] = t[i], NEW k, u[n + 1].key = k,
           NEW m \in 1 .. n, t[m].key = k, \A i \in m + 1 .. n : t[i].key # k
    PROVE  IsNext(u, m, n + 1, k) /\ \A a \in 1 .. n : IsNext(u, a, n + 1, k) => a = m
<1>2. \A i \in m + 1 .. n : i \in 1 .. n
  OBVIOUS
<1>3. u[m].key = k /\ \A i \in m + 1 .. n : u[i].key # k
  BY <1>2
<1>4. IsNext(u, m, n + 1, k)
  <2>1. m < n + 1 /\ (n + 1) - 1 = n
    OBVIOUS
  <2> QED
    BY <1>3, <2>1 DEF IsNext
<1>5. ASSUME NEW a \in 1 .. n, IsNext(u, a, n + 1, k) PROVE a = m
  <2>1. u[a].key = k /\ \A i \in a + 1 .. (n + 1) - 1 : u[i].key # k
    BY <1>5 DEF IsNext
  <2>2. ~(m \in a + 1 .. n)
    BY <1>3, <2>1
  <2>3. ~(a \in m + 1 .. n)
    BY <1>3, <2>1
  <2> QED
    BY <2>2, <2>3
<1> QED
  BY <1>4, <1>5

\* and falls if that has a later stamp.
LEMMA LaterOfKey ==
    ASSUME NEW t, NEW u, NEW n \in Nat, \A i \in 1 .. n : u[i] = t[i], NEW k, NEW v, LatestOf(t, n, k, v), v # None,
           u[n + 1].key = k
    PROVE  Descents(u, n + 1, k) = Descents(t, n, k) + (IF u[n + 1].stamp < v THEN 1 ELSE 0)
<1>4. PICK m \in 1 .. n : t[m].key = k /\ t[m].stamp = v /\ \A i \in m + 1 .. n : t[i].key # k
  BY DEF LatestOf
<1>1. u[m].stamp = v /\ IsNext(u, m, n + 1, k) /\ \A a \in 1 .. n : IsNext(u, a, n + 1, k) => a = m
  <2>1. u[m].stamp = v
    BY <1>4
  <2>2. IsNext(u, m, n + 1, k)
    BY <1>4, LastBefore
  <2>3. ASSUME NEW a \in 1 .. n, IsNext(u, a, n + 1, k) PROVE a = m
    BY <1>4, <2>3, LastBefore
  <2> QED
    BY <2>1, <2>2, <2>3
<1>2. CASE u[n + 1].stamp < v
  <2>1. Falls(u, n + 1, k) = Falls(t, n, k) \cup {<<m, n + 1>>}
    <3>1. <<m, n + 1>> \in Falls(u, n + 1, k)
      <4>1. PICK n1 \in Nat : n1 = n + 1
        OBVIOUS
      <4>2. m \in 1 .. n1 /\ n1 \in 1 .. n1 /\ IsNext(u, m, n1, k) /\ u[n1].stamp < u[m].stamp
        BY <1>1, <1>2, <4>1
      <4>3. <<m, n1>> \in Falls(u, n1, k)
        BY <4>2, FallsAre
      <4> QED
        BY <4>1, <4>3
    <3>2. ASSUME NEW e \in Falls(u, n + 1, k) PROVE e \in Falls(t, n, k) \cup {<<m, n + 1>>}
      <4>1. \/ e \in Falls(t, n, k)
            \/ \E a \in 1 .. n : e = <<a, n + 1>> /\ IsNext(u, a, n + 1, k) /\ u[n + 1].stamp < u[a].stamp
        BY <3>2, OneDatagramMore
      <4> QED
        BY <1>1, <4>1
    <3>3. ASSUME NEW e \in Falls(t, n, k) PROVE e \in Falls(u, n + 1, k)
      BY OneDatagramMore
    <3> QED
      BY <3>1, <3>2, <3>3
  <2>2. <<m, n + 1>> \notin Falls(t, n, k)
    <3>1. ~(n + 1 \in 1 .. n)
      OBVIOUS
    <3> QED
      BY <3>1, FallsAre
  <2>3. Cardinality(Falls(t, n, k) \cup {<<m, n + 1>>}) = Cardinality(Falls(t, n, k)) + 1
    BY <2>2, FallsAre, FS_AddElement
  <2> QED
    BY <1>2, <2>1, <2>3 DEF Descents
<1>3. CASE ~(u[n + 1].stamp < v)
  <2>1. \A a \in 1 .. n : IsNext(u, a, n + 1, k) => ~(u[n + 1].stamp < u[a].stamp)
    BY <1>1, <1>3
  <2>2. ASSUME NEW e \in Falls(u, n + 1, k) PROVE e \in Falls(t, n, k)
    BY <2>1, OneDatagramMore
  <2>3. ASSUME NEW e \in Falls(t, n, k) PROVE e \in Falls(u, n + 1, k)
    BY OneDatagramMore
  <2>4. Falls(u, n + 1, k) = Falls(t, n, k)
    BY <2>2, <2>3
  <2>5. Descents(t, n, k) + 0 = Descents(t, n, k)
    BY FallsAre
  <2> QED
    BY <1>3, <2>4, <2>5 DEF Descents
<1> QED
  BY <1>2, <1>3

\* It is the last of its key then.
LEMMA NowLatest ==
    ASSUME NEW u, NEW n \in Nat, NEW k, u[n + 1].key = k
    PROVE  LatestOf(u, n + 1, k, u[n + 1].stamp)
<1>1. n + 1 \in 1 .. n + 1 /\ \A i \in (n + 1) + 1 .. n + 1 : u[i].key # k
  OBVIOUS
<1> QED
  BY <1>1 DEF LatestOf

--------------------------------------------------------------------------------
(* Trace analyzers: what a key keeps of the order it was sent in.          *)

\* Of n numbered datagrams, ar lists those that arrived, each once, and way holds the rest.
Numbering(n, ar, way) ==
    /\ \A a \in 1 .. Len(ar) : ar[a] \in 1 .. n /\ ar[a] \notin way
    /\ \A a, b \in 1 .. Len(ar) : ar[a] = ar[b] => a = b
    /\ \A j \in 1 .. n : j \in way \/ \E a \in 1 .. Len(ar) : ar[a] = j

\* What arrived of key k is watched, in the order it was sent, and nothing is missing
\* before it.
InOrder(tr, ar, way, w, k) ==
    /\ \A a \in 1 .. Len(ar) : tr[ar[a]].key = k => ar[a] <= w
    /\ \A a \in 1 .. Len(ar) : tr[ar[a]].key = k =>
         \A j \in 1 .. ar[a] - 1 : tr[j].key = k => j \notin way
    /\ \A a, b \in 1 .. Len(ar) : a < b /\ tr[ar[a]].key = k /\ tr[ar[b]].key = k => ar[a] < ar[b]

\* Neighbours that arrived in order were neighbours when they were sent.
LEMMA Carried ==
    ASSUME NEW tr, NEW n \in Nat, NEW ar \in Seq(Nat), NEW way, NEW w \in 0 .. n, NEW k,
           Numbering(n, ar, way), InOrder(tr, ar, way, w, k),
           NEW h, \A i \in 1 .. Len(ar) : h[i] = tr[ar[i]],
           NEW a \in 1 .. Len(ar), NEW b \in 1 .. Len(ar), IsNext(h, a, b, k)
    PROVE  ar[a] \in 1 .. w /\ ar[b] \in 1 .. w /\ IsNext(tr, ar[a], ar[b], k)
<1>1. PICK m \in Nat : m = Len(ar)
  BY LenProperties
<1>2. /\ a < b /\ tr[ar[a]].key = k /\ tr[ar[b]].key = k
      /\ \A i \in a + 1 .. b - 1 : h[i].key # k
  BY DEF IsNext
<1>3. PICK x \in 1 .. n, y \in 1 .. n : x = ar[a] /\ y = ar[b]
  BY DEF Numbering
<1>4. x < y /\ x <= w /\ y <= w
  BY <1>2, <1>3 DEF InOrder
<1>5. ASSUME NEW j \in x + 1 .. y - 1, tr[j].key = k PROVE FALSE
  <2>1. j \in 1 .. y - 1 /\ j \in 1 .. n
    BY <1>4
  <2>2. j \notin way
    BY <1>2, <1>3, <1>5, <2>1 DEF InOrder
  <2>3. PICK c \in 1 .. Len(ar) : ar[c] = j
    BY <2>1, <2>2 DEF Numbering
  <2>4. c > a
    <3>1. ~(c < a)
      <4>1. c < a => ar[c] < ar[a]
        BY <1>2, <1>5, <2>3 DEF InOrder
      <4> QED
        BY <1>3, <2>3, <4>1
    <3>2. c # a
      BY <1>3, <2>3
    <3> QED
      BY <1>1, <3>1, <3>2
  <2>5. c < b
    <3>1. ~(b < c)
      <4>1. b < c => ar[b] < ar[c]
        BY <1>2, <1>5, <2>3 DEF InOrder
      <4> QED
        BY <1>3, <2>3, <4>1
    <3>2. c # b
      BY <1>3, <2>3
    <3> QED
      BY <1>1, <3>1, <3>2
  <2>6. c \in a + 1 .. b - 1
    BY <1>1, <2>4, <2>5
  <2>7. h[c].key = k
    BY <1>5, <2>3
  <2> QED
    BY <1>2, <2>6, <2>7
<1>6. IsNext(tr, x, y, k)
  BY <1>2, <1>3, <1>4, <1>5 DEF IsNext
<1> QED
  BY <1>3, <1>4, <1>6

\* A key that kept its order falls no more often than it was sent falling.
LEMMA NoMoreFalls ==
    ASSUME NEW tr, NEW n \in Nat, NEW ar \in Seq(Nat), NEW way, NEW w \in 0 .. n, NEW k,
           Numbering(n, ar, way), InOrder(tr, ar, way, w, k),
           NEW h, \A i \in 1 .. Len(ar) : h[i] = tr[ar[i]]
    PROVE  Descents(h, Len(ar), k) <= Descents(tr, w, k)
<1>1. PICK m \in Nat : m = Len(ar)
  BY LenProperties
<1>2. PICK S : S = Falls(h, m, k)
  OBVIOUS
<1>3. PICK T : T = Falls(tr, w, k)
  OBVIOUS
<1>4. PICK f : f = [e \in S |-> <<ar[e[1]], ar[e[2]]>>]
  OBVIOUS
<1>5. ASSUME NEW e \in S
      PROVE  \E a, b \in 1 .. m : e = <<a, b>> /\ f[e] = <<ar[a], ar[b]>> /\ f[e] \in T
  <2>1. PICK a \in 1 .. m, b \in 1 .. m : e = <<a, b>> /\ IsNext(h, a, b, k) /\ h[b].stamp < h[a].stamp
    BY <1>2, <1>5, FallIs
  <2>2. e[1] = a /\ e[2] = b
    BY <2>1
  <2>3. f[e] = <<ar[a], ar[b]>>
    BY <1>4, <2>2
  <2>4. ar[a] \in 1 .. w /\ ar[b] \in 1 .. w /\ IsNext(tr, ar[a], ar[b], k)
    BY <1>1, <2>1, Carried
  <2>5. tr[ar[b]].stamp < tr[ar[a]].stamp
    BY <1>1, <2>1
  <2>6. PICK x \in 1 .. w, y \in 1 .. w : x = ar[a] /\ y = ar[b]
    BY <2>4
  <2>7. <<x, y>> \in T
    <3>1. IsNext(tr, x, y, k) /\ tr[y].stamp < tr[x].stamp /\ w \in Nat
      BY <2>4, <2>5, <2>6
    <3>2. <<x, y>> \in Falls(tr, w, k)
      BY <3>1, FallsAre
    <3> QED
      BY <1>3, <3>2
  <2> QED
    BY <2>1, <2>3, <2>6, <2>7
<1>6. f \in Injection(S, T)
  <2>1. f \in [S -> T]
    BY <1>4, <1>5
  <2>2. ASSUME NEW e \in S, NEW g \in S, f[e] = f[g] PROVE e = g
    <3>1. PICK a \in 1 .. m, b \in 1 .. m : e = <<a, b>> /\ f[e] = <<ar[a], ar[b]>>
      BY <1>5
    <3>2. PICK c \in 1 .. m, d \in 1 .. m : g = <<c, d>> /\ f[g] = <<ar[c], ar[d]>>
      BY <1>5
    <3>3. ar[a] = ar[c] /\ ar[b] = ar[d]
      BY <2>2, <3>1, <3>2
    <3>4. a = c /\ b = d
      BY <1>1, <3>3 DEF Numbering
    <3> QED
      BY <3>1, <3>2, <3>4
  <2>3. IsInjective(f)
    BY <2>1, <2>2 DEF IsInjective
  <2> QED
    BY <2>1, <2>3 DEF Injection
<1>7. IsFiniteSet(T)
  <2>1. w \in Nat
    OBVIOUS
  <2>2. IsFiniteSet(Falls(tr, w, k))
    BY <2>1, FallsAre
  <2> QED
    BY <1>3, <2>2
<1>8. Cardinality(S) <= Cardinality(T)
  BY <1>6, <1>7, FS_Injection
<1>9. Descents(h, m, k) = Cardinality(S) /\ Descents(tr, w, k) = Cardinality(T)
  BY <1>2, <1>3 DEF Descents
<1> QED
  BY <1>1, <1>8, <1>9

\* A datagram arrives that overtakes none of its key and is watched: its key keeps the order.
LEMMA OneInOrder ==
    ASSUME NEW tr, NEW n \in Nat, NEW ar \in Seq(Nat), NEW way, NEW w \in 0 .. n, NEW k,
           Numbering(n, ar, way), InOrder(tr, ar, way, w, k),
           NEW i \in 1 .. n, i \in way, NEW br \in Seq(Nat), br = Append(ar, i),
           tr[i].key = k => i <= w /\ \A j \in way : j < i => tr[j].key # k
    PROVE  InOrder(tr, br, way \ {i}, w, k)
<1>1. PICK m \in Nat : m = Len(ar)
  BY LenProperties
<1>2. Len(br) = m + 1 /\ br[m + 1] = i /\ \A a \in 1 .. m : br[a] = ar[a]
  BY <1>1
<1>3. \A a \in 1 .. m + 1 : a \in 1 .. m \/ a = m + 1
  OBVIOUS
<1>4. \A a \in 1 .. m : ar[a] \in 1 .. n /\ ar[a] \notin way
  BY <1>1 DEF Numbering
<1>5. ASSUME NEW a \in 1 .. m + 1, tr[br[a]].key = k PROVE br[a] <= w
  <2>1. CASE a \in 1 .. m
    BY <1>1, <1>2, <1>5, <2>1 DEF InOrder
  <2>2. CASE a = m + 1
    BY <1>2, <1>5, <2>2
  <2> QED
    BY <1>3, <2>1, <2>2
<1>6. ASSUME NEW a \in 1 .. m + 1, tr[br[a]].key = k, NEW j \in 1 .. br[a] - 1, tr[j].key = k
      PROVE  j \notin way \ {i}
  <2>1. CASE a \in 1 .. m
    <3>1. br[a] = ar[a]
      BY <1>2, <2>1
    <3>2. j \notin way
      BY <1>1, <1>6, <2>1, <3>1 DEF InOrder
    <3> QED
      BY <3>2
  <2>2. CASE a = m + 1
    <3>1. j < i /\ tr[i].key = k
      BY <1>2, <1>6, <2>2
    <3> QED
      BY <1>6, <3>1
  <2> QED
    BY <1>3, <2>1, <2>2
<1>7. ASSUME NEW a \in 1 .. m + 1, NEW b \in 1 .. m + 1, a < b, tr[br[a]].key = k, tr[br[b]].key = k
      PROVE  br[a] < br[b]
  <2>1. a \in 1 .. m /\ br[a] = ar[a]
    BY <1>2, <1>7
  <2>2. CASE b \in 1 .. m
    BY <1>1, <1>2, <1>7, <2>1, <2>2 DEF InOrder
  <2>3. CASE b = m + 1
    <3>1. tr[i].key = k /\ br[b] = i
      BY <1>2, <1>7, <2>3
    <3>2. PICK x \in 1 .. n : x = ar[a] /\ x \notin way
      BY <1>4, <2>1
    <3>3. x # i
      BY <3>2
    <3>4. ~(i < x)
      <4>1. i < x => i \in 1 .. x - 1
        BY <3>2
      <4>2. i \in 1 .. x - 1 => i \notin way
        BY <1>1, <1>7, <2>1, <3>1, <3>2 DEF InOrder
      <4> QED
        BY <4>1, <4>2
    <3> QED
      BY <2>1, <3>1, <3>2, <3>3, <3>4
  <2> QED
    BY <1>3, <2>2, <2>3
<1> QED
  BY <1>2, <1>5, <1>6, <1>7 DEF InOrder

\* A datagram that arrives is no longer under way.
LEMMA OneNumbered ==
    ASSUME NEW n \in Nat, NEW ar \in Seq(Nat), NEW way, Numbering(n, ar, way),
           NEW i \in 1 .. n, i \in way, NEW br \in Seq(Nat), br = Append(ar, i)
    PROVE  Numbering(n, br, way \ {i})
<1>1. PICK m \in Nat : m = Len(ar)
  BY LenProperties
<1>2. Len(br) = m + 1 /\ br[m + 1] = i /\ \A a \in 1 .. m : br[a] = ar[a]
  BY <1>1
<1>3. \A a \in 1 .. m + 1 : a \in 1 .. m \/ a = m + 1
  OBVIOUS
<1>4. \A a \in 1 .. m : ar[a] \in 1 .. n /\ ar[a] \notin way /\ ar[a] # i
  BY <1>1 DEF Numbering
<1>5. \A a \in 1 .. m + 1 : br[a] \in 1 .. n /\ br[a] \notin way \ {i}
  BY <1>2, <1>3, <1>4
<1>6. \A a, b \in 1 .. m + 1 : br[a] = br[b] => a = b
  <2>1. \A a, b \in 1 .. m : ar[a] = ar[b] => a = b
    BY <1>1 DEF Numbering
  <2> QED
    BY <1>2, <1>3, <1>4, <2>1
<1>7. ASSUME NEW j \in 1 .. n PROVE j \in way \ {i} \/ \E a \in 1 .. m + 1 : br[a] = j
  <2>1. CASE j = i
    <3>1. m + 1 \in 1 .. m + 1
      OBVIOUS
    <3> QED
      BY <1>2, <2>1, <3>1
  <2>2. CASE j # i /\ j \notin way
    <3>1. PICK a \in 1 .. m : ar[a] = j
      BY <1>1, <2>2 DEF Numbering
    <3>2. a \in 1 .. m + 1 /\ br[a] = j
      BY <1>2, <3>1
    <3> QED
      BY <3>2
  <2> QED
    BY <2>1, <2>2
<1> QED
  BY <1>2, <1>5, <1>6, <1>7 DEF Numbering

--------------------------------------------------------------------------------
(* Trace analyzers: the inductive invariant.                               *)

\* The tools on their own.
TraceSpec == TraceInit /\ [][TraceNext]_avars

\* Datagrams are numbered as they are sent; those that did not arrive are under way.
Numbered ==
    /\ traced \in Seq(TracedPackets) /\ arrived \in Seq(Nat) /\ watched \in 0 .. Len(traced)
    /\ under_way \subseteq 1 .. Len(traced) /\ Numbering(Len(traced), arrived, under_way)
    /\ ~tapped => watched = 0

\* Each tool keeps the last stamp of a key.
LastsKept ==
    /\ last_timestamps \in [Keys -> Nat \cup {None}] /\ source_last \in [Keys -> Nat \cup {None}]
    /\ \A k \in Keys : /\ LatestOf(Arrivals, Len(arrived), k, last_timestamps[k])
                       /\ LatestOf(traced, watched, k, source_last[k])

\* Key by key, the counters are those of the falls that arrived.
KeysAgree ==
    /\ inversions \in [Keys -> Nat]
    /\ tracker \in [Keys -> [last : Nat, inversions : Nat, gaps : Nat]]
    /\ correlation \in [Keys -> [high : Nat, low : Nat, burst : Nat, isolated : Nat]]
    /\ \A k \in Keys :
         /\ inversions[k] = Descents(Arrivals, Len(arrived), k) /\ tracker[k].inversions = inversions[k]
         /\ tracker[k].last = IF last_timestamps[k] = None THEN 0 ELSE last_timestamps[k]
         /\ correlation[k].high + correlation[k].low = inversions[k]
         /\ correlation[k].burst + correlation[k].isolated = inversions[k]

\* The falls of each key among what monitor_pre_send has taken.
SourceFalls == [k \in Keys |-> Descents(traced, watched, k)]

PatternFields == {"tiny", "small", "medium", "large", "consecutive", "isolated"}

\* order_validation_monitor divides what the others count;
PatternsAgree ==
    /\ PatternFields \subseteq DOMAIN patterns /\ \A f \in PatternFields : patterns[f] \in Nat
    /\ patterns.tiny + patterns.small + patterns.medium + patterns.large = TotalOf(Keys, inversions)
    /\ patterns.consecutive + patterns.isolated <= TotalOf(Keys, inversions)

\* so do packet_inversion_diagnostics and dual_side_order_analyzer.
TotalsAgree ==
    /\ diagnostics.actual = TotalOf(Keys, inversions) /\ diagnostics.perceived = 0
    /\ diagnostics.sequence \in [Keys -> Nat]
    /\ {"source", "network", "pure", "propagated"} \subseteq DOMAIN dual
    /\ dual.pure \in Nat /\ dual.propagated \in Nat
    /\ dual.network = TotalOf(Keys, inversions) /\ dual.pure + dual.propagated = TotalOf(Keys, inversions)
    /\ dual.source = TotalOf(Keys, SourceFalls)
    /\ disturbed = {} => dual.pure = 0
    /\ ~tapped => dual.propagated = 0
    /\ production_total = 2 * Len(arrived)

\* A key that is not disturbed keeps the order it was sent in.
OrderKept == \A k \in Keys \ disturbed : InOrder(traced, arrived, under_way, watched, k)

TraceInv == Numbered /\ LastsKept /\ KeysAgree /\ PatternsAgree /\ TotalsAgree /\ OrderKept

\* What is traced has a key and a stamp, and there are finitely many keys.
LEMMA PacketsKeyed ==
    /\ IsFiniteSet(Keys) /\ \A p \in TracedPackets : p.key \in Keys /\ p.stamp \in Nat
    /\ None \notin Nat
<1>1. \A p \in TracedPackets : p.key \in Keys /\ p.stamp \in Nat
  BY TraceAssumption DEF Keys
<1>2. IsFiniteSet(Keys)
  <2>1. PICK f : f = [p \in TracedPackets |-> p.key]
    OBVIOUS
  <2>2. f \in [TracedPackets -> Keys]
    BY <1>1, <2>1
  <2>3. \A k \in Keys : \E p \in TracedPackets : f[p] = k
    BY <2>1 DEF Keys
  <2>4. f \in Surjection(TracedPackets, Keys)
    BY <2>2, <2>3 DEF Surjection
  <2> QED
    BY <2>4, TraceAssumption, FS_Surjection
<1> QED
  BY <1>1, <1>2 DEF None

\* Nothing falls in an empty trace.
LEMMA NoFalls == ASSUME NEW t, NEW k PROVE Descents(t, 0, k) = 0 /\ LatestOf(t, 0, k, None)
<1>1. Falls(t, 0, k) = {}
  BY DEF Falls, Neighbours
<1> QED
  BY <1>1, FS_EmptySet DEF Descents, LatestOf

\* All counters are 0 at first.
LEMMA TraceStarts == TraceInit => TraceInv
<1> SUFFICES ASSUME TraceInit PROVE TraceInv
  OBVIOUS
<1>1. /\ traced = <<>> /\ under_way = {} /\ arrived = <<>> /\ watched = 0
      /\ source_last = [k \in Keys |-> None] /\ last_timestamps = [k \in Keys |-> None]
      /\ inversions = [k \in Keys |-> 0]
      /\ tracker = [k \in Keys |-> [last |-> 0, inversions |-> 0, gaps |-> 0]]
      /\ correlation = [k \in Keys |-> [high |-> 0, low |-> 0, burst |-> 0, isolated |-> 0]]
  BY DEF TraceInit
<1>2. /\ patterns = [tiny |-> 0, small |-> 0, medium |-> 0, large |-> 0, consecutive |-> 0, isolated |-> 0,
                     counter |-> 0, longest |-> 0, last_key |-> "none"]
      /\ diagnostics = [actual |-> 0, perceived |-> 0, sequence |-> [k \in Keys |-> 0]]
      /\ dual = [source |-> 0, network |-> 0, pure |-> 0, propagated |-> 0]
      /\ production_total = 0 /\ disturbed = {}
  BY DEF TraceInit
<1>3. Len(arrived) = 0 /\ Len(traced) = 0 /\ traced \in Seq(TracedPackets) /\ arrived \in Seq(Nat)
  BY <1>1
<1>4. Numbered
  BY <1>1, <1>3 DEF Numbered, Numbering
<1>5. LastsKept
  BY <1>1, <1>3, NoFalls DEF LastsKept
<1>6. KeysAgree
  BY <1>1, <1>3, NoFalls DEF KeysAgree
<1>7. TotalOf(Keys, inversions) = 0 /\ TotalOf(Keys, SourceFalls) = 0
  <2>1. inversions \in [Keys -> Int] /\ \A k \in Keys : inversions[k] = 0
    BY <1>1
  <2>2. SourceFalls \in [Keys -> Int] /\ \A k \in Keys : SourceFalls[k] = 0
    BY <1>1, NoFalls DEF SourceFalls
  <2>3. TotalOf(Keys, inversions) = 0
    BY <2>1, PacketsKeyed, TotalZeros
  <2>4. TotalOf(Keys, SourceFalls) = 0
    BY <2>2, PacketsKeyed, TotalZeros
  <2> QED
    BY <2>3, <2>4
<1>8. PatternsAgree
  BY <1>2, <1>7 DEF PatternsAgree, PatternFields
<1>9. TotalsAgree
  BY <1>2, <1>3, <1>7 DEF TotalsAgree
<1>10. OrderKept
  BY <1>1, <1>3 DEF OrderKept, InOrder
<1> QED
  BY <1>4, <1>5, <1>6, <1>8, <1>9, <1>10 DEF TraceInv

\* What arrived is among what was sent.
LEMMA ArrivalsAre ==
    ASSUME Numbered
    PROVE  /\ Len(arrived) \in Nat /\ Len(traced) \in Nat
           /\ \A a \in 1 .. Len(arrived) : /\ arrived[a] \in 1 .. Len(traced) /\ Arrivals[a] = traced[arrived[a]]
                                          /\ Arrivals[a] \in TracedPackets
<1>1. Len(arrived) \in Nat /\ Len(traced) \in Nat
  BY LenProperties DEF Numbered
<1>2. ASSUME NEW a \in 1 .. Len(arrived)
      PROVE  /\ arrived[a] \in 1 .. Len(traced) /\ Arrivals[a] = traced[arrived[a]]
             /\ Arrivals[a] \in TracedPackets
  <2>1. arrived[a] \in 1 .. Len(traced)
    BY DEF Numbered, Numbering
  <2>2. Arrivals[a] = traced[arrived[a]]
    BY DEF Arrivals
  <2>3. traced[arrived[a]] \in TracedPackets
    BY <2>1, ElementOfSeq DEF Numbered
  <2> QED
    BY <2>1, <2>2, <2>3
<1> QED
  BY <1>1, <1>2

\* A datagram is sent: nobody has seen it yet.
LEMMA SendTracedKeeps == ASSUME TraceInv, NEW p \in TracedPackets, SendTraced(p) PROVE TraceInv'
<1>1. PICK m \in Nat, n \in Nat : m = Len(arrived) /\ n = Len(traced)
  BY ArrivalsAre DEF TraceInv
<1>2. /\ traced' = Append(traced, p) /\ under_way' = under_way \cup {Len(traced')} /\ arrived' = arrived
      /\ tapped' = tapped /\ watched' = watched /\ source_last' = source_last /\ last_timestamps' = last_timestamps
      /\ inversions' = inversions /\ tracker' = tracker /\ patterns' = patterns /\ correlation' = correlation
      /\ diagnostics' = diagnostics /\ dual' = dual /\ production_total' = production_total /\ disturbed' = disturbed
  BY DEF SendTraced
<1>3. /\ traced \in Seq(TracedPackets) /\ arrived \in Seq(Nat) /\ watched \in 0 .. n
      /\ under_way \subseteq 1 .. n /\ Numbering(n, arrived, under_way)
  BY <1>1 DEF TraceInv, Numbered
<1>4. /\ traced' \in Seq(TracedPackets) /\ Len(traced') = n + 1 /\ traced'[n + 1] = p
      /\ \A i \in 1 .. n : traced'[i] = traced[i]
  BY <1>1, <1>2, <1>3
<1>5. under_way' = under_way \cup {n + 1}
  BY <1>2, <1>4
<1>6. Numbered'
  <2>1. Numbering(n + 1, arrived, under_way')
    <3>1. \A a \in 1 .. m : arrived[a] \in 1 .. n + 1 /\ arrived[a] \notin under_way'
      <4>1. \A a \in 1 .. m : arrived[a] \in 1 .. n /\ arrived[a] \notin under_way
        BY <1>1, <1>3 DEF Numbering
      <4> QED
        BY <1>5, <4>1
    <3>2. \A j \in 1 .. n + 1 : j \in under_way' \/ \E a \in 1 .. m : arrived[a] = j
      <4>1. \A j \in 1 .. n : j \in under_way \/ \E a \in 1 .. m : arrived[a] = j
        BY <1>1, <1>3 DEF Numbering
      <4>2. \A j \in 1 .. n + 1 : j \in 1 .. n \/ j = n + 1
        OBVIOUS
      <4> QED
        BY <1>5, <4>1, <4>2
    <3> QED
      BY <1>1, <1>3, <3>1, <3>2 DEF Numbering
  <2>2. watched \in 0 .. n + 1 /\ under_way' \subseteq 1 .. n + 1 /\ (~tapped => watched = 0)
    BY <1>3, <1>5 DEF TraceInv, Numbered
  <2> QED
    BY <1>2, <1>3, <1>4, <2>1, <2>2 DEF Numbered
<1>7. \A i \in 1 .. m : Arrivals'[i] = Arrivals[i]
  <2> TAKE i \in 1 .. m
  <2>1. arrived[i] \in 1 .. n /\ Arrivals[i] = traced[arrived[i]]
    BY <1>1, ArrivalsAre DEF TraceInv
  <2>2. Arrivals'[i] = traced'[arrived[i]]
    BY <1>1, <1>2 DEF Arrivals
  <2> QED
    BY <1>4, <2>1, <2>2
<1>8. ASSUME NEW k \in Keys
      PROVE  /\ Descents(Arrivals', m, k) = Descents(Arrivals, m, k)
             /\ \A v : LatestOf(Arrivals, m, k, v) => LatestOf(Arrivals', m, k, v)
             /\ Descents(traced', watched, k) = Descents(traced, watched, k)
             /\ \A v : LatestOf(traced, watched, k, v) => LatestOf(traced', watched, k, v)
  <2>1. watched \in Nat /\ \A i \in 1 .. watched : traced'[i] = traced[i]
    <3>1. watched \in Nat /\ \A i \in 1 .. watched : i \in 1 .. n
      BY <1>3
    <3> QED
      BY <1>4, <3>1
  <2>2. /\ Descents(Arrivals', m, k) = Descents(Arrivals, m, k)
        /\ \A v : LatestOf(Arrivals, m, k, v) => LatestOf(Arrivals', m, k, v)
    BY <1>7, SameStart
  <2>3. /\ Descents(traced', watched, k) = Descents(traced, watched, k)
        /\ \A v : LatestOf(traced, watched, k, v) => LatestOf(traced', watched, k, v)
    BY <2>1, SameStart
  <2> QED
    BY <2>2, <2>3
<1>9. LastsKept'
  BY <1>1, <1>2, <1>8 DEF TraceInv, LastsKept
<1>10. KeysAgree'
  BY <1>1, <1>2, <1>8 DEF TraceInv, KeysAgree
<1>11. PatternsAgree'
  BY <1>2 DEF TraceInv, PatternsAgree
<1>12. TotalsAgree'
  <2>1. SourceFalls' = SourceFalls
    BY <1>2, <1>8 DEF SourceFalls
  <2> QED
    BY <1>2, <2>1 DEF TraceInv, TotalsAgree
<1>13. OrderKept'
  <2> SUFFICES ASSUME NEW k \in Keys, k \notin disturbed PROVE InOrder(traced', arrived, under_way', watched, k)
    BY <1>2 DEF OrderKept
  <2>1. InOrder(traced, arrived, under_way, watched, k)
    BY DEF TraceInv, OrderKept
  <2>2. \A a \in 1 .. m : arrived[a] \in 1 .. n
    BY <1>1, ArrivalsAre DEF TraceInv
  <2>3. \A a \in 1 .. m : traced'[arrived[a]] = traced[arrived[a]]
    BY <1>4, <2>2
  <2>4. ASSUME NEW a \in 1 .. m, traced[arrived[a]].key = k, NEW j \in 1 .. arrived[a] - 1, traced'[j].key = k
        PROVE  j \notin under_way'
    <3>1. PICK x \in 1 .. n : x = arrived[a]
      BY <2>2
    <3>2. j \in 1 .. n /\ j # n + 1
      BY <3>1
    <3>3. traced[j].key = k
      BY <1>4, <2>4, <3>2
    <3>4. j \notin under_way
      BY <1>1, <2>1, <2>4, <3>3 DEF InOrder
    <3> QED
      BY <1>5, <3>2, <3>4
  <2> QED
    BY <1>1, <2>1, <2>3, <2>4 DEF InOrder
<1> QED
  BY <1>6, <1>9, <1>10, <1>11, <1>12, <1>13 DEF TraceInv

\* dual_side_order_analyzer takes the next of what was sent.
LEMMA MonitorKeeps == ASSUME TraceInv, monitor_pre_send PROVE TraceInv'
<1>1. PICK m \in Nat, n \in Nat, w \in Nat : m = Len(arrived) /\ n = Len(traced) /\ w = watched /\ w \in 0 .. n
  BY ArrivalsAre DEF TraceInv, Numbered
<1>2. w < n /\ tapped /\ w + 1 \in 1 .. n /\ w + 1 \in 0 .. n /\ w \in Nat
  BY <1>1 DEF monitor_pre_send
<1>3. PICK p \in TracedPackets : p = traced[w + 1]
  BY <1>1, <1>2, ElementOfSeq DEF TraceInv, Numbered
<1>4. /\ dual' = (IF source_last[p.key] /= None /\ p.stamp < source_last[p.key]
                    THEN [dual EXCEPT !.source = @ + 1] ELSE dual)
      /\ source_last' = [source_last EXCEPT ![p.key] = p.stamp] /\ watched' = w + 1
      /\ traced' = traced /\ under_way' = under_way /\ arrived' = arrived /\ tapped' = tapped
      /\ last_timestamps' = last_timestamps /\ inversions' = inversions /\ tracker' = tracker /\ patterns' = patterns
      /\ correlation' = correlation /\ diagnostics' = diagnostics /\ production_total' = production_total
      /\ disturbed' = disturbed
  BY <1>1, <1>3 DEF monitor_pre_send
<1>5. PICK q \in Keys : q = p.key
  BY PacketsKeyed
<1>6. Numbered'
  BY <1>1, <1>2, <1>4 DEF TraceInv, Numbered
<1>7. source_last' \in [Keys -> Nat \cup {None}] /\ source_last'[q] = p.stamp
      /\ \A k \in Keys : k # q => source_last'[k] = source_last[k]
  BY <1>4, <1>5, PacketsKeyed DEF TraceInv, LastsKept
<1>8. PICK fell \in {0, 1} : fell = (IF source_last[q] # None /\ p.stamp < source_last[q] THEN 1 ELSE 0)
  OBVIOUS
<1>9. ASSUME NEW k \in Keys
      PROVE  /\ LatestOf(traced, w + 1, k, source_last'[k])
             /\ Descents(traced, w + 1, k) = Descents(traced, w, k) + (IF k = q THEN fell ELSE 0)
  <2>1. LatestOf(traced, w, k, source_last[k])
    BY <1>1 DEF TraceInv, LastsKept
  <2>2. Descents(traced, w, k) \in Nat
    BY <1>2, FallsAre
  <2>3. CASE k # q
    <3>1. traced[w + 1].key # k
      BY <1>3, <1>5, <2>3
    <3>2. Descents(traced, w + 1, k) = Descents(traced, w, k) /\ LatestOf(traced, w + 1, k, source_last[k])
      BY <1>2, <2>1, <3>1, OtherKey
    <3> QED
      BY <1>7, <2>2, <2>3, <3>2
  <2>4. CASE k = q
    <3>1. traced[w + 1].key = k /\ traced[w + 1].stamp = p.stamp
      BY <1>3, <1>5, <2>4
    <3>2. LatestOf(traced, w + 1, k, p.stamp)
      BY <1>2, <3>1, NowLatest
    <3>3. CASE source_last[k] = None
      <4>1. ~\E i \in 1 .. w : traced[i].stamp = None
        <5>1. \A i \in 1 .. w : traced[i] \in TracedPackets
          BY <1>1, ElementOfSeq DEF TraceInv, Numbered
        <5> QED
          BY <5>1, PacketsKeyed
      <4>2. Descents(traced, w + 1, k) = Descents(traced, w, k)
        BY <1>2, <2>1, <3>1, <3>3, <4>1, FirstOfKey
      <4>3. fell = 0
        BY <1>8, <2>4, <3>3
      <4> QED
        BY <1>7, <2>2, <2>4, <3>2, <4>2, <4>3
    <3>4. CASE source_last[k] # None
      <4>1. Descents(traced, w + 1, k) = Descents(traced, w, k) + (IF p.stamp < source_last[k] THEN 1 ELSE 0)
        BY <1>2, <2>1, <3>1, <3>4, LaterOfKey
      <4>2. fell = (IF p.stamp < source_last[k] THEN 1 ELSE 0)
        BY <1>8, <2>4, <3>4
      <4> QED
        BY <1>7, <2>4, <3>2, <4>1, <4>2
    <3> QED
      BY <3>3, <3>4
  <2> QED
    BY <2>3, <2>4
<1>10. LastsKept'
  BY <1>4, <1>7, <1>9 DEF TraceInv, LastsKept, Arrivals
<1>11. KeysAgree'
  BY <1>4 DEF TraceInv, KeysAgree, Arrivals
<1>12. PatternsAgree'
  BY <1>4 DEF TraceInv, PatternsAgree
<1>13. TotalOf(Keys, SourceFalls') = TotalOf(Keys, SourceFalls) + fell
  <2>1. PICK f \in [Keys -> Int], g \in [Keys -> Int] : f = SourceFalls /\ g = SourceFalls'
    <3>1. ASSUME NEW k \in Keys PROVE Descents(traced, w, k) \in Nat /\ Descents(traced, w + 1, k) \in Nat
      <4>1. PICK w1 \in Nat : w1 = w + 1
        OBVIOUS
      <4>2. Descents(traced, w, k) \in Nat
        BY FallsAre
      <4>3. Descents(traced, w1, k) \in Nat
        BY FallsAre
      <4> QED
        BY <4>1, <4>2, <4>3
    <3>2. SourceFalls = [k \in Keys |-> Descents(traced, w, k)] /\ SourceFalls' = [k \in Keys |-> Descents(traced, w + 1, k)]
      BY <1>1, <1>4 DEF SourceFalls
    <3>3. SourceFalls \in [Keys -> Int] /\ SourceFalls' \in [Keys -> Int]
      BY <3>1, <3>2
    <3> QED
      BY <3>3
  <2>2. \A k \in Keys : g[k] = f[k] + (IF k = q THEN fell ELSE 0)
    BY <1>1, <1>4, <1>9, <2>1 DEF SourceFalls
  <2>3. \A k \in Keys : k # q => g[k] = f[k]
    BY <2>1, <2>2
  <2>4. TotalOf(Keys, g) = TotalOf(Keys, f) + (g[q] - f[q])
    BY <2>3, PacketsKeyed, TotalChange
  <2>5. g[q] - f[q] = fell
    BY <2>1, <2>2
  <2> QED
    BY <2>1, <2>4, <2>5
<1>14. TotalsAgree'
  <2>1. /\ diagnostics' = diagnostics /\ inversions' = inversions /\ production_total' = production_total
        /\ Len(arrived') = Len(arrived) /\ disturbed' = disturbed /\ tapped' = tapped
    BY <1>4
  <2>2. TotalOf(Keys, SourceFalls) \in Int
    <3>1. SourceFalls \in [Keys -> Nat]
      BY <1>1, <1>2, FallsAre DEF SourceFalls
    <3> QED
      BY <3>1, PacketsKeyed, TotalNaturals
  <2>3. /\ {"source", "network", "pure", "propagated"} \subseteq DOMAIN dual'
        /\ dual'.network = dual.network /\ dual'.pure = dual.pure /\ dual'.propagated = dual.propagated
        /\ dual'.source = dual.source + fell
    <3>1. {"source", "network", "pure", "propagated"} \subseteq DOMAIN dual /\ dual.source \in Int
      BY <2>2 DEF TraceInv, TotalsAgree
    <3>2. CASE source_last[q] # None /\ p.stamp < source_last[q]
      <4>1. dual' = [dual EXCEPT !.source = @ + 1] /\ fell = 1
        BY <1>4, <1>5, <1>8, <3>2
      <4> QED
        BY <3>1, <4>1
    <3>3. CASE ~(source_last[q] # None /\ p.stamp < source_last[q])
      <4>1. dual' = dual /\ fell = 0
        BY <1>4, <1>5, <1>8, <3>3
      <4> QED
        BY <3>1, <4>1
    <3> QED
      BY <3>2, <3>3
  <2> QED
    BY <1>13, <2>1, <2>3 DEF TraceInv, TotalsAgree
<1>15. OrderKept'
  <2> SUFFICES ASSUME NEW k \in Keys, k \notin disturbed PROVE InOrder(traced, arrived, under_way, w + 1, k)
    BY <1>4 DEF OrderKept
  <2>1. InOrder(traced, arrived, under_way, w, k)
    BY <1>1 DEF TraceInv, OrderKept
  <2>2. \A a \in 1 .. Len(arrived) : arrived[a] \in 1 .. n
    BY <1>1, ArrivalsAre DEF TraceInv
  <2>3. ASSUME NEW a \in 1 .. Len(arrived), traced[arrived[a]].key = k PROVE arrived[a] <= w + 1
    <3>1. arrived[a] <= w
      BY <2>1, <2>3 DEF InOrder
    <3> QED
      BY <1>2, <2>2, <3>1
  <2> QED
    BY <2>1, <2>3 DEF InOrder
<1> QED
  BY <1>6, <1>10, <1>11, <1>12, <1>14, <1>15 DEF TraceInv

\* A datagram that arrives is put at the end of what arrived.
LEMMA ArrivalIs ==
    ASSUME Numbered, NEW i \in under_way, Arrive(i)
    PROVE  /\ i \in 1 .. Len(traced) /\ traced[i] \in TracedPackets
           /\ arrived' \in Seq(Nat) /\ Len(arrived') = Len(arrived) + 1 /\ arrived'[Len(arrived) + 1] = i
           /\ \A a \in 1 .. Len(arrived) : Arrivals'[a] = Arrivals[a]
           /\ Arrivals'[Len(arrived) + 1] = traced[i]
<1>1. PICK m \in Nat, n \in Nat : m = Len(arrived) /\ n = Len(traced)
  BY ArrivalsAre
<1>2. i \in 1 .. n /\ i \in Nat /\ arrived \in Seq(Nat)
  BY <1>1 DEF Numbered
<1>3. traced[i] \in TracedPackets
  BY <1>1, <1>2, ElementOfSeq DEF Numbered
<1>4. arrived' = Append(arrived, i) /\ traced' = traced
  BY DEF Arrive
<1>5. /\ arrived' \in Seq(Nat) /\ Len(arrived') = m + 1 /\ arrived'[m + 1] = i
      /\ \A a \in 1 .. m : arrived'[a] = arrived[a]
  BY <1>1, <1>2, <1>4
<1>6. \A a \in 1 .. m + 1 : Arrivals'[a] = traced[arrived'[a]]
  BY <1>4, <1>5 DEF Arrivals
<1>7. \A a \in 1 .. m : Arrivals'[a] = Arrivals[a]
  <2> TAKE a \in 1 .. m
  <2>1. a \in 1 .. m + 1
    OBVIOUS
  <2>2. Arrivals[a] = traced[arrived[a]]
    BY <1>1, ArrivalsAre
  <2> QED
    BY <1>5, <1>6, <2>1, <2>2
<1>8. Arrivals'[m + 1] = traced[i]
  <2>1. m + 1 \in 1 .. m + 1
    OBVIOUS
  <2> QED
    BY <1>5, <1>6, <2>1
<1> QED
  BY <1>1, <1>2, <1>3, <1>5, <1>7, <1>8

\* What arrives falls exactly if its key has a later stamp already.
LEMMA ArrivalFalls ==
    ASSUME TraceInv, NEW i \in under_way, Arrive(i), NEW p, p = traced[i], NEW fell,
           fell = (IF Inversion(p) THEN 1 ELSE 0), NEW k \in Keys
    PROVE  /\ LatestOf(Arrivals', Len(arrived) + 1, k, last_timestamps'[k])
           /\ Descents(Arrivals', Len(arrived) + 1, k) = Descents(Arrivals, Len(arrived), k) + (IF k = p.key THEN fell ELSE 0)
           /\ k = p.key /\ Inversion(p) =>
                \E a \in 1 .. Len(arrived) : /\ Arrivals[a].stamp = last_timestamps[k]
                                            /\ IsNext(Arrivals', a, Len(arrived) + 1, k)
<1>1. PICK m \in Nat : m = Len(arrived)
  BY ArrivalsAre DEF TraceInv
<1>2. PICK h : h = Arrivals
  OBVIOUS
<1>3. PICK g : g = Arrivals'
  OBVIOUS
<1>4. (\A a \in 1 .. m : g[a] = h[a]) /\ g[m + 1] = p /\ p \in TracedPackets
  BY <1>1, <1>2, <1>3, ArrivalIs DEF TraceInv
<1>5. LatestOf(h, m, k, last_timestamps[k])
  BY <1>1, <1>2 DEF TraceInv, LastsKept
<1>6. p.key \in Keys /\ p.stamp \in Nat
  BY <1>4, PacketsKeyed
<1>7. last_timestamps' = [last_timestamps EXCEPT ![p.key] = p.stamp]
  BY DEF Arrive
<1>8. Descents(h, m, k) \in Nat
  BY FallsAre
<1>9. CASE k # p.key
  <2>1. Descents(g, m + 1, k) = Descents(h, m, k) /\ LatestOf(g, m + 1, k, last_timestamps[k])
    <3>1. g[m + 1].key # k
      BY <1>4, <1>9
    <3> QED
      BY <1>4, <1>5, <3>1, OtherKey
  <2>2. last_timestamps'[k] = last_timestamps[k]
    BY <1>6, <1>7, <1>9 DEF TraceInv, LastsKept
  <2> QED
    BY <1>1, <1>2, <1>3, <1>8, <1>9, <2>1, <2>2
<1>10. CASE k = p.key
  <2>1. LatestOf(g, m + 1, k, p.stamp)
    BY <1>4, <1>10, NowLatest
  <2>2. last_timestamps'[k] = p.stamp
    BY <1>6, <1>7, <1>10 DEF TraceInv, LastsKept
  <2>3. CASE last_timestamps[k] = None
    <3>1. ~\E a \in 1 .. m : h[a].stamp = None
      <4>1. \A a \in 1 .. m : h[a] \in TracedPackets
        BY <1>1, <1>2, ArrivalsAre DEF TraceInv
      <4> QED
        BY <4>1, PacketsKeyed
    <3>4. g[m + 1].key = k
      BY <1>4, <1>10
    <3>5. LatestOf(h, m, k, None) /\ \A a \in 1 .. m : h[a].stamp # None
      BY <1>5, <2>3, <3>1
    <3>6. \A a \in 1 .. m : g[a] = h[a]
      BY <1>4
    <3>2. Descents(g, m + 1, k) = Descents(h, m, k)
      BY <3>4, <3>5, <3>6, FirstOfKey
    <3>3. ~Inversion(p)
      BY <1>10, <2>3 DEF Inversion
    <3> QED
      BY <1>1, <1>2, <1>3, <1>8, <2>1, <2>2, <3>2, <3>3
  <2>4. CASE last_timestamps[k] # None
    <3>1. /\ Descents(g, m + 1, k) = Descents(h, m, k) + (IF p.stamp < last_timestamps[k] THEN 1 ELSE 0)
          /\ \E a \in 1 .. m : h[a].stamp = last_timestamps[k] /\ IsNext(g, a, m + 1, k)
      <4>1. g[m + 1].key = k /\ g[m + 1].stamp = p.stamp
        BY <1>4, <1>10
      <4>2. PICK v : v = last_timestamps[k]
        OBVIOUS
      <4>3. LatestOf(h, m, k, v) /\ v # None
        BY <1>5, <2>4, <4>2
      <4>4. Descents(g, m + 1, k) = Descents(h, m, k) + (IF g[m + 1].stamp < v THEN 1 ELSE 0)
        BY <1>4, <4>1, <4>3, LaterOfKey
      <4>5. \E a \in 1 .. m : g[a].stamp = v /\ IsNext(g, a, m + 1, k)
        <5>1. PICK a \in 1 .. m : h[a].key = k /\ h[a].stamp = v /\ \A j \in a + 1 .. m : h[j].key # k
          BY <4>3 DEF LatestOf
        <5>2. IsNext(g, a, m + 1, k)
          BY <1>4, <4>1, <5>1, LastBefore
        <5> QED
          BY <1>4, <5>1, <5>2
      <4>6. \E a \in 1 .. m : h[a].stamp = v /\ IsNext(g, a, m + 1, k)
        BY <1>4, <4>5
      <4> QED
        BY <4>1, <4>2, <4>4, <4>6
    <3>2. Inversion(p) <=> p.stamp < last_timestamps[k]
      BY <1>10, <2>4 DEF Inversion
    <3>3. fell = (IF p.stamp < last_timestamps[k] THEN 1 ELSE 0)
      BY <3>2
    <3> QED
      BY <1>1, <1>2, <1>3, <1>10, <2>1, <2>2, <3>1, <3>3
  <2> QED
    BY <2>3, <2>4
<1> QED
  BY <1>9, <1>10

\* Each of the tools that count inversions counts it;
LEMMA ArrivalCounted ==
    ASSUME TraceInv, NEW i \in under_way, Arrive(i), NEW p, p = traced[i], NEW fell,
           fell = (IF Inversion(p) THEN 1 ELSE 0)
    PROVE  /\ inversions' \in [Keys -> Nat]
           /\ \A k \in Keys : inversions'[k] = inversions[k] + (IF k = p.key THEN fell ELSE 0)
           /\ TotalOf(Keys, inversions) \in Nat
           /\ TotalOf(Keys, inversions') = TotalOf(Keys, inversions) + fell
<1>1. PICK q \in Keys : q = p.key
  BY ArrivalIs, PacketsKeyed DEF TraceInv
<1>2. inversions' = (IF Inversion(p) THEN [inversions EXCEPT ![q] = @ + 1] ELSE inversions)
  BY <1>1 DEF Arrive, CountInversion
<1>3. inversions \in [Keys -> Nat]
  BY DEF TraceInv, KeysAgree
<1>4. inversions' \in [Keys -> Nat] /\ \A k \in Keys : inversions'[k] = inversions[k] + (IF k = q THEN fell ELSE 0)
  <2>1. CASE Inversion(p)
    <3>1. inversions' = [inversions EXCEPT ![q] = @ + 1] /\ fell = 1
      BY <1>2, <2>1
    <3> QED
      BY <1>3, <3>1
  <2>2. CASE ~Inversion(p)
    <3>1. inversions' = inversions /\ fell = 0
      BY <1>2, <2>2
    <3> QED
      BY <1>3, <3>1
  <2> QED
    BY <2>1, <2>2
<1>5. TotalOf(Keys, inversions) \in Nat
  BY <1>3, PacketsKeyed, TotalNaturals
<1>6. TotalOf(Keys, inversions') = TotalOf(Keys, inversions) + fell
  <2>1. PICK f \in [Keys -> Int], g \in [Keys -> Int] : f = inversions /\ g = inversions'
    BY <1>3, <1>4
  <2>2. \A k \in Keys : k # q => g[k] = f[k]
    BY <1>4, <2>1
  <2>3. TotalOf(Keys, g) = TotalOf(Keys, f) + (g[q] - f[q])
    BY <2>2, PacketsKeyed, TotalChange
  <2>4. fell \in {0, 1}
    OBVIOUS
  <2>5. g[q] - f[q] = fell
    BY <1>4, <2>1, <2>4
  <2> QED
    BY <2>1, <2>3, <2>5
<1> QED
  BY <1>1, <1>4, <1>5, <1>6

\* exchange_order_tracker and latency_correlation_analyzer do so, key by key;
LEMMA ArrivalTracked ==
    ASSUME TraceInv, NEW i \in under_way, Arrive(i)
    PROVE  KeysAgree'
<1>1. PICK p \in TracedPackets : p = traced[i]
  BY ArrivalIs DEF TraceInv
<1>2. PICK q \in Keys : q = p.key
  BY <1>1, PacketsKeyed
<1>3. PICK stamp \in Nat : stamp = p.stamp
  BY <1>1, PacketsKeyed
<1>4. PICK fell \in {0, 1} : fell = (IF Inversion(p) THEN 1 ELSE 0)
  OBVIOUS
<1>5. /\ inversions' \in [Keys -> Nat]
      /\ \A k \in Keys : inversions'[k] = inversions[k] + (IF k = q THEN fell ELSE 0)
  BY <1>1, <1>2, <1>4, ArrivalCounted
<1>6. /\ inversions \in [Keys -> Nat]
      /\ tracker \in [Keys -> [last : Nat, inversions : Nat, gaps : Nat]]
      /\ correlation \in [Keys -> [high : Nat, low : Nat, burst : Nat, isolated : Nat]]
      /\ \A k \in Keys :
           /\ inversions[k] = Descents(Arrivals, Len(arrived), k) /\ tracker[k].inversions = inversions[k]
           /\ tracker[k].last = IF last_timestamps[k] = None THEN 0 ELSE last_timestamps[k]
           /\ correlation[k].high + correlation[k].low = inversions[k]
           /\ correlation[k].burst + correlation[k].isolated = inversions[k]
  BY DEF TraceInv, KeysAgree
<1>7. last_timestamps \in [Keys -> Nat \cup {None}] /\ last_timestamps' = [last_timestamps EXCEPT ![q] = stamp]
  BY <1>1, <1>2, <1>3 DEF TraceInv, LastsKept, Arrive
<1>8. /\ tracker' \in [Keys -> [last : Nat, inversions : Nat, gaps : Nat]]
      /\ \A k \in Keys : k # q => tracker'[k] = tracker[k]
      /\ tracker'[q].last = stamp /\ tracker'[q].inversions = tracker[q].inversions + fell
  <2>1. PICK r \in [last : Nat, inversions : Nat, gaps : Nat] : r = tracker[q]
    BY <1>6
  <2>2. tracker' = [tracker EXCEPT ![q] = Track(r, stamp)]
    BY <1>1, <1>2, <1>3, <2>1 DEF Arrive
  <2>3. /\ Track(r, stamp) \in [last : Nat, inversions : Nat, gaps : Nat]
        /\ Track(r, stamp).last = stamp
        /\ Track(r, stamp).inversions = r.inversions + (IF r.last > 0 /\ stamp < r.last THEN 1 ELSE 0)
    BY DEF Track
  <2>4. fell = (IF r.last > 0 /\ stamp < r.last THEN 1 ELSE 0)
    <3>1. r.last = (IF last_timestamps[q] = None THEN 0 ELSE last_timestamps[q]) /\ r.last \in Nat
      BY <1>6, <2>1
    <3>2. Inversion(p) <=> last_timestamps[q] # None /\ stamp < last_timestamps[q]
      BY <1>2, <1>3 DEF Inversion
    <3>3. CASE last_timestamps[q] = None
      BY <1>4, <3>1, <3>2, <3>3
    <3>4. CASE last_timestamps[q] # None
      <4>1. r.last = last_timestamps[q]
        BY <3>1, <3>4
      <4>2. (r.last > 0 /\ stamp < r.last) <=> stamp < r.last
        BY <3>1
      <4> QED
        BY <1>4, <3>2, <3>4, <4>1, <4>2
    <3> QED
      BY <3>3, <3>4
  <2> QED
    BY <1>6, <2>1, <2>2, <2>3, <2>4
<1>9. /\ correlation' \in [Keys -> [high : Nat, low : Nat, burst : Nat, isolated : Nat]]
      /\ \A k \in Keys : k # q => correlation'[k] = correlation[k]
      /\ correlation'[q].high + correlation'[q].low = (correlation[q].high + correlation[q].low) + fell
      /\ correlation'[q].burst + correlation'[q].isolated = (correlation[q].burst + correlation[q].isolated) + fell
  <2>1. CASE ~Inversion(p)
    <3>1. correlation' = correlation /\ fell = 0
      BY <1>1, <1>4, <2>1 DEF Arrive, CountCorrelation
    <3> QED
      BY <1>6, <3>1
  <2>2. CASE Inversion(p)
    <3>1. PICK r \in [high : Nat, low : Nat, burst : Nat, isolated : Nat] : r = correlation[q]
      BY <1>6
    <3>2. PICK behind \in {0, 1}, many \in {0, 1} :
            /\ behind = (IF ReceiptTime - p.stamp > 1000 THEN 1 ELSE 0)
            /\ many = (IF inversions[q] + 1 > BurstSize THEN 1 ELSE 0)
      OBVIOUS
    <3>3. PICK s : s = [high |-> r.high + behind, low |-> r.low + (1 - behind),
                        burst |-> r.burst + many, isolated |-> r.isolated + (1 - many)]
      OBVIOUS
    <3>7. /\ 1 - behind = (IF ReceiptTime - p.stamp > 1000 THEN 0 ELSE 1)
          /\ 1 - many = (IF inversions[q] + 1 > BurstSize THEN 0 ELSE 1)
      BY <3>2
    <3>4. /\ s \in [high : Nat, low : Nat, burst : Nat, isolated : Nat]
          /\ s.high + s.low = (r.high + r.low) + 1 /\ s.burst + s.isolated = (r.burst + r.isolated) + 1
      BY <3>3
    <3>8. correlation' =
            [correlation EXCEPT ![q] =
               [high |-> @.high + (IF ReceiptTime - p.stamp > 1000 THEN 1 ELSE 0),
                low |-> @.low + (IF ReceiptTime - p.stamp > 1000 THEN 0 ELSE 1),
                burst |-> @.burst + (IF inversions[q] + 1 > BurstSize THEN 1 ELSE 0),
                isolated |-> @.isolated + (IF inversions[q] + 1 > BurstSize THEN 0 ELSE 1)]]
      BY <1>1, <1>2, <2>2 DEF Arrive, CountCorrelation
    <3>5. correlation' = [correlation EXCEPT ![q] = s]
      BY <1>6, <3>1, <3>2, <3>3, <3>7, <3>8
    <3>6. fell = 1
      BY <1>4, <2>2
    <3> QED
      BY <1>6, <3>1, <3>4, <3>5, <3>6
  <2> QED
    BY <2>1, <2>2
<1>10. Len(arrived') = Len(arrived) + 1
  BY ArrivalIs DEF TraceInv
<1>11. ASSUME NEW k \in Keys
       PROVE  /\ inversions'[k] = Descents(Arrivals', Len(arrived'), k) /\ tracker'[k].inversions = inversions'[k]
              /\ tracker'[k].last = IF last_timestamps'[k] = None THEN 0 ELSE last_timestamps'[k]
              /\ correlation'[k].high + correlation'[k].low = inversions'[k]
              /\ correlation'[k].burst + correlation'[k].isolated = inversions'[k]
  <2>1. inversions'[k] = Descents(Arrivals', Len(arrived'), k)
    <3>1. Descents(Arrivals', Len(arrived) + 1, k) = Descents(Arrivals, Len(arrived), k) + (IF k = q THEN fell ELSE 0)
      BY <1>1, <1>2, <1>4, ArrivalFalls
    <3> QED
      BY <1>5, <1>6, <1>10, <3>1
  <2>2. CASE k = q
    <3>1. inversions'[k] = inversions[k] + fell /\ last_timestamps'[k] = stamp /\ stamp # None
      BY <1>5, <1>7, <2>2, PacketsKeyed
    <3> QED
      BY <1>6, <1>8, <1>9, <2>1, <2>2, <3>1
  <2>3. CASE k # q
    <3>1. inversions'[k] = inversions[k] /\ last_timestamps'[k] = last_timestamps[k]
      BY <1>5, <1>6, <1>7, <2>3
    <3> QED
      BY <1>6, <1>8, <1>9, <2>1, <2>3, <3>1
  <2> QED
    BY <2>2, <2>3
<1> QED
  BY <1>5, <1>8, <1>9, <1>11 DEF KeysAgree

\* order_validation_monitor puts it into one class of size, and into one kind at most;
LEMMA ArrivalClassed ==
    ASSUME TraceInv, NEW i \in under_way, Arrive(i)
    PROVE  PatternsAgree'
<1>1. PICK p \in TracedPackets : p = traced[i]
  BY ArrivalIs DEF TraceInv
<1>2. PICK fell \in {0, 1} : fell = (IF Inversion(p) THEN 1 ELSE 0)
  OBVIOUS
<1>3. TotalOf(Keys, inversions) \in Nat /\ TotalOf(Keys, inversions') = TotalOf(Keys, inversions) + fell
  BY <1>1, <1>2, ArrivalCounted
<1>4. /\ PatternFields \subseteq DOMAIN patterns /\ \A f \in PatternFields : patterns[f] \in Nat
      /\ patterns.tiny + patterns.small + patterns.medium + patterns.large = TotalOf(Keys, inversions)
      /\ patterns.consecutive + patterns.isolated <= TotalOf(Keys, inversions)
  BY DEF TraceInv, PatternsAgree
<1>5. patterns' = CountPattern(p)
  BY <1>1 DEF Arrive
<1>6. CASE ~Inversion(p)
  <2>1. \A f \in PatternFields : patterns'[f] = patterns[f]
    BY <1>4, <1>5, <1>6 DEF CountPattern, PatternFields
  <2>2. DOMAIN patterns' = DOMAIN patterns /\ fell = 0
    BY <1>2, <1>5, <1>6 DEF CountPattern
  <2>3. /\ patterns'.tiny = patterns.tiny /\ patterns'.small = patterns.small /\ patterns'.medium = patterns.medium
        /\ patterns'.large = patterns.large /\ patterns'.consecutive = patterns.consecutive
        /\ patterns'.isolated = patterns.isolated
    BY <2>1 DEF PatternFields
  <2> QED
    BY <1>3, <1>4, <2>1, <2>2, <2>3 DEF PatternsAgree
<1>7. CASE Inversion(p)
  <2>1. PICK c \in {"tiny", "small", "medium", "large"} : c = SizeClass(WentBack(p))
    BY DEF SizeClass
  <2>2. PICK again \in {0, 1} : again = (IF patterns.last_key = p.key THEN 1 ELSE 0)
    OBVIOUS
  <2>3. PICK alone \in {0, 1} : alone = (IF patterns.last_key # p.key /\ patterns.counter = 0 THEN 1 ELSE 0)
    OBVIOUS
  <2>4. again + alone <= 1
    BY <2>2, <2>3
  <2>5. PICK run, longest : patterns' = [patterns EXCEPT ![c] = @ + 1,
                              !.consecutive = IF patterns.last_key = p.key THEN @ + 1 ELSE @,
                              !.isolated = IF ~(patterns.last_key = p.key) /\ patterns.counter = 0 THEN @ + 1 ELSE @,
                              !.counter = run,
                              !.longest = longest,
                              !.last_key = p.key]
    BY <1>5, <1>7, <2>1 DEF CountPattern
  <2>6. /\ patterns.consecutive \in Nat /\ patterns.isolated \in Nat
        /\ patterns.tiny \in Nat /\ patterns.small \in Nat /\ patterns.medium \in Nat /\ patterns.large \in Nat
        /\ PatternFields = {"tiny", "small", "medium", "large", "consecutive", "isolated"}
    BY <1>4 DEF PatternFields
  <2>7. DOMAIN patterns' = DOMAIN patterns /\ fell = 1
    BY <1>2, <1>7, <2>5
  <2>8. patterns'.consecutive = patterns.consecutive + again
    <3>1. "consecutive" \in DOMAIN patterns /\ "consecutive" # c
      BY <1>4, <2>6
    <3>2. patterns'.consecutive = IF patterns.last_key = p.key THEN patterns.consecutive + 1 ELSE patterns.consecutive
      BY <2>5, <3>1
    <3> QED
      BY <2>2, <2>6, <3>2
  <2>9. patterns'.isolated = patterns.isolated + alone
    <3>1. "isolated" \in DOMAIN patterns /\ "isolated" # c
      BY <1>4, <2>6
    <3>2. patterns'.isolated = IF ~(patterns.last_key = p.key) /\ patterns.counter = 0 THEN patterns.isolated + 1 ELSE patterns.isolated
      BY <2>5, <3>1
    <3> QED
      BY <2>3, <2>6, <3>2
  <2>10. patterns'[c] = patterns[c] + 1 /\ \A f \in {"tiny", "small", "medium", "large"} : f # c => patterns'[f] = patterns[f]
    <3>1. {"tiny", "small", "medium", "large"} \subseteq DOMAIN patterns
      BY <1>4, <2>6
    <3>2. patterns'[c] = patterns[c] + 1
      BY <2>5, <3>1
    <3>3. ASSUME NEW f \in {"tiny", "small", "medium", "large"}, f # c PROVE patterns'[f] = patterns[f]
      BY <2>5, <3>1, <3>3
    <3> QED
      BY <3>2, <3>3
  <2>11. /\ patterns'.tiny \in Nat /\ patterns'.small \in Nat /\ patterns'.medium \in Nat /\ patterns'.large \in Nat
         /\ patterns'.tiny + patterns'.small + patterns'.medium + patterns'.large
               = (patterns.tiny + patterns.small + patterns.medium + patterns.large) + 1
    <3>1. CASE c = "tiny"
      BY <2>6, <2>10, <3>1
    <3>2. CASE c = "small"
      BY <2>6, <2>10, <3>2
    <3>3. CASE c = "medium"
      BY <2>6, <2>10, <3>3
    <3>4. CASE c = "large"
      BY <2>6, <2>10, <3>4
    <3> QED
      BY <3>1, <3>2, <3>3, <3>4
  <2>12. /\ patterns'.consecutive \in Nat /\ patterns'.isolated \in Nat
         /\ patterns'.consecutive + patterns'.isolated <= TotalOf(Keys, inversions) + 1
    BY <1>3, <1>4, <2>4, <2>6, <2>8, <2>9
  <2>13. \A f \in PatternFields : patterns'[f] \in Nat
    BY <2>6, <2>11, <2>12
  <2> QED
    BY <1>3, <1>4, <2>7, <2>11, <2>12, <2>13 DEF PatternsAgree
<1> QED
  BY <1>6, <1>7

\* packet_inversion_diagnostics blames the source for it, and dual_side_order_analyzer
\* the network only if the key lost its order.
LEMMA ArrivalBlamed ==
    ASSUME TraceInv, NEW i \in under_way, Arrive(i), OrderKept', Numbered'
    PROVE  TotalsAgree'
<1>1. PICK p \in TracedPackets : p = traced[i]
  BY ArrivalIs DEF TraceInv
<1>2. PICK q \in Keys : q = p.key
  BY <1>1, PacketsKeyed
<1>3. PICK fell \in {0, 1} : fell = (IF Inversion(p) THEN 1 ELSE 0)
  OBVIOUS
<1>4. TotalOf(Keys, inversions) \in Nat /\ TotalOf(Keys, inversions') = TotalOf(Keys, inversions) + fell
  BY <1>1, <1>3, ArrivalCounted
<1>5. TotalsAgree
  BY DEF TraceInv
<1>6. /\ diagnostics' = Diagnose(p) /\ dual' = CountDual(p) /\ production_total' = production_total + 2
      /\ traced' = traced /\ tapped' = tapped /\ watched' = watched
      /\ disturbed' = (IF i > watched \/ \E j \in under_way : j < i /\ traced[j].key = p.key
                         THEN disturbed \cup {q} ELSE disturbed)
  BY <1>1, <1>2 DEF Arrive
<1>7. PICK m \in Nat, n \in Nat : m = Len(arrived) /\ n = Len(traced)
  BY ArrivalsAre DEF TraceInv
<1>8. diagnostics'.actual = diagnostics.actual + fell /\ diagnostics'.perceived = 0 /\ diagnostics'.sequence \in [Keys -> Nat]
  <2>1. PICK s \in Nat : s = diagnostics.sequence[q]
    BY <1>5 DEF TotalsAgree
  <2>2. diagnostics' = [sequence |-> [diagnostics.sequence EXCEPT ![q] = s + 1],
                        actual |-> diagnostics.actual + (IF Inversion(p) THEN 1 ELSE 0),
                        perceived |-> diagnostics.perceived
                          + (IF Inversion(p) /\ (s + 1) - 1 >= 1 /\ s + 1 < (s + 1) - 1 THEN 1 ELSE 0)]
    BY <1>2, <1>6, <2>1 DEF Diagnose
  <2>3. ~(s + 1 < (s + 1) - 1) /\ diagnostics.perceived = 0 /\ diagnostics.sequence \in [Keys -> Nat]
    BY <1>5 DEF TotalsAgree
  <2>4. diagnostics'.perceived = 0
    BY <2>2, <2>3
  <2>5. diagnostics'.actual = diagnostics.actual + fell
    BY <1>3, <2>2
  <2>6. diagnostics'.sequence \in [Keys -> Nat]
    BY <2>2, <2>3
  <2> QED
    BY <2>4, <2>5, <2>6
<1>9. production_total' = 2 * Len(arrived')
  <2>1. Len(arrived') = m + 1 /\ production_total = 2 * m
    BY <1>5, <1>7, ArrivalIs DEF TraceInv, TotalsAgree
  <2> QED
    BY <1>6, <2>1
<1>10. TotalOf(Keys, SourceFalls') = TotalOf(Keys, SourceFalls)
  BY <1>6 DEF SourceFalls
<1>11. PICK known \in {0, 1} :
         known = (IF check_if_source_inversion(p.key, p.stamp, last_timestamps[p.key]) THEN 1 ELSE 0)
  OBVIOUS
<1>12. /\ {"source", "network", "pure", "propagated"} \subseteq DOMAIN dual'
       /\ dual'.source = dual.source /\ dual'.network = dual.network + fell
       /\ dual'.pure = dual.pure + fell * (1 - known) /\ dual'.propagated = dual.propagated + fell * known
  <2>1. /\ {"source", "network", "pure", "propagated"} \subseteq DOMAIN dual
        /\ dual.pure \in Nat /\ dual.propagated \in Nat /\ dual.network \in Nat
    BY <1>4, <1>5 DEF TotalsAgree
  <2>2. CASE fell = 0
    <3>1. ~Inversion(p)
      BY <1>3, <2>2
    <3>2. dual' = dual
      BY <1>6, <3>1 DEF CountDual
    <3> QED
      BY <2>1, <2>2, <3>2
  <2>3. CASE fell = 1 /\ known = 1
    <3>1. Inversion(p) /\ check_if_source_inversion(p.key, p.stamp, last_timestamps[p.key])
      BY <1>3, <1>11, <2>3
    <3>2. dual' = [dual EXCEPT !.network = @ + 1, !.propagated = @ + 1, !.pure = @]
      BY <1>6, <3>1 DEF CountDual
    <3>3. 1 * (1 - 1) = 0 /\ 1 * 1 = 1
      OBVIOUS
    <3> QED
      BY <2>1, <2>3, <3>2, <3>3
  <2>4. CASE fell = 1 /\ known = 0
    <3>1. Inversion(p) /\ ~check_if_source_inversion(p.key, p.stamp, last_timestamps[p.key])
      BY <1>3, <1>11, <2>4
    <3>2. dual' = [dual EXCEPT !.network = @ + 1, !.propagated = @, !.pure = @ + 1]
      BY <1>6, <3>1 DEF CountDual
    <3>3. 1 * (1 - 0) = 1 /\ 1 * 0 = 0
      OBVIOUS
    <3> QED
      BY <2>1, <2>4, <3>2, <3>3
  <2> QED
    BY <2>2, <2>3, <2>4
<1>13. dual'.pure \in Nat /\ dual'.propagated \in Nat /\ dual'.pure + dual'.propagated = (dual.pure + dual.propagated) + fell
  <2>1. dual.pure \in Nat /\ dual.propagated \in Nat
    BY <1>5 DEF TotalsAgree
  <2>2. CASE known = 0
    <3>1. fell * (1 - 0) = fell /\ fell * 0 = 0
      OBVIOUS
    <3> QED
      BY <1>12, <2>1, <2>2, <3>1
  <2>3. CASE known = 1
    <3>1. fell * (1 - 1) = 0 /\ fell * 1 = fell
      OBVIOUS
    <3> QED
      BY <1>12, <2>1, <2>3, <3>1
  <2> QED
    BY <2>2, <2>3
<1>14. ASSUME ~tapped PROVE dual'.propagated = 0
  <2>1. watched = 0
    BY <1>14 DEF TraceInv, Numbered
  <2>2. known = 0
    <3>1. Neighbours(traced, 0, p.key) = {}
      BY DEF Neighbours
    <3> QED
      BY <1>11, <2>1, <3>1 DEF check_if_source_inversion
  <2>3. dual.propagated = 0 /\ fell * 0 = 0
    BY <1>5, <1>14 DEF TotalsAgree
  <2> QED
    BY <1>12, <2>2, <2>3
<1>15. ASSUME disturbed' = {} PROVE dual'.pure = 0
  <2>1. disturbed = {} /\ dual.pure = 0
    BY <1>5, <1>6, <1>15 DEF TotalsAgree
  <2>2. CASE ~Inversion(p)
    <3>1. fell = 0 /\ 0 * (1 - known) = 0
      BY <1>3, <2>2
    <3> QED
      BY <1>12, <2>1, <3>1
  <2>3. CASE Inversion(p)
    <3>1. PICK a \in 1 .. m : Arrivals[a].stamp = last_timestamps[q] /\ IsNext(Arrivals', a, m + 1, q)
      BY <1>1, <1>2, <1>3, <1>7, <2>3, ArrivalFalls
    <3>2. InOrder(traced', arrived', under_way', watched', q)
      BY <1>15 DEF OrderKept
    <3>16. PICK way, h : way = under_way' /\ h = Arrivals'
      OBVIOUS
    <3>17. PICK ar \in Seq(Nat) : ar = arrived'
      BY ArrivalIs DEF TraceInv
    <3>3. ar = arrived' /\ way = under_way' /\ h = Arrivals'
      BY <3>16, <3>17
    <3>4. /\ Len(ar) = m + 1 /\ ar[m + 1] = i /\ i \in 1 .. n
          /\ h[a] = Arrivals[a] /\ h[m + 1] = p
      BY <1>1, <1>7, <3>3, ArrivalIs DEF TraceInv
    <3>5. Numbering(n, ar, way) /\ watched \in 0 .. n
      BY <1>6, <1>7, <3>3 DEF Numbered
    <3>6. \A b \in 1 .. Len(ar) : h[b] = traced[ar[b]]
      BY <1>6, <3>3 DEF Arrivals
    <3>7. a \in 1 .. Len(ar) /\ m + 1 \in 1 .. Len(ar) /\ IsNext(h, a, m + 1, q)
      BY <3>1, <3>3, <3>4
    <3>8. InOrder(traced, ar, way, watched, q)
      BY <1>6, <3>2, <3>3
    <3>9. ar[a] \in 1 .. watched /\ ar[m + 1] \in 1 .. watched /\ IsNext(traced, ar[a], ar[m + 1], q)
      BY <3>5, <3>6, <3>7, <3>8, Carried
    <3>15. PICK w \in Nat : w = watched
      BY <3>5
    <3>10. PICK x \in 1 .. w, y \in 1 .. w : x = ar[a] /\ y = ar[m + 1]
      BY <3>9, <3>15
    <3>11. <<x, y>> \in Neighbours(traced, watched, q)
      <4>1. x \in 1 .. w /\ y \in 1 .. w /\ IsNext(traced, x, y, q)
        BY <3>9, <3>10
      <4>2. <<x, y>> \in Neighbours(traced, w, q)
        BY <4>1, NeighboursAre
      <4> QED
        BY <3>15, <4>2
    <3>12. traced[x].stamp = last_timestamps[q] /\ traced[y].stamp = p.stamp
      BY <1>1, <3>1, <3>4, <3>6, <3>7, <3>10
    <3>13. check_if_source_inversion(q, p.stamp, last_timestamps[q])
      <4>1. <<x, y>>[1] = x /\ <<x, y>>[2] = y
        OBVIOUS
      <4> QED
        BY <3>11, <3>12, <4>1 DEF check_if_source_inversion
    <3>14. known = 1 /\ fell * (1 - 1) = 0
      BY <1>2, <1>11, <3>13
    <3> QED
      BY <1>12, <2>1, <3>14
  <2> QED
    BY <2>2, <2>3
<1>16. dual'.network = TotalOf(Keys, inversions') /\ dual'.pure + dual'.propagated = TotalOf(Keys, inversions')
  BY <1>4, <1>5, <1>12, <1>13 DEF TotalsAgree
<1>17. dual'.source = TotalOf(Keys, SourceFalls') /\ diagnostics'.actual = TotalOf(Keys, inversions')
  BY <1>4, <1>5, <1>8, <1>10, <1>12 DEF TotalsAgree
<1> QED
  BY <1>6, <1>8, <1>9, <1>12, <1>13, <1>14, <1>15, <1>16, <1>17 DEF TotalsAgree

\* A datagram arrives.
LEMMA ArriveKeeps == ASSUME TraceInv, NEW i \in under_way, Arrive(i) PROVE TraceInv'
<1>1. PICK p \in TracedPackets : p = traced[i]
  BY ArrivalIs DEF TraceInv
<1>2. PICK m \in Nat, n \in Nat : m = Len(arrived) /\ n = Len(traced)
  BY ArrivalsAre DEF TraceInv
<1>3. /\ i \in 1 .. n /\ arrived' \in Seq(Nat) /\ Len(arrived') = m + 1 /\ arrived' = Append(arrived, i)
      /\ arrived \in Seq(Nat) /\ watched \in 0 .. n /\ Numbering(n, arrived, under_way)
      /\ under_way \subseteq 1 .. n
  BY <1>2, ArrivalIs DEF TraceInv, Numbered, Arrive
<1>4. /\ under_way' = under_way \ {i} /\ traced' = traced /\ watched' = watched /\ tapped' = tapped
      /\ source_last' = source_last /\ last_timestamps' = [last_timestamps EXCEPT ![p.key] = p.stamp]
      /\ disturbed' = (IF i > watched \/ \E j \in under_way : j < i /\ traced[j].key = p.key
                         THEN disturbed \cup {p.key} ELSE disturbed)
  BY <1>1 DEF Arrive
<1>5. Numbered'
  <2>1. PICK br \in Seq(Nat) : br = arrived'
    BY <1>3
  <2>2. Numbering(n, br, under_way \ {i})
    BY <1>3, <2>1, OneNumbered
  <2> QED
    BY <1>2, <1>3, <1>4, <2>1, <2>2 DEF TraceInv, Numbered
<1>6. OrderKept'
  <2> SUFFICES ASSUME NEW k \in Keys, k \notin disturbed' PROVE InOrder(traced, arrived', under_way \ {i}, watched, k)
    BY <1>4 DEF OrderKept
  <2>1. InOrder(traced, arrived, under_way, watched, k)
    BY <1>4 DEF TraceInv, OrderKept
  <2>2. ASSUME traced[i].key = k PROVE i <= watched /\ \A j \in under_way : j < i => traced[j].key # k
    <3>1. p.key \notin disturbed'
      BY <1>1, <2>2
    <3>2. ~(i > watched \/ \E j \in under_way : j < i /\ traced[j].key = p.key)
      BY <1>4, <3>1
    <3>3. i <= watched
      BY <1>3, <3>2
    <3> QED
      BY <1>1, <2>2, <3>2, <3>3
  <2>3. PICK br \in Seq(Nat) : br = arrived'
    BY <1>3
  <2>4. InOrder(traced, br, under_way \ {i}, watched, k)
    BY <1>3, <2>1, <2>2, <2>3, OneInOrder
  <2> QED
    BY <2>3, <2>4
<1>7. LastsKept'
  <2>1. last_timestamps' \in [Keys -> Nat \cup {None}] /\ source_last' \in [Keys -> Nat \cup {None}]
    BY <1>4, PacketsKeyed DEF TraceInv, LastsKept
  <2>2. PICK fell : fell = (IF Inversion(p) THEN 1 ELSE 0)
    OBVIOUS
  <2>3. ASSUME NEW k \in Keys
        PROVE  LatestOf(Arrivals', m + 1, k, last_timestamps'[k]) /\ LatestOf(traced', watched', k, source_last'[k])
    <3>1. LatestOf(Arrivals', Len(arrived) + 1, k, last_timestamps'[k])
      BY <1>1, <2>2, ArrivalFalls
    <3> QED
      BY <1>2, <1>4, <3>1 DEF TraceInv, LastsKept
  <2> QED
    BY <1>3, <2>1, <2>3 DEF LastsKept
<1>8. KeysAgree'
  BY ArrivalTracked
<1>9. PatternsAgree'
  BY ArrivalClassed
<1>10. TotalsAgree'
  BY <1>5, <1>6, ArrivalBlamed
<1> QED
  BY <1>5, <1>6, <1>7, <1>8, <1>9, <1>10 DEF TraceInv

\* Every step keeps the invariant.
LEMMA TraceSteps == TraceInv /\ [TraceNext]_avars => TraceInv'
<1> SUFFICES ASSUME TraceInv, [TraceNext]_avars PROVE TraceInv'
  OBVIOUS
<1>1. CASE monitor_pre_send
  BY <1>1, MonitorKeeps
<1>2. ASSUME NEW p \in TracedPackets, SendTraced(p) PROVE TraceInv'
  BY <1>2, SendTracedKeeps
<1>3. ASSUME NEW i \in under_way, Arrive(i) PROVE TraceInv'
  BY <1>3, ArriveKeeps
<1>4. CASE UNCHANGED avars
  <2>1. /\ traced' = traced /\ under_way' = under_way /\ arrived' = arrived /\ tapped' = tapped /\ watched' = watched
        /\ source_last' = source_last /\ last_timestamps' = last_timestamps /\ inversions' = inversions
        /\ tracker' = tracker /\ patterns' = patterns /\ correlation' = correlation /\ diagnostics' = diagnostics
        /\ dual' = dual /\ production_total' = production_total /\ disturbed' = disturbed
    BY <1>4 DEF avars
  <2>2. Numbered' /\ LastsKept' /\ KeysAgree'
    BY <2>1 DEF TraceInv, Numbered, LastsKept, KeysAgree, Arrivals
  <2>3. PatternsAgree' /\ TotalsAgree' /\ OrderKept'
    BY <2>1 DEF TraceInv, PatternsAgree, TotalsAgree, OrderKept, SourceFalls
  <2> QED
    BY <2>2, <2>3 DEF TraceInv
<1> QED
  BY <1>1, <1>2, <1>3, <1>4 DEF TraceNext

\* The inductive invariant says what the tools conclude.
LEMMA TraceShows == TraceInv => TracesAgree
<1> SUFFICES ASSUME TraceInv PROVE TracesAgree
  OBVIOUS
<1>1. PICK all \in Nat : all = TotalOf(Keys, inversions)
  <2>1. inversions \in [Keys -> Nat]
    BY DEF TraceInv, KeysAgree
  <2> QED
    BY <2>1, PacketsKeyed, TotalNaturals
<1>2. \A k \in Keys :
        /\ inversions[k] = Descents(Arrivals, Len(arrived), k) /\ tracker[k].inversions = inversions[k]
        /\ correlation[k].high + correlation[k].low = inversions[k]
        /\ correlation[k].burst + correlation[k].isolated = inversions[k]
  BY DEF TraceInv, KeysAgree
<1>3. /\ patterns.tiny + patterns.small + patterns.medium + patterns.large = all
      /\ patterns.consecutive + patterns.isolated <= all
  BY <1>1 DEF TraceInv, PatternsAgree
<1>4. /\ diagnostics.actual = all /\ diagnostics.perceived = 0
      /\ dual.network = all /\ dual.pure + dual.propagated = all
      /\ dual.source = TotalOf(Keys, SourceFalls)
      /\ disturbed = {} => dual.pure = 0
      /\ ~tapped => dual.propagated = 0
      /\ production_total = 2 * Len(arrived)
  BY <1>1 DEF TraceInv, TotalsAgree
<1>5. SourceIsBlamed <=> all > 0
  BY <1>4 DEF SourceIsBlamed
<1>6. ASSUME disturbed = {} PROVE dual.network <= dual.source
  <2>1. PICK n \in Nat, w \in Nat : n = Len(traced) /\ w = watched /\ w \in 0 .. n
    BY ArrivalsAre DEF TraceInv, Numbered
  <2>2. PICK h : h = Arrivals /\ \A i \in 1 .. Len(arrived) : h[i] = traced[arrived[i]]
    BY ArrivalsAre DEF TraceInv
  <2>3. ASSUME NEW k \in Keys PROVE inversions[k] <= SourceFalls[k]
    <3>1. InOrder(traced, arrived, under_way, w, k)
      BY <1>6, <2>1 DEF TraceInv, OrderKept
    <3>2. Numbering(n, arrived, under_way) /\ arrived \in Seq(Nat)
      BY <2>1 DEF TraceInv, Numbered
    <3>3. Descents(h, Len(arrived), k) <= Descents(traced, w, k)
      BY <2>1, <2>2, <3>1, <3>2, NoMoreFalls
    <3> QED
      BY <1>2, <2>1, <2>2, <3>3 DEF SourceFalls
  <2>4. inversions \in [Keys -> Int] /\ SourceFalls \in [Keys -> Int]
    <3>1. \A k \in Keys : Descents(traced, w, k) \in Nat
      BY FallsAre
    <3> QED
      BY <2>1, <3>1 DEF TraceInv, KeysAgree, SourceFalls
  <2>5. TotalOf(Keys, inversions) <= TotalOf(Keys, SourceFalls)
    BY <2>3, <2>4, PacketsKeyed, TotalMonotone
  <2> QED
    BY <1>1, <1>4, <2>5
<1> QED
  BY <1>1, <1>2, <1>3, <1>4, <1>5, <1>6 DEF TracesAgree, SourceFalls

\* Whatever is sent, lost and overtaken, the tools count the inversions that arrived, and
\* the network is blamed only for a key that lost its order.
THEOREM TracesAlwaysAgree == TraceSpec => []TracesAgree
<1>1. TraceInit => TraceInv
  BY TraceStarts
<1>2. TraceInv /\ [TraceNext]_avars => TraceInv'
  BY TraceSteps
<1>3. TraceInv => TracesAgree
  BY TraceShows
<1> QED
  BY <1>1, <1>2, <1>3, PTL DEF TraceSpec

--------------------------------------------------------------------------------
(* The types.  First the validator and the receivers.                      *)

\* No trade is seen by the database receiver, and nothing reaches a channel.
RxWithin ==
    /\ packets \in Seq(Stamps) /\ channels = <<>>
    /\ database \in [trades : Nat, metadata : Nat] /\ database.trades = 0 /\ database.metadata = Len(got)

\* Every step of the network and its ends.
LEMMA RxWithinSteps == RxInv /\ RxWithin /\ [RxNext]_rvars => RxWithin'
<1> SUFFICES ASSUME RxInv, RxWithin, [RxNext]_rvars PROVE RxWithin'
  OBVIOUS
<1>1. CASE UNCHANGED rvars
  BY <1>1 DEF rvars, RxWithin
<1>2. ASSUME NEW ts \in Stamps, SendDatagram(ts) PROVE RxWithin'
  <2>1. packets' = Append(packets, ts) /\ UNCHANGED <<got, database, channels>>
    BY <1>2 DEF SendDatagram
  <2>2. packets' \in Seq(Stamps)
    BY <2>1, AppendProperties DEF RxWithin
  <2> QED
    BY <2>1, <2>2 DEF RxWithin
<1>3. ASSUME NEW i \in 1 .. Len(flight), LoseDatagram(i) \/ RepeatDatagram(i) PROVE RxWithin'
  BY <1>3 DEF LoseDatagram, RepeatDatagram, RxWithin
<1>4. ASSUME NEW i \in 1 .. Len(flight), Deliver(i) PROVE RxWithin'
  <2> DEFINE n == flight[i]
  <2>1. /\ got' = Append(got, n) /\ database' = receive_loop("TRADE|json") /\ packets' = packets
        /\ \E length \in {20, 60} : channels' = process_packet(n, length)
    BY <1>4 DEF Deliver
  <2>2. channels' = <<>>
    <3>1. \A length \in {20, 60} : recv_from(length) < HeaderLength
      BY DEF recv_from, BufferLength, HeaderLength
    <3> QED
      BY <2>1, <3>1 DEF process_packet, RxWithin
  <2>3. PICK r \in [trades : Nat, metadata : Nat] : r = database /\ r.trades = 0
    BY DEF RxWithin
  <2>4. PICK z \in {0} : z = (IF "TRADE|json" = "json" THEN 1 ELSE 0)
    <3>1. "TRADE|json" # "json"
      OBVIOUS
    <3> QED
      BY <3>1
  <2>5. Len(got') = Len(got) + 1
    <3>1. got \in Seq(1 .. Len(packets)) /\ flight \in Seq(1 .. Len(packets))
      BY DEF RxInv, RxShape
    <3>2. n \in 1 .. Len(packets)
      BY <3>1, ElementOfSeq
    <3> QED
      BY <2>1, <3>1, <3>2, AppendProperties
  <2>6. database' \in [trades : Nat, metadata : Nat] /\ database'.trades = 0 /\ database'.metadata = r.metadata + 1
    <3>1. database' = [database EXCEPT !.trades = @ + z, !.metadata = @ + 1]
      BY <2>1, <2>4 DEF receive_loop
    <3>2. PICK q : q = [r EXCEPT !.trades = r.trades + z, !.metadata = r.metadata + 1]
      OBVIOUS
    <3>3. q \in [trades : Nat, metadata : Nat]
      <4>1. r.trades + z \in Nat /\ r.metadata + 1 \in Nat
        OBVIOUS
      <4> QED
        BY <3>2, <4>1
    <3>5. q.trades = r.trades + z /\ q.metadata = r.metadata + 1
      BY <3>2
    <3>4. database' = q
      BY <2>3, <3>1, <3>2
    <3> QED
      BY <2>3, <2>4, <3>3, <3>4, <3>5
  <2> QED
    BY <2>1, <2>2, <2>3, <2>5, <2>6 DEF RxWithin
<1> QED
  BY <1>1, <1>2, <1>3, <1>4 DEF RxNext

\* The types of network and receivers.
LEMMA RxTypes == RxSpec => []RxTypeOK
<1>1. RxInit => RxInv /\ RxWithin
  <2>1. RxInit => RxWithin
    <3> SUFFICES ASSUME RxInit PROVE RxWithin
      OBVIOUS
    <3>1. packets = <<>> /\ got = <<>> /\ database = [trades |-> 0, metadata |-> 0] /\ channels = <<>>
      BY DEF RxInit
    <3> QED
      BY <3>1 DEF RxWithin
  <2> QED
    BY <2>1, RxStarts
<1>2. RxInv /\ RxWithin /\ [RxNext]_rvars => RxInv' /\ RxWithin'
  BY RxSteps, RxWithinSteps
<1>3. RxInv /\ RxWithin => RxTypeOK
  <2> SUFFICES ASSUME RxInv, RxWithin PROVE RxTypeOK
    OBVIOUS
  <2>1. flight \in Seq(1 .. Len(packets)) /\ got \in Seq(1 .. Len(packets))
    BY DEF RxInv, RxShape
  <2>2. \A i \in 1 .. Len(flight) : flight[i] \in 1 .. Len(packets)
    BY <2>1, ElementOfSeq
  <2>3. \A i \in 1 .. Len(got) : got[i] \in 1 .. Len(packets)
    BY <2>1, ElementOfSeq
  <2> QED
    BY <2>2, <2>3 DEF RxTypeOK, RxWithin
<1> QED
  BY <1>1, <1>2, <1>3, PTL DEF RxSpec

--------------------------------------------------------------------------------
(* The binary datagrams.                                                   *)

\* The monitor counts every datagram as binary or as text.
BinaryWithin ==
    /\ {"binary", "text"} \subseteq DOMAIN monitor /\ monitor.binary \in Nat /\ monitor.text \in Nat
    /\ monitor.binary + monitor.text = Len(read)

\* Every step of sender and monitor.
LEMMA BinaryWithinSteps == BinaryInv /\ BinaryWithin /\ [BinaryNext]_yvars => BinaryWithin'
<1> SUFFICES ASSUME BinaryInv, BinaryWithin, [BinaryNext]_yvars PROVE BinaryWithin'
  OBVIOUS
<1>1. ASSUME read' = read, monitor' = monitor PROVE BinaryWithin'
  BY <1>1 DEF BinaryWithin
<1>2. CASE ReadPacket
  <2>1. in_flight # <<>> /\ read' = Append(read, Head(in_flight)) /\ monitor' = Counted(Head(in_flight))
    BY <1>2 DEF ReadPacket
  <2>2. PICK p \in Datagrams : p = Head(in_flight)
    BY <2>1, HeadTailProperties DEF BinaryInv
  <2>3. PICK n \in Nat : n = Len(read) /\ Len(read') = n + 1
    BY <2>1, <2>2, AppendProperties, LenProperties DEF BinaryInv
  <2>4. CASE "text" \in DOMAIN p
    <3>1. monitor' = [monitor EXCEPT !.text = @ + 1, !.reported = IF p.text = "CONN" THEN @ \cup {p.text} ELSE @]
      BY <2>1, <2>2, <2>4 DEF Counted
    <3>2. {"binary", "text"} \subseteq DOMAIN monitor' /\ monitor'.text = monitor.text + 1 /\ monitor'.binary = monitor.binary
      BY <3>1 DEF BinaryWithin
    <3> QED
      BY <2>3, <3>2 DEF BinaryWithin
  <2>5. CASE "text" \notin DOMAIN p
    <3>1. monitor' = [monitor EXCEPT !.binary = @ + 1,
                           !.orderbooks = IF packet_type(p.flags) = 0 THEN @ + 1 ELSE @,
                           !.trades = IF packet_type(p.flags) = 1 THEN @ + 1 ELSE @]
      BY <2>1, <2>2, <2>5 DEF Counted
    <3>2. {"binary", "text"} \subseteq DOMAIN monitor' /\ monitor'.text = monitor.text /\ monitor'.binary = monitor.binary + 1
      BY <3>1 DEF BinaryWithin
    <3> QED
      BY <2>3, <3>2 DEF BinaryWithin
  <2> QED
    BY <2>4, <2>5
<1>3. ASSUME NEW v \in Scaled, NEW precision \in Precisions, SendTrade(v, precision) PROVE BinaryWithin'
  BY <1>1, <1>3 DEF SendTrade, Put
<1>4. ASSUME NEW bids \in Ladders, NEW asks \in Ladders, NEW precision \in Precisions, SendBook(bids, asks, precision)
      PROVE  BinaryWithin'
  BY <1>1, <1>4 DEF SendBook, Put
<1>5. ASSUME NEW what \in {"CONN", "STATS"}, SendText(what) PROVE BinaryWithin'
  BY <1>1, <1>5 DEF SendText, Put
<1>6. CASE UNCHANGED yvars
  BY <1>1, <1>6 DEF yvars
<1> QED
  BY <1>2, <1>3, <1>4, <1>5, <1>6 DEF BinaryNext

\* Flags and count are one byte.
LEMMA FlagsAreAByte == ASSUME NEW p \in Datagrams, "flags" \in DOMAIN p PROVE p.flags \in 0 .. 255
<1>1. ASSUME NEW last \in BOOLEAN, NEW kind \in Nat, NEW bid \in BOOLEAN, NEW count \in Nat
      PROVE  set_flags_and_count(last, kind, bid, count) \in 0 .. 255
  <2>1. kind % 8 \in 0 .. 7 /\ count % 8 \in 0 .. 7
    OBVIOUS
  <2>2. PICK k \in 0 .. 7, c \in 0 .. 7 : k = kind % 8 /\ c = count % 8
    BY <2>1
  <2>3. PICK a \in {0, 128} : a = (IF last THEN 128 ELSE 0)
    OBVIOUS
  <2>4. PICK b \in {0, 8} : b = (IF bid THEN 8 ELSE 0)
    OBVIOUS
  <2>5. set_flags_and_count(last, kind, bid, count) = a + k * 16 + b + c
    BY <2>2, <2>3, <2>4 DEF set_flags_and_count
  <2>6. a + k * 16 + b + c \in 0 .. 255
    BY <2>2
  <2> QED
    BY <2>5, <2>6
<1>2. ASSUME NEW v \in Scaled, NEW precision \in Nat, p = from_trade(v, precision) PROVE p.flags \in 0 .. 255
  <2>1. p.flags = set_flags_and_count(TRUE, 1, FALSE, 1)
    BY <1>2 DEF from_trade
  <2> QED
    BY <1>1, <2>1
<1>3. ASSUME NEW levels \in Seq(Scaled), NEW bid \in BOOLEAN, NEW precision \in Nat, p = from_orderbook(levels, bid, precision)
      PROVE  p.flags \in 0 .. 255
  <2>1. PICK m \in Nat : m = Len(SubSeq(levels, 1, IF Len(levels) < MaxItems THEN Len(levels) ELSE MaxItems))
    <3>1. PICK n \in Nat : n = Len(levels)
      BY LenProperties
    <3>2. PICK k \in 0 .. n : k = (IF Len(levels) < MaxItems THEN Len(levels) ELSE MaxItems)
      <4>1. CASE n < 7
        <5>1. n = (IF Len(levels) < MaxItems THEN Len(levels) ELSE MaxItems)
          BY <3>1, <4>1 DEF MaxItems
        <5> QED
          BY <5>1
      <4>2. CASE ~(n < 7)
        <5>1. 7 = (IF Len(levels) < MaxItems THEN Len(levels) ELSE MaxItems)
          BY <3>1, <4>2 DEF MaxItems
        <5>2. 7 \in 0 .. n
          BY <4>2
        <5> QED
          BY <5>1, <5>2
      <4> QED
        BY <4>1, <4>2
    <3>3. SubSeq(levels, 1, k) \in Seq(Scaled)
      <4>1. \A i \in 1 .. k : levels[i] \in Scaled
        BY <3>1, <3>2, ElementOfSeq
      <4> QED
        BY <4>1, SubSeqProperties
    <3> QED
      BY <3>2, <3>3, LenProperties
  <2>2. p.flags = set_flags_and_count(TRUE, 2, bid, m)
    BY <1>3, <2>1 DEF from_orderbook
  <2>3. set_flags_and_count(TRUE, 2, bid, m) \in 0 .. 255
    BY <1>1
  <2> QED
    BY <2>2, <2>3
<1>4. ASSUME NEW what, p = [text |-> what] PROVE FALSE
  <2>1. DOMAIN p = {"text"}
    BY <1>4
  <2> QED
    BY <2>1
<1> QED
  <2>1. \/ \E v \in Scaled, precision \in Nat : p = from_trade(v, precision)
        \/ \E levels \in Seq(Scaled), bid \in BOOLEAN, precision \in Nat : p = from_orderbook(levels, bid, precision)
        \/ \E what \in {"CONN", "STATS"} : p = [text |-> what]
    BY DEF Datagrams
  <2>2. CASE \E v \in Scaled, precision \in Nat : p = from_trade(v, precision)
    BY <1>2, <2>2
  <2>3. CASE \E levels \in Seq(Scaled), bid \in BOOLEAN, precision \in Nat : p = from_orderbook(levels, bid, precision)
    BY <1>3, <2>3
  <2>4. CASE \E what \in {"CONN", "STATS"} : p = [text |-> what]
    BY <1>4, <2>4
  <2> QED
    BY <2>1, <2>2, <2>3, <2>4

\* The types of the binary datagrams.
LEMMA BinaryTypes == BinarySpec => []BinaryTypeOK
<1>1. BinaryInit => BinaryInv /\ BinaryWithin
  <2>1. BinaryInit => BinaryWithin
    <3> SUFFICES ASSUME BinaryInit PROVE BinaryWithin
      OBVIOUS
    <3>1. read = <<>> /\ monitor = [binary |-> 0, text |-> 0, trades |-> 0, orderbooks |-> 0, reported |-> {}]
      BY DEF BinaryInit
    <3> QED
      BY <3>1 DEF BinaryWithin
  <2> QED
    BY <2>1, BinaryStarts
<1>2. BinaryInv /\ BinaryWithin /\ [BinaryNext]_yvars => BinaryInv' /\ BinaryWithin'
  BY BinarySteps, BinaryWithinSteps
<1>3. BinaryInv /\ BinaryWithin => BinaryTypeOK
  <2> SUFFICES ASSUME BinaryInv, BinaryWithin PROVE BinaryTypeOK
    OBVIOUS
  <2>1. Len(read) + Len(in_flight) = Len(source)
    BY DEF BinaryInv
  <2>2. ASSUME NEW i \in DOMAIN read, "flags" \in DOMAIN read[i] PROVE read[i].flags \in 0 .. 255
    <3>1. read[i] \in Datagrams
      BY DEF BinaryInv
    <3> QED
      BY <2>2, <3>1, FlagsAreAByte
  <2> QED
    BY <2>1, <2>2 DEF BinaryTypeOK, BinaryWithin
<1> QED
  BY <1>1, <1>2, <1>3, PTL DEF BinarySpec

--------------------------------------------------------------------------------
(* The tools.                                                              *)

\* A run of consecutive inversions is not longer than there are such.
TraceWithin ==
    /\ disturbed \subseteq Keys
    /\ {"counter", "longest", "last_key"} \subseteq DOMAIN patterns
    /\ patterns.last_key \in Keys \cup {"none"}
    /\ patterns.counter \in Nat /\ patterns.longest \in Nat
    /\ patterns.counter <= patterns.consecutive /\ patterns.longest <= patterns.consecutive

\* What arrives lengthens a run with the inversions it counts.
LEMMA ArriveWithin == ASSUME TraceInv, TraceWithin, NEW i \in under_way, Arrive(i) PROVE TraceWithin'
<1>1. PICK p \in TracedPackets : p = traced[i]
  BY ArrivalIs DEF TraceInv
<1>2. p.key \in Keys
  BY PacketsKeyed
<1>3. disturbed' \subseteq Keys
  <2>1. disturbed' \in {disturbed, disturbed \cup {p.key}}
    BY <1>1 DEF Arrive
  <2> QED
    BY <1>2, <2>1 DEF TraceWithin
<1>4. patterns' = CountPattern(p)
  BY <1>1 DEF Arrive
<1>5. /\ PatternFields \cup {"counter", "longest", "last_key"} \subseteq DOMAIN patterns
      /\ patterns.consecutive \in Nat /\ patterns.counter \in Nat /\ patterns.longest \in Nat
      /\ patterns.counter <= patterns.consecutive /\ patterns.longest <= patterns.consecutive
      /\ patterns.last_key \in Keys \cup {"none"}
  BY DEF TraceInv, PatternsAgree, TraceWithin, PatternFields
<1>6. CASE ~Inversion(p)
  <2>1. PICK c \in {0, patterns.counter} : patterns' = [patterns EXCEPT !.counter = c]
    <3>1. patterns' = [patterns EXCEPT !.counter = IF last_timestamps[p.key] # None /\ patterns.last_key = p.key THEN 0 ELSE @]
      BY <1>4, <1>6 DEF CountPattern
    <3> QED
      BY <3>1
  <2>2. DOMAIN patterns' = DOMAIN patterns /\ patterns'.counter = c /\ patterns'.longest = patterns.longest
        /\ patterns'.consecutive = patterns.consecutive /\ patterns'.last_key = patterns.last_key
    BY <1>5, <2>1 DEF PatternFields
  <2> QED
    BY <1>3, <1>5, <2>1, <2>2 DEF TraceWithin
<1>7. CASE Inversion(p)
  <2>1. PICK d \in {"tiny", "small", "medium", "large"} : d = SizeClass(WentBack(p))
    BY DEF SizeClass
  <2>2. PICK again \in {0, 1} : again = (IF patterns.last_key = p.key THEN 1 ELSE 0)
    OBVIOUS
  <2>3. PICK run \in Nat : run = (IF patterns.last_key = p.key THEN patterns.counter + 1 ELSE 0)
    BY <1>5
  <2>4. PICK longest \in Nat : longest = (IF run > patterns.longest THEN run ELSE patterns.longest)
    BY <1>5
  <2>5. PICK alone : alone = (IF ~(patterns.last_key = p.key) /\ patterns.counter = 0 THEN patterns.isolated + 1 ELSE patterns.isolated)
    OBVIOUS
  <2>6. PICK cons \in Nat : cons = patterns.consecutive + again
    BY <1>5
  <2>7. cons = (IF patterns.last_key = p.key THEN patterns.consecutive + 1 ELSE patterns.consecutive)
    BY <1>5, <2>2, <2>6
  <2>8. patterns' = [patterns EXCEPT ![SizeClass(WentBack(p))] = @ + 1,
                              !.consecutive = IF patterns.last_key = p.key THEN @ + 1 ELSE @,
                              !.isolated = IF ~(patterns.last_key = p.key) /\ patterns.counter = 0 THEN @ + 1 ELSE @,
                              !.counter = IF patterns.last_key = p.key THEN patterns.counter + 1 ELSE 0,
                              !.longest = IF (IF patterns.last_key = p.key THEN patterns.counter + 1 ELSE 0) > @
                                            THEN (IF patterns.last_key = p.key THEN patterns.counter + 1 ELSE 0) ELSE @,
                              !.last_key = p.key]
    BY <1>4, <1>7 DEF CountPattern
  <2>9. patterns' = [patterns EXCEPT ![d] = patterns[d] + 1, !.consecutive = cons, !.isolated = alone,
                              !.counter = run, !.longest = longest, !.last_key = p.key]
    BY <1>5, <2>1, <2>3, <2>4, <2>5, <2>7, <2>8 DEF PatternFields
  <2>10. DOMAIN patterns' = DOMAIN patterns /\ patterns'.counter = run /\ patterns'.longest = longest
         /\ patterns'.consecutive = cons /\ patterns'.last_key = p.key
    BY <1>5, <2>9 DEF PatternFields
  <2>11. run <= cons /\ longest <= cons
    BY <1>5, <2>2, <2>3, <2>4, <2>6
  <2> QED
    BY <1>2, <1>3, <1>5, <2>10, <2>11 DEF TraceWithin
<1> QED
  BY <1>6, <1>7

\* Every step of the tools.
LEMMA TraceWithinSteps == TraceInv /\ TraceWithin /\ [TraceNext]_avars => TraceWithin'
<1> SUFFICES ASSUME TraceInv, TraceWithin, [TraceNext]_avars PROVE TraceWithin'
  OBVIOUS
<1>1. ASSUME disturbed' = disturbed, patterns' = patterns PROVE TraceWithin'
  BY <1>1 DEF TraceWithin
<1>2. CASE monitor_pre_send
  BY <1>1, <1>2 DEF monitor_pre_send
<1>3. ASSUME NEW p \in TracedPackets, SendTraced(p) PROVE TraceWithin'
  BY <1>1, <1>3 DEF SendTraced
<1>4. ASSUME NEW i \in under_way, Arrive(i) PROVE TraceWithin'
  BY <1>4, ArriveWithin
<1>5. CASE UNCHANGED avars
  BY <1>1, <1>5 DEF avars
<1> QED
  BY <1>2, <1>3, <1>4, <1>5 DEF TraceNext

\* The types of the tools.
LEMMA TraceTypes == TraceSpec => []TraceTypeOK
<1>1. TraceInit => TraceInv /\ TraceWithin
  <2>1. TraceInit => TraceWithin
    <3> SUFFICES ASSUME TraceInit PROVE TraceWithin
      OBVIOUS
    <3>1. disturbed = {}
          /\ patterns = [tiny |-> 0, small |-> 0, medium |-> 0, large |-> 0, consecutive |-> 0, isolated |-> 0,
                         counter |-> 0, longest |-> 0, last_key |-> "none"]
      BY DEF TraceInit
    <3> QED
      BY <3>1 DEF TraceWithin
  <2> QED
    BY <2>1, TraceStarts
<1>2. TraceInv /\ TraceWithin /\ [TraceNext]_avars => TraceInv' /\ TraceWithin'
  BY TraceSteps, TraceWithinSteps
<1>3. TraceInv /\ TraceWithin => TraceTypeOK
  <2> SUFFICES ASSUME TraceInv, TraceWithin PROVE TraceTypeOK
    OBVIOUS
  <2>1. /\ under_way \subseteq 1 .. Len(traced) /\ watched \in 0 .. Len(traced) /\ arrived \in Seq(Nat)
        /\ Numbering(Len(traced), arrived, under_way)
    BY DEF TraceInv, Numbered
  <2>2. ToSet(arrived) = 1 .. Len(traced) \ under_way
    BY <2>1 DEF Numbering, ToSet
  <2> QED
    BY <2>1, <2>2 DEF TraceTypeOK, TraceWithin
<1> QED
  BY <1>1, <1>2, <1>3, PTL DEF TraceSpec

================================================================================
