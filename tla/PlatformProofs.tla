---------------------------- MODULE PlatformProofs -----------------------------
(***************************************************************************)
(* Theorems about the components MCPlatform runs: the manager of the order *)
(* book builders, persistence, the stores, the operational log, the        *)
(* programs that start everything, the stock feeds, order management and   *)
(* the market maker.  Each component has its specification, an inductive   *)
(* invariant, a lemma for every action, and the property the invariant     *)
(* implies.  A behaviour of MCPlatform is one of each of them, and of the  *)
(* feeds (FeedProofs) and of what sends and receives packets               *)
(* (PacketProofs).                                                         *)
(***************************************************************************)
EXTENDS MCPlatform, PacketProofs

(* The order book manager.                                                 *)

\* The manager on its own.
ManagerSpec == ManagerInit /\ [][ManagerNext]_bvars

\* Updates are numbered from 1.
Update == Nat \ {0}

\* The types of the variables.
ManagerShape ==
    /\ where \in [ManagerTasks -> {"idle", "create", "insert", "send"}]
    /\ tx \in [ManagerTasks -> Nat] /\ entry \in Nat
    /\ builders \in Seq([inbox : Seq(Nat), runs : BOOLEAN])
    /\ accepted \in Seq(Seq(Nat)) /\ Len(accepted) = Len(builders)
    /\ books \in Seq(Nat) /\ published \in Seq(Nat)
    /\ offered \in Nat
    /\ entry <= Len(builders)
    /\ \A t \in ManagerTasks :
         tx[t] \in IF where[t] \in {"insert", "send"} THEN 1 .. Len(builders) ELSE {0}

\* Task t has decided to make a builder.
Making(t) == where[t] \in {"create", "insert"}

\* As long as no two tasks were making a builder at the same time.
OneMade ==
    /\ Len(builders) <= 1
    /\ \A t, u \in ManagerTasks : Making(t) /\ Making(u) => t = u
    /\ \A t \in ManagerTasks : where[t] = "create" => Len(builders) = 0
    /\ \A t \in ManagerTasks : Making(t) => entry = 0
    /\ (Len(builders) = 1 /\ entry = 0) => \E t \in ManagerTasks : where[t] = "insert"

\* What was built and is still to build is what the channel took.
OneChain ==
    /\ Len(builders) = 0 => books = <<>> /\ published = <<>>
    /\ Len(builders) = 1 /\ builders[1].runs => published \o books \o builders[1].inbox = accepted[1]
    /\ Len(builders) = 1 /\ ~builders[1].runs =>
         /\ stopped /\ builders[1].inbox = <<>>
         /\ \E more \in Seq(Nat) : (published \o books) \o more = accepted[1]

\* What holds until two tasks have made a builder of the same symbol at once.
ManagerInv == ManagerShape /\ (~doubled => OneMade /\ OneChain)

\* A builder that was made is one of the list.
LEMMA MadeOf ==
    ASSUME ManagerInv, NEW b \in Made
    PROVE  /\ b \in 1 .. Len(builders) /\ Len(builders) \in Nat
           /\ builders[b] \in [inbox : Seq(Nat), runs : BOOLEAN] /\ builders \in Seq([inbox : Seq(Nat), runs : BOOLEAN])
<1>1. builders \in Seq([inbox : Seq(Nat), runs : BOOLEAN])
  BY DEF ManagerInv, ManagerShape
<1> DEFINE Builder == [inbox : Seq(Nat), runs : BOOLEAN]
<1> HIDE DEF Builder
<1>2. builders \in Seq(Builder) => DOMAIN builders = 1 .. Len(builders) /\ Len(builders) \in Nat
                                   /\ \A i \in 1 .. Len(builders) : builders[i] \in Builder
  OBVIOUS
<1> QED
  BY <1>1, <1>2 DEF Made, Builder

\* The invariant holds at the start.
LEMMA ManagerStarts == ManagerInit => ManagerInv
<1> SUFFICES ASSUME ManagerInit PROVE ManagerInv
  OBVIOUS
<1>1. Len(builders) = 0 /\ Len(accepted) = 0 /\ builders = <<>> /\ accepted = <<>>
  BY DEF ManagerInit
<1>2. ManagerShape
  BY <1>1 DEF ManagerInit, ManagerShape
<1>3. OneMade /\ OneChain
  BY <1>1 DEF ManagerInit, OneMade, OneChain, Making
<1> QED
  BY <1>2, <1>3 DEF ManagerInv

\* A task looks for the builder of its symbol.
LEMMA LookUpKeeps == ASSUME ManagerInv, NEW t \in ManagerTasks, LookUp(t) PROVE ManagerInv'
<1>1. ManagerShape'
  <2>1. CASE entry # 0
    <3>1. tx' = [tx EXCEPT ![t] = entry] /\ where' = [where EXCEPT ![t] = "send"] /\ entry \in 1 .. Len(builders)
          /\ Len(builders) \in Nat
      BY <2>1 DEF LookUp, ManagerInv, ManagerShape
    <3> QED
      BY <3>1 DEF ManagerInv, ManagerShape, LookUp
  <2>2. CASE entry = 0
    BY <2>2 DEF ManagerInv, ManagerShape, LookUp
  <2> QED
    BY <2>1, <2>2
<1>2. ASSUME ~doubled' PROVE OneMade'
  <2>1. ~doubled /\ OneMade
    BY <1>2 DEF LookUp, ManagerInv
  <2>2. CASE entry # 0
    BY <2>1, <2>2 DEF LookUp, OneMade, Making, ManagerInv, ManagerShape
  <2>3. CASE entry = 0
    <3>1. \A u \in ManagerTasks : where[u] \notin {"create", "insert"}
      BY <1>2, <2>3 DEF LookUp
    <3>2. Len(builders) = 0 /\ Len(builders') = 0
      BY <2>1, <2>3, <3>1 DEF OneMade, ManagerInv, ManagerShape, LookUp
    <3> QED
      BY <2>3, <3>1, <3>2 DEF LookUp, OneMade, Making, ManagerInv, ManagerShape
  <2> QED
    BY <2>2, <2>3
<1>3. ASSUME ~doubled' PROVE OneChain'
  <2>1. OneChain
    BY <1>3 DEF LookUp, ManagerInv
  <2>2. UNCHANGED <<builders, books, published, accepted, stopped>>
    BY DEF LookUp
  <2> QED
    BY <2>1, <2>2 DEF OneChain
<1> QED
  BY <1>1, <1>2, <1>3 DEF ManagerInv

\* It makes one.
LEMMA CreateBuilderKeeps == ASSUME ManagerInv, NEW t \in ManagerTasks, CreateBuilder(t) PROVE ManagerInv'
<1> DEFINE made == [inbox |-> <<>>, runs |-> TRUE]
           n == Len(builders)
<1>1. made \in [inbox : Seq(Nat), runs : BOOLEAN] /\ made.runs = TRUE /\ made.inbox = <<>>
  OBVIOUS
<1>2. n \in Nat /\ builders' = Append(builders, made)
      /\ builders' \in Seq([inbox : Seq(Nat), runs : BOOLEAN]) /\ Len(builders') = n + 1
      /\ builders'[n + 1] = made
  <2> HIDE DEF made
  <2>1. builders' = Append(builders, made) /\ builders \in Seq([inbox : Seq(Nat), runs : BOOLEAN])
    BY DEF CreateBuilder, ManagerInv, ManagerShape, made
  <2> QED
    BY <1>1, <2>1
<1>3. accepted' \in Seq(Seq(Nat)) /\ Len(accepted') = n + 1 /\ accepted'[n + 1] = <<>>
  <2>1. <<>> \in Seq(Nat) /\ accepted' = Append(accepted, <<>>) /\ accepted \in Seq(Seq(Nat)) /\ Len(accepted) = n
    BY DEF CreateBuilder, ManagerInv, ManagerShape
  <2> QED
    BY <2>1, <1>2
<1> HIDE DEF made
<1>4. ManagerShape'
  BY <1>2, <1>3 DEF ManagerInv, ManagerShape, CreateBuilder
<1>5. ASSUME ~doubled' PROVE OneMade' /\ OneChain'
  <2>1. OneMade /\ OneChain
    BY <1>5 DEF CreateBuilder, ManagerInv
  <2>2. n = 0 /\ books = <<>> /\ published = <<>> /\ entry = 0
    BY <2>1 DEF OneMade, OneChain, CreateBuilder, Making
  <2>3. OneMade'
    BY <1>2, <2>1, <2>2 DEF OneMade, Making, CreateBuilder, ManagerInv, ManagerShape
  <2>4. Len(builders') = 1 /\ builders'[1].runs = TRUE /\ builders'[1].inbox = <<>> /\ accepted'[1] = <<>>
    BY <1>1, <1>2, <1>3, <2>2
  <2>5. books' = <<>> /\ published' = <<>>
    BY <2>2 DEF CreateBuilder
  <2>6. (<<>> \o <<>>) \o <<>> = <<>>
    OBVIOUS
  <2>7. OneChain'
    BY <2>4, <2>5, <2>6 DEF OneChain
  <2> QED
    BY <2>3, <2>7
<1> QED
  BY <1>4, <1>5 DEF ManagerInv

\* And puts it into the map.
LEMMA InsertBuilderKeeps == ASSUME ManagerInv, NEW t \in ManagerTasks, InsertBuilder(t) PROVE ManagerInv'
<1>1. ManagerShape'
  BY DEF ManagerInv, ManagerShape, InsertBuilder
<1>2. ASSUME ~doubled' PROVE OneMade' /\ OneChain'
  <2>1. OneMade /\ OneChain
    BY <1>2 DEF InsertBuilder, ManagerInv
  <2>2. tx[t] \in 1 .. Len(builders)
    BY DEF InsertBuilder, ManagerInv, ManagerShape
  <2>3. OneMade'
    BY <2>1, <2>2 DEF OneMade, Making, InsertBuilder, ManagerInv, ManagerShape
  <2>4. UNCHANGED <<builders, books, published, accepted, stopped>>
    BY DEF InsertBuilder
  <2> QED
    BY <2>1, <2>3, <2>4 DEF OneChain
<1> QED
  BY <1>1, <1>2 DEF ManagerInv

\* The update goes into the inbox of the builder, if that still runs.
LEMMA SendToBuilderKeeps == ASSUME ManagerInv, NEW t \in ManagerTasks, SendToBuilder(t) PROVE ManagerInv'
<1> DEFINE b == tx[t]
           x == offered + 1
           Builder == [inbox : Seq(Nat), runs : BOOLEAN]
<1>1. b \in 1 .. Len(builders) /\ Len(builders) \in Nat /\ x \in Nat /\ builders[b] \in Builder /\ accepted[b] \in Seq(Nat)
      /\ Len(accepted) = Len(builders) /\ builders \in Seq(Builder) /\ accepted \in Seq(Seq(Nat))
      /\ builders[b].inbox \in Seq(Nat) /\ builders[b].runs \in BOOLEAN
  <2>1. b \in 1 .. Len(builders) /\ x \in Nat
    <3>1. where[t] = "send"
      BY DEF SendToBuilder
    <3>2. offered \in Nat /\ tx[t] \in IF where[t] \in {"insert", "send"} THEN 1 .. Len(builders) ELSE {0}
      BY DEF ManagerInv, ManagerShape
    <3> QED
      BY <3>1, <3>2
  <2>2. Len(accepted) = Len(builders) /\ builders \in Seq(Builder) /\ accepted \in Seq(Seq(Nat))
    BY DEF ManagerInv, ManagerShape
  <2> HIDE DEF b, x, Builder
  <2>3. builders[b] \in Builder /\ Len(builders) \in Nat
    BY <2>1, <2>2, ElementOfSeq, LenProperties
  <2>4. accepted[b] \in Seq(Nat)
    BY <2>1, <2>2, ElementOfSeq
  <2>5. builders[b].inbox \in Seq(Nat) /\ builders[b].runs \in BOOLEAN
    BY <2>3 DEF Builder
  <2> QED
    BY <2>1, <2>2, <2>3, <2>4, <2>5
<1>2. builders' \in Seq(Builder) /\ Len(builders') = Len(builders) /\ accepted' \in Seq(Seq(Nat))
      /\ Len(accepted') = Len(accepted)
  <2>1. CASE builders[b].runs
    <3> DEFINE c == [builders[b] EXCEPT !.inbox = Append(@, x)]
    <3>1. builders' = [builders EXCEPT ![b] = c] /\ accepted' = [accepted EXCEPT ![b] = Append(accepted[b], x)]
      BY <1>1, <2>1 DEF SendToBuilder
    <3>2. c \in Builder /\ Append(accepted[b], x) \in Seq(Nat)
      <4> DEFINE q == Append(builders[b].inbox, x)
      <4>1. q \in Seq(Nat) /\ Append(accepted[b], x) \in Seq(Nat)
        BY <1>1, AppendProperties
      <4>2. c = [builders[b] EXCEPT !.inbox = q]
        OBVIOUS
      <4> HIDE DEF q, b, x
      <4> QED
        BY <1>1, <4>1, <4>2
    <3> HIDE DEF c, b, x
    <3> QED
      BY <1>1, <3>1, <3>2, ExceptSeq
  <2>2. CASE ~builders[b].runs
    BY <1>1, <2>2 DEF SendToBuilder
  <2> QED
    BY <2>1, <2>2
<1>3. ManagerShape'
  <2>1. where' = [where EXCEPT ![t] = "idle"] /\ tx' = [tx EXCEPT ![t] = 0] /\ offered' = offered + 1
        /\ UNCHANGED <<entry, books, published>>
    BY DEF SendToBuilder
  <2>2. where' \in [ManagerTasks -> {"idle", "create", "insert", "send"}] /\ tx' \in [ManagerTasks -> Nat]
    BY <2>1 DEF ManagerInv, ManagerShape
  <2>3. \A u \in ManagerTasks :
           tx'[u] \in IF where'[u] \in {"insert", "send"} THEN 1 .. Len(builders') ELSE {0}
    <3> HIDE DEF b, x
    <3> SUFFICES ASSUME NEW u \in ManagerTasks
                 PROVE  tx'[u] \in IF where'[u] \in {"insert", "send"} THEN 1 .. Len(builders) ELSE {0}
      BY <1>2
    <3>1. CASE u = t
      BY <2>1, <3>1 DEF ManagerInv, ManagerShape
    <3>2. CASE u # t
      BY <2>1, <3>2 DEF ManagerInv, ManagerShape
    <3> QED
      BY <3>1, <3>2
  <2>4. offered' \in Nat /\ entry' \in Nat /\ books' \in Seq(Nat) /\ published' \in Seq(Nat)
        /\ entry' <= Len(builders')
    BY <2>1, <1>2 DEF ManagerInv, ManagerShape
  <2>5. Len(accepted') = Len(builders')
    BY <1>1, <1>2
  <2> QED
    BY <1>2, <2>2, <2>3, <2>4, <2>5 DEF ManagerShape
<1>4. ASSUME ~doubled' PROVE OneMade' /\ OneChain'
  <2>1. OneMade /\ OneChain
    BY <1>4 DEF SendToBuilder, ManagerInv
  <2>2. OneMade'
    BY <2>1, <1>2 DEF OneMade, Making, SendToBuilder, ManagerInv, ManagerShape
  <2>3. b = 1 /\ Len(builders) = 1 /\ Len(builders') = 1
    BY <2>1, <1>1, <1>2 DEF OneMade
  <2>4. UNCHANGED <<books, published, stopped>>
    BY DEF SendToBuilder
  <2>5. CASE builders[1].runs
    <3>1. published \o books \o builders[1].inbox = accepted[1]
      BY <2>1, <2>3, <2>5 DEF OneChain
    <3>2. builders'[1].runs = TRUE /\ builders'[1].inbox = Append(builders[1].inbox, x) /\ accepted'[1] = Append(accepted[1], x)
      <4> DEFINE q == Append(builders[1].inbox, x)
                 c == [builders[1] EXCEPT !.inbox = q]
                 a == Append(accepted[1], x)
      <4>1. builders' = [builders EXCEPT ![1] = c] /\ accepted' = [accepted EXCEPT ![1] = a]
        BY <2>3, <2>5 DEF SendToBuilder
      <4>2. c.runs = builders[1].runs /\ c.inbox = q
        <5> HIDE DEF q
        <5> QED
          BY <1>1, <2>3
      <4> HIDE DEF c, q, a, b, x
      <4>3. builders'[1] = c /\ accepted'[1] = a
        BY <1>1, <2>3, <4>1
      <4> QED
        BY <2>5, <4>2, <4>3, <1>1, <2>3 DEF q, a
    <3>3. published \o books \in Seq(Nat) /\ builders[1].inbox \in Seq(Nat)
      BY <2>3, <1>1, ConcatProperties DEF ManagerInv, ManagerShape
    <3>4. published \o books \o Append(builders[1].inbox, x) = Append(accepted[1], x)
      <4> DEFINE s == published \o books
      <4>1. s \in Seq(Nat) /\ s \o builders[1].inbox = accepted[1]
        BY <3>1, <3>3
      <4> HIDE DEF s, x
      <4>2. s \o Append(builders[1].inbox, x) = Append(accepted[1], x)
        <5> DEFINE queue == builders[1].inbox
        <5>1. queue \in Seq(Nat) /\ x \in Nat /\ s \o queue = accepted[1]
          BY <4>1, <3>3, <1>1
        <5> HIDE DEF queue
        <5>2. s \o Append(queue, x) = Append(s \o queue, x)
          <6>1. s \in Seq(Nat) /\ queue \in Seq(Nat) /\ x \in Nat
            BY <4>1, <5>1
          <6> QED
            BY <6>1, AppendToConcat
        <5> QED
          BY <5>1, <5>2 DEF queue
      <4> QED
        BY <4>2 DEF s
    <3> HIDE DEF x, b
    <3>5. Len(builders') # 0 /\ builders'[1].runs /\ published' \o books' \o builders'[1].inbox = accepted'[1]
      BY <2>3, <2>4, <3>2, <3>4
    <3>6. OneChain'
      BY <3>5 DEF OneChain
    <3> QED
      BY <2>2, <3>6
  <2>6. CASE ~builders[1].runs
    <3>1. builders' = builders /\ accepted' = accepted
      BY <2>3, <2>6 DEF SendToBuilder
    <3>2. OneChain'
      BY <2>1, <2>4, <3>1 DEF OneChain
    <3> QED
      BY <2>2, <3>2
  <2> QED
    BY <2>5, <2>6
<1> QED
  BY <1>3, <1>4 DEF ManagerInv

\* A builder takes an update from its inbox and publishes a book.
LEMMA BuildBookKeeps == ASSUME ManagerInv, NEW b \in Made, BuildBook(b) PROVE ManagerInv'
<1> DEFINE Builder == [inbox : Seq(Nat), runs : BOOLEAN]
           q == builders[b].inbox
           c == [builders[b] EXCEPT !.inbox = Tail(@)]
<1>1. b \in 1 .. Len(builders) /\ Len(builders) \in Nat /\ builders[b] \in Builder /\ builders \in Seq(Builder)
      /\ q \in Seq(Nat) /\ q # <<>> /\ Head(q) \in Nat /\ Tail(q) \in Seq(Nat)
      /\ books \in Seq(Nat) /\ published \in Seq(Nat)
  <2>1. b \in 1 .. Len(builders) /\ Len(builders) \in Nat /\ builders[b] \in Builder /\ builders \in Seq(Builder)
    BY MadeOf
  <2>2. q \in Seq(Nat) /\ q # <<>>
    BY <2>1 DEF BuildBook
  <2> HIDE DEF q
  <2> QED
    BY <2>1, <2>2, HeadTailProperties DEF ManagerInv, ManagerShape
<1>2. builders' = [builders EXCEPT ![b] = c] /\ books' = Append(books, Head(q)) /\ c.inbox = Tail(q) /\ c.runs = builders[b].runs
      /\ c \in Builder
  BY <1>1 DEF BuildBook
<1>3. builders' \in Seq(Builder) /\ Len(builders') = Len(builders) /\ books' \in Seq(Nat)
  <2> HIDE DEF c, q
  <2> QED
    BY <1>1, <1>2, ExceptSeq, AppendProperties
<1>4. ManagerShape'
  BY <1>1, <1>3 DEF ManagerInv, ManagerShape, BuildBook
<1>5. ASSUME ~doubled' PROVE OneMade' /\ OneChain'
  <2>1. OneMade /\ OneChain
    BY <1>5 DEF BuildBook, ManagerInv
  <2>2. OneMade'
    BY <2>1, <1>3 DEF OneMade, Making, BuildBook, ManagerInv, ManagerShape
  <2>3. b = 1 /\ Len(builders) = 1 /\ Len(builders') = 1
    BY <2>1, <1>1, <1>3 DEF OneMade
  <2>4. published \o books \o q = accepted[1] /\ builders[1].runs
    BY <2>1, <2>3 DEF BuildBook, OneChain
  <2>5. builders'[1].runs /\ builders'[1].inbox = Tail(q) /\ UNCHANGED <<published, accepted>>
    BY <1>1, <1>2, <2>3, <2>4 DEF BuildBook
  <2>6. published \o books' \o Tail(q) = accepted[1]
    <3> HIDE DEF q, c
    <3>1. published \o books \in Seq(Nat) /\ published \o books' = Append(published \o books, Head(q))
      <4> DEFINE h == Head(q)
      <4>1. published \o Append(books, h) = Append(published \o books, h)
        <5>1. h \in Nat /\ published \in Seq(Nat) /\ books \in Seq(Nat)
          BY <1>1
        <5> HIDE DEF h
        <5> QED
          BY <5>1, AppendToConcat
      <4> QED
        BY <1>1, <1>2, <4>1, ConcatProperties
    <3> DEFINE s == published \o books
    <3>2. s \in Seq(Nat) /\ published \o books' = Append(s, Head(q)) /\ s \o q = accepted[1]
      BY <3>1, <2>4
    <3> HIDE DEF s
    <3>3. Append(s, Head(q)) \o Tail(q) = s \o q
      BY <3>2, <1>1, QueueMoves
    <3> QED
      BY <3>2, <3>3
  <2>7. OneChain'
    <3> HIDE DEF q, c
    <3>1. published' \o books' \o builders'[1].inbox = accepted'[1]
      BY <2>5, <2>6, Zenon
    <3>2. Len(builders') # 0 /\ builders'[1].runs
      BY <2>3, <2>5
    <3> QED
      BY <3>1, <3>2 DEF OneChain
  <2> QED
    BY <2>2, <2>7
<1> QED
  BY <1>4, <1>5 DEF ManagerInv

\* A builder ends.
LEMMA EndBuilderKeeps == ASSUME ManagerInv, NEW b \in Made, EndBuilder(b) PROVE ManagerInv'
<1> DEFINE Builder == [inbox : Seq(Nat), runs : BOOLEAN]
           c == [builders[b] EXCEPT !.runs = FALSE]
<1>1. b \in 1 .. Len(builders) /\ Len(builders) \in Nat /\ builders[b] \in Builder /\ builders \in Seq(Builder)
  BY MadeOf
<1>2. builders' = [builders EXCEPT ![b] = c] /\ c \in Builder
  BY <1>1 DEF EndBuilder
<1>3. builders' \in Seq(Builder) /\ Len(builders') = Len(builders)
  <2> HIDE DEF c
  <2> QED
    BY <1>1, <1>2, ExceptSeq
<1>4. ManagerShape'
  BY <1>1, <1>3 DEF ManagerInv, ManagerShape, EndBuilder
<1>5. doubled
  <2> SUFFICES ASSUME ~doubled PROVE FALSE
    OBVIOUS
  <2>1. OneMade
    BY DEF ManagerInv
  <2>2. b = 1 /\ Len(builders) = 1 /\ entry # 1 /\ entry <= 1 /\ entry \in Nat
    BY <2>1, <1>1 DEF OneMade, EndBuilder, ManagerInv, ManagerShape
  <2>3. entry = 0
    BY <2>2
  <2>4. PICK t \in ManagerTasks : where[t] = "insert"
    BY <2>1, <2>2, <2>3 DEF OneMade
  <2>5. tx[t] \in 1 .. 1
    BY <2>2, <2>4 DEF ManagerInv, ManagerShape
  <2> QED
    BY <2>2, <2>5 DEF EndBuilder
<1> QED
  BY <1>4, <1>5 DEF ManagerInv, EndBuilder

\* A book is taken from the channel.
LEMMA ConsumeBookKeeps == ASSUME ManagerInv, ConsumeBook PROVE ManagerInv'
<1>1. books \in Seq(Nat) /\ published \in Seq(Nat) /\ books # <<>> /\ Head(books) \in Nat /\ Tail(books) \in Seq(Nat)
      /\ published' = Append(published, Head(books)) /\ books' = Tail(books)
  BY HeadTailProperties DEF ConsumeBook, ManagerInv, ManagerShape
<1>2. published' \o books' = published \o books /\ published' \in Seq(Nat)
  BY <1>1, QueueMoves, AppendProperties
<1>3. ManagerShape'
  BY <1>1, <1>2 DEF ManagerInv, ManagerShape, ConsumeBook
<1>4. ASSUME ~doubled' PROVE OneMade' /\ OneChain'
  <2>1. OneMade /\ OneChain
    BY <1>4 DEF ConsumeBook, ManagerInv
  <2>2. Len(builders) # 0
    BY <2>1, <1>1 DEF OneChain
  <2>3. UNCHANGED <<where, tx, entry, builders, accepted, stopped>>
    BY DEF ConsumeBook
  <2> QED
    BY <1>2, <2>1, <2>2, <2>3 DEF OneChain, OneMade, Making
<1> QED
  BY <1>3, <1>4 DEF ManagerInv

\* The inboxes are closed.
LEMMA shutdownKeeps == ASSUME ManagerInv, shutdown PROVE ManagerInv'
<1> DEFINE Builder == [inbox : Seq(Nat), runs : BOOLEAN]
           c == [inbox |-> <<>>, runs |-> FALSE]
<1>1. c \in Builder /\ c.inbox = <<>> /\ c.runs = FALSE
  OBVIOUS
<1>2. builders \in Seq(Builder) /\ Len(builders) \in Nat /\ entry \in 0 .. Len(builders)
      /\ builders' = IF entry = 0 THEN builders ELSE [builders EXCEPT ![entry] = c]
  BY DEF ManagerInv, ManagerShape, shutdown
<1> HIDE DEF c
<1>3. builders' \in Seq(Builder) /\ Len(builders') = Len(builders)
  <2>1. CASE entry = 0
    BY <1>2, <2>1
  <2>2. CASE entry # 0
    <3>1. entry \in 1 .. Len(builders) /\ builders' = [builders EXCEPT ![entry] = c]
      BY <1>2, <2>2
    <3> HIDE DEF Builder
    <3> QED
      BY <1>1, <1>2, <3>1, ExceptSeq
  <2> QED
    BY <2>1, <2>2
<1>4. ManagerShape'
  BY <1>3 DEF ManagerInv, ManagerShape, shutdown
<1>5. ASSUME ~doubled' PROVE OneMade' /\ OneChain'
  <2>1. OneMade /\ OneChain
    BY <1>5 DEF shutdown, ManagerInv
  <2>2. UNCHANGED <<where, tx, entry, books, published, accepted>> /\ stopped'
    BY DEF shutdown
  <2>3. OneMade'
    BY <2>1, <2>2, <1>3 DEF OneMade, Making
  <2>4. CASE entry = 0
    BY <1>2, <2>1, <2>2, <2>3, <2>4 DEF OneChain
  <2>5. CASE entry # 0
    <3>1. entry = 1 /\ Len(builders) = 1 /\ Len(builders') = 1
      BY <2>1, <2>5, <1>2, <1>3 DEF OneMade
    <3>2. builders'[1] = c
      BY <1>2, <3>1, <2>5
    <3>3. published \o books \in Seq(Nat)
      BY ConcatProperties DEF ManagerInv, ManagerShape
    <3>4. \E more \in Seq(Nat) : (published \o books) \o more = accepted[1]
      <4>1. CASE builders[1].runs
        <5>1. builders[1].inbox \in Seq(Nat)
          <6>1. builders[1] \in Builder
            <7> HIDE DEF Builder
            <7> QED
              BY <1>2, <3>1, ElementOfSeq
          <6> QED
            BY <6>1
        <5> QED
          BY <5>1, <4>1, <3>1, <2>1 DEF OneChain
      <4>2. CASE ~builders[1].runs
        BY <4>2, <3>1, <2>1 DEF OneChain
      <4> QED
        BY <4>1, <4>2
    <3>5. builders'[1].runs = FALSE /\ builders'[1].inbox = <<>>
      BY <1>1, <3>2
    <3>6. \E more \in Seq(Nat) : (published' \o books') \o more = accepted'[1]
      BY <2>2, <3>4
    <3>7. OneChain'
      BY <3>1, <3>5, <3>6, <2>2 DEF OneChain
    <3> QED
      BY <2>3, <3>7
  <2> QED
    BY <2>4, <2>5
<1> QED
  BY <1>4, <1>5 DEF ManagerInv

\* Every step of the manager keeps the invariant.
LEMMA ManagerSteps == ManagerInv /\ [ManagerNext]_bvars => ManagerInv'
<1> SUFFICES ASSUME ManagerInv, [ManagerNext]_bvars PROVE ManagerInv'
  OBVIOUS
<1>1. CASE start_consumer
  BY <1>1 DEF start_consumer, ManagerInv, ManagerShape, OneMade, OneChain, Making
<1>2. CASE UNCHANGED bvars
  BY <1>2 DEF bvars, ManagerInv, ManagerShape, OneMade, OneChain, Making
<1> QED
  BY <1>1, <1>2, LookUpKeeps, CreateBuilderKeeps, InsertBuilderKeeps, SendToBuilderKeeps, BuildBookKeeps,
     EndBuilderKeeps, ConsumeBookKeeps, shutdownKeeps DEF ManagerNext

\* OneBuilder as the invariant has it.
LEMMA ManagerInvImplies == ManagerInv => OneBuilder
<1> SUFFICES ASSUME ManagerInv, ~doubled PROVE
      /\ Len(builders) <= 1
      /\ \A b \in Made : IsPrefix(published \o books \o builders[b].inbox, accepted[b])
      /\ (Len(builders) = 1 /\ ~stopped) => published \o books \o builders[1].inbox = accepted[1]
  BY DEF OneBuilder
<1>1. OneMade /\ OneChain
  BY DEF ManagerInv
<1>2. ASSUME NEW b \in Made PROVE IsPrefix(published \o books \o builders[b].inbox, accepted[b])
  <2>1. b = 1 /\ Len(builders) = 1 /\ builders[1].inbox \in Seq(Nat) /\ builders[1].runs \in BOOLEAN
    <3>1. b \in 1 .. Len(builders) /\ Len(builders) \in Nat /\ builders[b] \in [inbox : Seq(Nat), runs : BOOLEAN]
      BY MadeOf
    <3>2. b = 1 /\ Len(builders) = 1
      <4>1. Len(builders) <= 1
        BY <1>1 DEF OneMade
      <4> DEFINE n == Len(builders)
      <4>2. b \in 1 .. n /\ n \in Nat /\ n <= 1
        BY <3>1, <4>1
      <4> HIDE DEF n
      <4>3. b = 1 /\ n = 1
        BY <4>2
      <4> QED
        BY <4>3 DEF n
    <3>3. builders[1] \in [inbox : Seq(Nat), runs : BOOLEAN]
      BY <3>1, <3>2
    <3> QED
      BY <3>2, <3>3
  <2> DEFINE s == published \o books
  <2>2. s \in Seq(Nat) /\ s \o builders[1].inbox \in Seq(Nat)
    BY <2>1, ConcatProperties DEF ManagerInv, ManagerShape
  <2>3. CASE builders[1].runs
    <3>1. s \o builders[1].inbox = accepted[1]
      BY <1>1, <2>1, <2>3 DEF OneChain
    <3>2. <<>> \in Seq(Nat)
      OBVIOUS
    <3>3. IsPrefix(s \o builders[1].inbox, (s \o builders[1].inbox) \o <<>>)
      BY <2>2, <3>2, PartIsPrefix
    <3> QED
      BY <2>1, <2>2, <3>1, <3>3, ConcatEmptySeq
  <2>4. CASE ~builders[1].runs
    <3>1. builders[1].inbox = <<>> /\ \E more \in Seq(Nat) : s \o more = accepted[1]
      BY <1>1, <2>1, <2>4 DEF OneChain
    <3>2. s \o builders[1].inbox = s
      BY <2>2, <3>1, ConcatEmptySeq
    <3> QED
      BY <2>1, <2>2, <3>1, <3>2, PartIsPrefix
  <2> QED
    BY <2>3, <2>4
<1> QED
  BY <1>1, <1>2 DEF OneMade, OneChain

\* For any number of tasks, updates and capacities: unless two tasks found the map empty at
\* the same time, one builder gets every update of the symbol, and publishes in that order.
THEOREM OneBuilderHolds == ManagerSpec => []OneBuilder
<1> QED
  BY ManagerStarts, ManagerSteps, ManagerInvImplies, PTL DEF ManagerSpec

--------------------------------------------------------------------------------
(* Persistence: snapshots, the buffer and what is kept of them.            *)

\* Persistence on its own.
PersistSpec == PersistInit /\ [][PersistNext]_pvars

\* The types of the files.
SnapshotFile == [book : Nat, suffix : {"tmp", "json"}, whole : BOOLEAN, time : Nat]
BufferFile == [first : Nat, last : Nat, whole : BOOLEAN]

\* The types of the variables.
PersistShape ==
    /\ sequence \in Nat /\ since \in Nat /\ clock \in Nat /\ kept \in Nat
    /\ files \subseteq SnapshotFile
    /\ \A f \in files : f.time <= clock
    /\ \A f, g \in files : f.time = g.time => f = g
    /\ pending \in BufferFile /\ buffer_file \in BufferFile
    /\ recovered \in [book : Nat, first : Nat, last : Nat]

\* The snapshot that was kept is there, and what is newer and whole is no older a book.
KeptIsThere ==
    kept > 0 => \E f \in files :
      /\ f.whole /\ f.suffix = "json" /\ f.book = kept
      /\ \A g \in files : g.whole /\ g.time > f.time => g.book >= kept

\* What the steps of checkpoint rely on.
StepsInOrder ==
    /\ sequence >= kept
    /\ step = "rename" => \A f \in files : f.book = sequence /\ f.suffix = "tmp" => f.whole /\ f.time = clock
    /\ step = "cleanup" => /\ kept = sequence
                           /\ \E f \in files : /\ f.whole /\ f.suffix = "json" /\ f.book = kept
                                               /\ \A g \in files : g.time <= f.time

\* With a snapshot at each checkpoint, the buffer begins no later than behind it.
BufferFollows ==
    /\ buffer_file.first <= kept + 1
    /\ step \in {"write", "rename", "cleanup", "buffer"} => pending.first <= sequence + 1
    /\ step = "buffer" => kept = sequence
    /\ recovered.first <= recovered.book + 1

\* Snapshots are kept (KeptIsThere), the steps of a checkpoint find what they rely on, and
\* with a snapshot at every checkpoint no update is missing between snapshot and buffer.
PersistInv ==
    PersistShape /\ KeptIsThere /\ StepsInOrder /\ (SnapshotInterval = 1 => BufferFollows)

\* The invariant holds at the start.
LEMMA PersistStarts == PersistInit => PersistInv
<1> SUFFICES ASSUME PersistInit PROVE PersistInv
  OBVIOUS
<1>1. NoBuffer \in BufferFile /\ NoBuffer.first = 0 /\ Nobody \in [book : Nat, first : Nat, last : Nat]
      /\ Nobody.first = 0 /\ Nobody.book = 0
  BY DEF NoBuffer, Nobody, BufferFile
<1> QED
  BY <1>1 DEF PersistInit, PersistInv, PersistShape, KeptIsThere, StepsInOrder, BufferFollows

\* What recovery finds is the newest file that is whole.
LEMMA LatestIsNewest ==
    ASSUME PersistInv
    PROVE  /\ load_latest_state \in Nat /\ load_latest_state >= kept
           /\ \A f \in files : f.whole => \E g \in files : g.whole /\ g.time >= f.time /\ g.book = load_latest_state
<1> DEFINE readable == {f \in files : f.whole}
           r == CHOOSE f \in readable : \A g \in readable : g.time <= f.time
<1>1. load_latest_state = IF readable = {} THEN 0 ELSE r.book
  BY DEF load_latest_state
<1>2. CASE readable = {}
  <2>1. kept = 0
    BY <1>2 DEF PersistInv, PersistShape, KeptIsThere
  <2> QED
    BY <1>1, <1>2, <2>1
<1>3. CASE readable # {}
  <2>1. r \in readable /\ \A g \in readable : g.time <= r.time
    <3> DEFINE Ages == {clock - f.time : f \in readable}
    <3>1. \A f \in readable : f.time \in Nat /\ clock - f.time \in Nat /\ clock \in Nat
      BY DEF PersistInv, PersistShape, SnapshotFile
    <3>2. Ages \subseteq Nat /\ Ages # {}
      BY <1>3, <3>1
    <3>3. PICK n \in Ages : \A m \in Ages : n <= m
      <4> HIDE DEF Ages
      <4> QED
        BY <3>2, LeastCounterexample
    <3>4. PICK f \in readable : n = clock - f.time
      BY <3>3
    <3>5. \A g \in readable : clock - f.time <= clock - g.time
      BY <3>3, <3>4
    <3>6. \A g \in readable : g.time <= f.time
      BY <3>1, <3>5
    <3> HIDE DEF readable
    <3> QED
      BY <3>6
  <2> HIDE DEF r
  <2>2. r \in files /\ r.whole /\ r.book \in Nat /\ r.time \in Nat /\ load_latest_state = r.book
    BY <1>1, <1>3, <2>1 DEF PersistInv, PersistShape, SnapshotFile
  <2>3. r.book >= kept
    <3>1. CASE kept = 0
      BY <2>2, <3>1
    <3>2. CASE kept # 0
      <4>1. PICK f \in files : /\ f.whole /\ f.suffix = "json" /\ f.book = kept
                               /\ \A g \in files : g.whole /\ g.time > f.time => g.book >= kept
        BY <3>2 DEF PersistInv, PersistShape, KeptIsThere
      <4>2. f.time <= r.time /\ f.time \in Nat /\ kept \in Nat
        BY <2>1, <4>1 DEF PersistInv, PersistShape, SnapshotFile
      <4>3. f.time = r.time => f = r
        BY <2>2 DEF PersistInv, PersistShape
      <4> QED
        BY <2>2, <4>1, <4>2, <4>3
    <3> QED
      BY <3>1, <3>2
  <2>4. \A f \in files : f.whole => f.time <= r.time /\ f.time \in Nat
    BY <2>1 DEF PersistInv, PersistShape, SnapshotFile
  <2> QED
    BY <2>2, <2>3, <2>4
<1> QED
  BY <1>2, <1>3

\* A checkpoint begins.
LEMMA checkpointKeeps ==
    ASSUME PersistInv, NEW n \in 0 .. 1, NEW updates \in 0 .. 1, checkpoint(n, updates) PROVE PersistInv'
<1> DEFINE p == IF updates = 0 THEN NoBuffer ELSE [first |-> sequence' + 1, last |-> sequence' + updates, whole |-> TRUE]
<1>1. sequence' \in Nat /\ sequence' = sequence + n /\ since' \in Nat /\ since' >= 1 /\ sequence \in Nat
      /\ step' = (IF since' < SnapshotInterval THEN "buffer" ELSE "write")
      /\ pending' = p /\ UNCHANGED <<files, buffer_file, clock, kept, recovered>>
  BY DEF checkpoint, PersistInv, PersistShape
<1>2. p \in BufferFile /\ p.first <= sequence' + 1
  BY <1>1 DEF NoBuffer, BufferFile
<1> HIDE DEF p
<1>3. PersistShape'
  BY <1>1, <1>2 DEF PersistInv, PersistShape
<1>4. KeptIsThere'
  BY <1>1 DEF PersistInv, KeptIsThere
<1>5. StepsInOrder'
  <2>1. sequence' >= kept'
    BY <1>1 DEF PersistInv, PersistShape, StepsInOrder
  <2>2. step' \notin {"rename", "cleanup"}
    BY <1>1
  <2> QED
    BY <2>1, <2>2 DEF StepsInOrder
<1>6. ASSUME SnapshotInterval = 1 PROVE BufferFollows'
  <2>1. step' = "write"
    BY <1>1, <1>6
  <2>2. BufferFollows
    BY <1>6 DEF PersistInv
  <2>3. pending'.first <= sequence' + 1
    BY <1>1, <1>2
  <2> QED
    BY <1>1, <2>1, <2>2, <2>3 DEF BufferFollows
<1> QED
  BY <1>3, <1>4, <1>5, <1>6 DEF PersistInv

\* The snapshot is written to a temporary file, which a crash can leave in part.
LEMMA WriteTemporaryKeeps ==
    ASSUME PersistInv, NEW whole \in BOOLEAN, WriteTemporary(whole) PROVE PersistInv'
<1> DEFINE t == [book |-> sequence, suffix |-> "tmp", whole |-> whole, time |-> clock']
           others == {f \in files : f.book # sequence \/ f.suffix # "tmp"}
<1>1. clock' = clock + 1 /\ files' = others \cup {t} /\ step' = (IF whole THEN "rename" ELSE "torn")
      /\ UNCHANGED <<sequence, since, pending, buffer_file, kept, recovered>>
  BY DEF WriteTemporary, Steady
<1>2. clock \in Nat /\ clock' \in Nat /\ sequence \in Nat /\ kept \in Nat /\ sequence >= kept
  BY <1>1 DEF PersistInv, PersistShape, StepsInOrder
<1>3. t \in SnapshotFile /\ t.time = clock + 1 /\ t.book = sequence /\ t.suffix = "tmp" /\ t.whole = whole
  BY <1>1, <1>2 DEF SnapshotFile
<1>4. others \subseteq files /\ \A f \in others : f \in SnapshotFile /\ f.time \in Nat /\ f.time <= clock
  BY DEF PersistInv, PersistShape, SnapshotFile
<1>5. \A f \in others : f.book # sequence \/ f.suffix # "tmp"
  OBVIOUS
<1> HIDE DEF t
<1>6. PersistShape'
  <2>1. files' \subseteq SnapshotFile
    BY <1>1, <1>3, <1>4
  <2>2. \A f \in files' : f.time <= clock'
    BY <1>1, <1>2, <1>3, <1>4
  <2>3. \A f, g \in files' : f.time = g.time => f = g
    <3>1. \A f, g \in others : f.time = g.time => f = g
      BY <1>4 DEF PersistInv, PersistShape
    <3>2. \A f \in others : f.time # t.time
      BY <1>2, <1>3, <1>4
    <3> HIDE DEF others
    <3> QED
      BY <1>1, <3>1, <3>2
  <2> QED
    BY <1>1, <1>2, <2>1, <2>2, <2>3 DEF PersistInv, PersistShape
<1>7. KeptIsThere'
  <2> SUFFICES ASSUME kept > 0
               PROVE  \E f \in files' : /\ f.whole /\ f.suffix = "json" /\ f.book = kept
                                        /\ \A g \in files' : g.whole /\ g.time > f.time => g.book >= kept
    BY <1>1 DEF KeptIsThere
  <2>1. PICK f \in files : /\ f.whole /\ f.suffix = "json" /\ f.book = kept
                           /\ \A g \in files : g.whole /\ g.time > f.time => g.book >= kept
    BY DEF PersistInv, KeptIsThere
  <2>2. f \in others
    BY <2>1
  <2>3. \A g \in files' : g.whole /\ g.time > f.time => g.book >= kept
    BY <1>1, <1>2, <1>3, <1>4, <2>1
  <2> QED
    BY <1>1, <2>1, <2>2, <2>3
<1>8. StepsInOrder'
  <2>1. \A f \in files' : f.book = sequence' /\ f.suffix = "tmp" => f = t
    BY <1>1, <1>5
  <2>2. step' = "rename" => whole
    BY <1>1
  <2>3. step' # "cleanup" /\ t.time = clock'
    BY <1>1, <1>3
  <2> QED
    BY <1>1, <1>2, <1>3, <2>1, <2>2, <2>3 DEF StepsInOrder
<1>9. ASSUME SnapshotInterval = 1 PROVE BufferFollows'
  <2>1. step = "write" /\ BufferFollows /\ step' # "buffer"
    BY <1>1, <1>9 DEF PersistInv, WriteTemporary
  <2> QED
    BY <1>1, <2>1 DEF BufferFollows
<1> QED
  BY <1>6, <1>7, <1>8, <1>9 DEF PersistInv

\* The temporary file becomes the snapshot.
LEMMA RenameTemporaryKeeps == ASSUME PersistInv, RenameTemporary PROVE PersistInv'
<1>1. PICK t \in files : t.book = sequence /\ t.suffix = "tmp"
                         /\ files' = {f \in files : f.book # sequence} \cup {[t EXCEPT !.suffix = "json"]}
  BY DEF RenameTemporary
<1> DEFINE j == [t EXCEPT !.suffix = "json"]
           others == {f \in files : f.book # sequence}
<1>2. since' = 0 /\ kept' = sequence /\ step' = "cleanup" /\ step = "rename"
      /\ UNCHANGED <<sequence, pending, buffer_file, clock, recovered>>
  BY DEF RenameTemporary, Steady
<1>3. t \in SnapshotFile /\ t.whole /\ t.time = clock
  BY <1>1, <1>2 DEF PersistInv, PersistShape, StepsInOrder
<1>4. j \in SnapshotFile /\ j.whole /\ j.time = clock /\ j.book = sequence /\ j.suffix = "json"
  BY <1>1, <1>3 DEF SnapshotFile
<1>5. others \subseteq files /\ \A f \in others : f \in SnapshotFile /\ f.time \in Nat /\ f.time <= clock /\ f.time # clock
  <2>1. \A f \in others : f # t
    BY <1>1
  <2> QED
    BY <1>3, <2>1 DEF PersistInv, PersistShape, SnapshotFile
<1>6. clock \in Nat /\ sequence \in Nat /\ kept \in Nat /\ kept <= sequence
  BY DEF PersistInv, PersistShape, StepsInOrder
<1>7. files' = others \cup {j}
  BY <1>1
<1> HIDE DEF j, others
<1>8. PersistShape'
  <2>1. files' \subseteq SnapshotFile
    BY <1>4, <1>5, <1>7 DEF PersistInv, PersistShape
  <2>2. \A f \in files' : f.time <= clock'
    BY <1>2, <1>4, <1>5, <1>6, <1>7
  <2>3. \A f, g \in files' : f.time = g.time => f = g
    <3>1. \A f, g \in others : f.time = g.time => f = g
      BY <1>5 DEF PersistInv, PersistShape
    <3> QED
      BY <1>4, <1>5, <1>7, <3>1
  <2> QED
    BY <1>2, <1>6, <2>1, <2>2, <2>3 DEF PersistInv, PersistShape
<1>9. j \in files' /\ \A g \in files' : g.time <= j.time /\ g.time \in Nat
  BY <1>4, <1>5, <1>6, <1>7
<1>10. KeptIsThere' /\ StepsInOrder'
  <2>1. \A g \in files' : ~(g.time > j.time)
    BY <1>4, <1>6, <1>9
  <2>2. KeptIsThere'
    BY <1>2, <1>4, <1>9, <2>1 DEF KeptIsThere
  <2>3. StepsInOrder'
    BY <1>2, <1>4, <1>6, <1>9 DEF StepsInOrder
  <2> QED
    BY <2>2, <2>3
<1>11. ASSUME SnapshotInterval = 1 PROVE BufferFollows'
  <2>1. BufferFollows /\ buffer_file.first \in Nat
    BY <1>11 DEF PersistInv, PersistShape, BufferFile
  <2> QED
    BY <1>2, <1>6, <2>1 DEF BufferFollows
<1> QED
  BY <1>8, <1>10, <1>11 DEF PersistInv

\* The cleanup leaves the newest file.
LEMMA cleanup_old_snapshotsKeeps == ASSUME PersistInv, cleanup_old_snapshots PROVE PersistInv'
<1>1. step = "cleanup" /\ UNCHANGED <<sequence, since, pending, buffer_file, clock, kept, recovered>>
  BY DEF cleanup_old_snapshots, Steady
<1>2. PICK f \in files : f.whole /\ f.suffix = "json" /\ f.book = kept /\ \A g \in files : g.time <= f.time
  BY <1>1 DEF PersistInv, StepsInOrder
<1>3. files' \subseteq files /\ f \in files'
  <2>1. CASE Cardinality(files) > MaxSnapshots
    <3>1. files' = files \ {Oldest}
      BY <2>1 DEF cleanup_old_snapshots
    <3>2. PICK o \in files : \A g \in files : o.time <= g.time
      <4> DEFINE Times == {g.time : g \in files}
      <4>1. Times \subseteq Nat /\ Times # {}
        BY <1>2 DEF PersistInv, PersistShape, SnapshotFile
      <4>2. PICK n \in Times : \A m \in Times : n <= m
        <5> HIDE DEF Times
        <5> QED
          BY <4>1, LeastCounterexample
      <4> QED
        BY <4>2
    <3>3. Oldest \in files /\ \A g \in files : Oldest.time <= g.time
      BY <3>2 DEF Oldest
    <3>4. Oldest # f
      <4> SUFFICES ASSUME Oldest = f PROVE FALSE
        OBVIOUS
      <4>1. \A g \in files : g.time = f.time
        BY <1>2, <3>3 DEF PersistInv, PersistShape, SnapshotFile
      <4>2. files = {f}
        BY <1>2, <4>1 DEF PersistInv, PersistShape
      <4>3. Cardinality(files) = 1
        BY <4>2, FS_Singleton
      <4> QED
        BY <2>1, <4>3, PersistAssumption
    <3> QED
      BY <1>2, <3>1, <3>4
  <2>2. CASE ~(Cardinality(files) > MaxSnapshots)
    BY <2>2, <1>2 DEF cleanup_old_snapshots
  <2> QED
    BY <2>1, <2>2
<1>4. step' \in {"cleanup", "buffer"}
  BY <1>1 DEF cleanup_old_snapshots
<1>5. PersistShape'
  BY <1>1, <1>3 DEF PersistInv, PersistShape
<1>6. KeptIsThere' /\ StepsInOrder'
  <2>1. \A g \in files' : ~(g.time > f.time)
    BY <1>2, <1>3 DEF PersistInv, PersistShape, SnapshotFile
  <2>2. KeptIsThere'
    BY <1>1, <1>2, <1>3, <2>1 DEF KeptIsThere
  <2>3. StepsInOrder'
    BY <1>1, <1>2, <1>3, <1>4 DEF StepsInOrder, PersistInv
  <2> QED
    BY <2>2, <2>3
<1>7. ASSUME SnapshotInterval = 1 PROVE BufferFollows'
  BY <1>1, <1>4, <1>7 DEF PersistInv, BufferFollows, StepsInOrder
<1> QED
  BY <1>5, <1>6, <1>7 DEF PersistInv

\* The buffer is written in place.
LEMMA save_bufferKeeps ==
    ASSUME PersistInv, NEW whole \in BOOLEAN, save_buffer(whole) PROVE PersistInv'
<1> DEFINE b == IF pending = NoBuffer THEN buffer_file ELSE [pending EXCEPT !.whole = whole]
<1>1. step = "buffer" /\ step' \in {"idle", "torn"} /\ buffer_file' = b
      /\ UNCHANGED <<sequence, since, pending, files, clock, kept, recovered>>
  BY DEF save_buffer, Steady
<1>2. b \in BufferFile /\ (b.first = pending.first \/ b = buffer_file)
  BY DEF PersistInv, PersistShape, BufferFile
<1> HIDE DEF b
<1>3. PersistShape' /\ KeptIsThere' /\ StepsInOrder'
  <2>1. PersistShape'
    BY <1>1, <1>2 DEF PersistInv, PersistShape
  <2>2. KeptIsThere'
    BY <1>1 DEF PersistInv, KeptIsThere
  <2>3. StepsInOrder'
    BY <1>1 DEF PersistInv, StepsInOrder
  <2> QED
    BY <2>1, <2>2, <2>3
<1>4. ASSUME SnapshotInterval = 1 PROVE BufferFollows'
  <2>1. BufferFollows
    BY <1>4 DEF PersistInv
  <2> QED
    BY <1>1, <1>2, <2>1 DEF BufferFollows
<1> QED
  BY <1>3, <1>4 DEF PersistInv

\* A recovery takes the newest snapshot that can be read.
LEMMA recoverKeeps == ASSUME PersistInv, recover PROVE PersistInv'
<1> DEFINE L == load_latest_state
<1>1. since' = 0 /\ pending' = NoBuffer /\ sequence' = L /\ step' = "idle" /\ UNCHANGED <<files, clock, kept>>
  BY DEF recover
<1>2. L \in Nat /\ L >= kept /\ kept \in Nat
  BY LatestIsNewest DEF PersistInv, PersistShape
<1> HIDE DEF L
<1>3. NoBuffer \in BufferFile /\ NoBuffer.first = 0
  BY DEF NoBuffer, BufferFile
<1>4. buffer_file' \in BufferFile /\ (buffer_file' = buffer_file \/ buffer_file'.first = 0)
  BY <1>3 DEF recover, PersistInv, PersistShape
<1>5. recovered' \in [book : Nat, first : Nat, last : Nat] /\ recovered'.book = L
      /\ (recovered'.first = 0 \/ recovered'.first = buffer_file.first)
  <2>1. buffer_file.first \in Nat /\ buffer_file.last \in Nat
    BY DEF PersistInv, PersistShape, BufferFile
  <2>2. \/ recovered' = [Nobody EXCEPT !.book = L]
        \/ recovered' = [book |-> L, first |-> buffer_file.first, last |-> buffer_file.last]
    BY DEF recover, L
  <2> QED
    BY <1>2, <2>1, <2>2 DEF Nobody
<1>6. PersistShape'
  BY <1>1, <1>2, <1>3, <1>4, <1>5 DEF PersistInv, PersistShape
<1>7. KeptIsThere' /\ StepsInOrder'
  BY <1>1, <1>2 DEF PersistInv, KeptIsThere, StepsInOrder
<1>8. ASSUME SnapshotInterval = 1 PROVE BufferFollows'
  <2>1. buffer_file.first <= kept + 1 /\ buffer_file.first \in Nat
    BY <1>8 DEF PersistInv, BufferFollows, PersistShape, BufferFile
  <2>2. buffer_file'.first <= kept' + 1
    BY <1>1, <1>2, <1>4, <2>1
  <2>3. recovered'.first <= recovered'.book + 1
    BY <1>2, <1>5, <2>1
  <2> QED
    BY <1>1, <2>2, <2>3 DEF BufferFollows
<1> QED
  BY <1>6, <1>7, <1>8 DEF PersistInv

\* Every step of persistence keeps the invariant.
LEMMA PersistSteps == PersistInv /\ [PersistNext]_pvars => PersistInv'
<1> SUFFICES ASSUME PersistInv, [PersistNext]_pvars PROVE PersistInv'
  OBVIOUS
<1>1. ASSUME UNCHANGED <<sequence, since, pending, files, buffer_file, clock, kept, recovered>>,
             step' \in {"idle", "down"} \/ step' = step
      PROVE  PersistInv'
  <2>1. PersistShape'
    BY <1>1 DEF PersistInv, PersistShape
  <2>2. KeptIsThere'
    BY <1>1 DEF PersistInv, KeptIsThere
  <2>3. StepsInOrder'
    BY <1>1 DEF PersistInv, StepsInOrder
  <2>4. SnapshotInterval = 1 => BufferFollows'
    BY <1>1 DEF PersistInv, BufferFollows
  <2> QED
    BY <2>1, <2>2, <2>3, <2>4 DEF PersistInv
<1>2. CASE Fail \/ Crash \/ UNCHANGED pvars
  <2>1. UNCHANGED <<sequence, since, pending, files, buffer_file, clock, kept, recovered>>
    BY <1>2 DEF Fail, Crash, pvars, Steady
  <2>2. step' \in {"idle", "down"} \/ step' = step
    BY <1>2 DEF Fail, Crash, pvars
  <2> QED
    BY <1>1, <2>1, <2>2
<1> QED
  BY <1>2, checkpointKeeps, WriteTemporaryKeeps, RenameTemporaryKeeps, cleanup_old_snapshotsKeeps, save_bufferKeeps,
     recoverKeeps DEF PersistNext

\* NeverBack as the invariant has it.
LEMMA PersistInvImplies == PersistInv => NeverBack
<1> SUFFICES ASSUME PersistInv PROVE NeverBack
  OBVIOUS
<1>1. load_latest_state >= kept
  BY LatestIsNewest
<1> QED
  BY <1>1 DEF NeverBack, PersistInv, BufferFollows

\* Whatever the interval, the snapshots kept and the crashes: a recovery never goes back
\* behind the last snapshot that was completed, and with a snapshot at every checkpoint
\* the buffer goes on where the snapshot ends.
THEOREM SnapshotsNeverBack == PersistSpec => []NeverBack
<1> QED
  BY PersistStarts, PersistSteps, PersistInvImplies, PTL DEF PersistSpec

--------------------------------------------------------------------------------
(* The stores of market data.                                              *)

\* The kdb+ client on its own.
KdbSpec == KdbInit /\ [][KdbNext]_dvars

\* What has been kept of the rows of a table, and of all.
KdbHas(t) == ToSet(kdb_buffer[t]) \cup tables[t]
KdbHasAll == UNION {ToSet(kdb_buffer[t]) \cup tables[t] : t \in KdbTables}

\* The types of the variables.
KdbShape ==
    /\ kdb_buffer \in [KdbTables -> Seq(Nat)]
    /\ tables \in [KdbTables -> SUBSET Nat]
    /\ insertions \in Nat /\ unread \in BOOLEAN
    /\ kdb \in {"absent", "open", "broken"}
    /\ kdb_step \in {"idle", "create trades", "create orderbooks", "flush orderbooks"}

\* Before the client is made nothing is inserted.
KdbBegins ==
    /\ kdb = "absent" => kdb_step = "idle"
    /\ (kdb = "absent" \/ kdb_step \in {"create trades", "create orderbooks"}) =>
         insertions = 0 /\ \A t \in KdbTables : KdbHas(t) = {}

\* As long as every answer was read, each row is in its buffer or in a table.
KdbInv ==
    /\ KdbShape /\ KdbBegins
    /\ ~unread => KdbHasAll = 1 .. insertions
    /\ kdb = "broken" => tables = final

\* The invariant holds at the start.
LEMMA KdbStarts == KdbInit => KdbInv
<1> SUFFICES ASSUME KdbInit PROVE KdbInv
  OBVIOUS
<1>1. KdbShape
  <2>1. <<>> \in Seq(Nat) /\ {} \in SUBSET Nat
    OBVIOUS
  <2>2. [t \in KdbTables |-> <<>>] \in [KdbTables -> Seq(Nat)]
    BY <2>1
  <2>3. [t \in KdbTables |-> {}] \in [KdbTables -> SUBSET Nat]
    BY <2>1
  <2> QED
    BY <2>2, <2>3 DEF KdbInit, KdbShape
<1>2. \A t \in KdbTables : KdbHas(t) = {}
  BY ToSetOfNone DEF KdbInit, KdbHas
<1>3. KdbHasAll = {} /\ 1 .. 0 = {}
  BY <1>2 DEF KdbHasAll, KdbHas
<1> QED
  BY <1>1, <1>2, <1>3 DEF KdbInit, KdbInv, KdbBegins

\* A statement leaves what it is given in the buffer or with kdb+.
LEMMA FlushKeeps ==
    ASSUME KdbInv, NEW t \in KdbTables, NEW waiting \in Seq(Nat), NEW ok \in BOOLEAN, flush_table(t, waiting, ok)
    PROVE  /\ kdb_buffer' \in [KdbTables -> Seq(Nat)] /\ tables' \in [KdbTables -> SUBSET Nat]
           /\ unread' \in BOOLEAN /\ kdb' \in {"open", "broken"} /\ kdb # "absent"
           /\ ~unread' => ~unread /\ KdbHas(t)' = ToSet(waiting) \cup tables[t]
           /\ \A u \in KdbTables : u # t => KdbHas(u)' = KdbHas(u)
           /\ kdb = "broken" => tables' = tables /\ kdb' = "broken"
<1>1. PICK taken \in BOOLEAN :
        /\ execute_query(taken, ok)
        /\ tables' = IF taken THEN [tables EXCEPT ![t] = tables[t] \cup ToSet(waiting)] ELSE tables
        /\ kdb_buffer' = [kdb_buffer EXCEPT ![t] = IF ok THEN <<>> ELSE waiting]
  BY DEF flush_table
<1>2. ToSet(waiting) \subseteq Nat /\ ToSet(<<>>) = {}
  BY ToSetType, ToSetOfNone
<1>3. kdb_buffer \in [KdbTables -> Seq(Nat)] /\ tables \in [KdbTables -> SUBSET Nat] /\ unread \in BOOLEAN
  BY DEF KdbInv, KdbShape
<1>4. kdb_buffer' \in [KdbTables -> Seq(Nat)] /\ tables' \in [KdbTables -> SUBSET Nat]
  BY <1>1, <1>2, <1>3
<1>5. kdb_buffer'[t] = (IF ok THEN <<>> ELSE waiting)
      /\ tables'[t] = (IF taken THEN tables[t] \cup ToSet(waiting) ELSE tables[t])
  BY <1>1, <1>3
<1>6. \A u \in KdbTables : u # t => kdb_buffer'[u] = kdb_buffer[u] /\ tables'[u] = tables[u]
  BY <1>1, <1>3
<1>7. unread' \in BOOLEAN /\ kdb' \in {"open", "broken"} /\ kdb # "absent"
      /\ (kdb = "broken" => ~taken /\ kdb' = "broken") /\ (~unread' => ~unread /\ (ok => taken))
  BY <1>1, <1>3 DEF execute_query
<1>8. ~unread' => ~unread /\ KdbHas(t)' = ToSet(waiting) \cup tables[t]
  <2> SUFFICES ASSUME ~unread' PROVE KdbHas(t)' = ToSet(waiting) \cup tables[t]
    BY <1>7
  <2>1. ToSet(kdb_buffer'[t]) = IF ok THEN {} ELSE ToSet(waiting)
    BY <1>2, <1>5
  <2>2. ToSet(kdb_buffer'[t]) \cup tables'[t] = ToSet(waiting) \cup tables[t]
    BY <1>5, <1>7, <2>1
  <2> QED
    BY <2>2 DEF KdbHas
<1>9. \A u \in KdbTables : u # t => KdbHas(u)' = KdbHas(u)
  BY <1>6 DEF KdbHas
<1>10. kdb = "broken" => tables' = tables /\ kdb' = "broken"
  BY <1>1, <1>7
<1> QED
  BY <1>4, <1>7, <1>8, <1>9, <1>10

\* An insertion, with the flush it comes to.
LEMMA KdbInsertKeeps ==
    ASSUME KdbInv, NEW t \in KdbTables, KdbInsert(t)
    PROVE  /\ KdbShape' /\ KdbBegins' /\ (~unread' => KdbHasAll' = 1 .. insertions')
           /\ kdb = "broken" => tables' = tables /\ kdb' = "broken"
<1> DEFINE waiting == Append(kdb_buffer[t], insertions')
<1>1. insertions' = insertions + 1 /\ insertions \in Nat /\ insertions' \in Nat /\ kdb_buffer[t] \in Seq(Nat)
      /\ kdb # "absent" /\ kdb_step = "idle" /\ kdb_step' = kdb_step
  BY DEF KdbInsert, KdbInv, KdbShape
<1>2. waiting \in Seq(Nat) /\ ToSet(waiting) = ToSet(kdb_buffer[t]) \cup {insertions'}
  BY <1>1, ToSetOfAppend, AppendProperties
<1> HIDE DEF waiting
<1>3. /\ kdb_buffer' \in [KdbTables -> Seq(Nat)] /\ tables' \in [KdbTables -> SUBSET Nat]
      /\ unread' \in BOOLEAN /\ kdb' \in {"open", "broken"}
      /\ ~unread' => ~unread /\ KdbHas(t)' = ToSet(waiting) \cup tables[t]
      /\ \A u \in KdbTables : u # t => KdbHas(u)' = KdbHas(u)
      /\ kdb = "broken" => tables' = tables /\ kdb' = "broken"
  <2>1. CASE \E ok \in BOOLEAN : flush_table(t, waiting, ok)
    BY <1>2, <2>1, FlushKeeps
  <2>2. CASE kdb_buffer' = [kdb_buffer EXCEPT ![t] = waiting] /\ UNCHANGED <<kdb, unread, tables>>
    <3>1. kdb_buffer' \in [KdbTables -> Seq(Nat)] /\ kdb_buffer'[t] = waiting
          /\ \A u \in KdbTables : u # t => kdb_buffer'[u] = kdb_buffer[u]
      BY <1>2, <2>2 DEF KdbInv, KdbShape
    <3> QED
      BY <1>1, <2>2, <3>1 DEF KdbHas, KdbInv, KdbShape
  <2> QED
    BY <2>1, <2>2 DEF KdbInsert, waiting
<1>4. KdbShape'
  BY <1>1, <1>3 DEF KdbInv, KdbShape
<1>5. KdbBegins'
  BY <1>1, <1>3 DEF KdbBegins
<1>6. ASSUME ~unread' PROVE KdbHasAll' = 1 .. insertions'
  <2>1. KdbHasAll = 1 .. insertions
    BY <1>3, <1>6 DEF KdbInv
  <2>2. KdbHas(t)' = KdbHas(t) \cup {insertions'} /\ \A u \in KdbTables : u # t => KdbHas(u)' = KdbHas(u)
    BY <1>2, <1>3, <1>6 DEF KdbHas
  <2>3. KdbHasAll' = KdbHasAll \cup {insertions'}
    BY <2>2 DEF KdbHasAll, KdbHas
  <2>4. 1 .. insertions' = (1 .. insertions) \cup {insertions'}
    BY <1>1
  <2> QED
    BY <2>1, <2>3, <2>4
<1> QED
  BY <1>3, <1>4, <1>5, <1>6

\* A flush of the tables.
LEMMA KdbFlushKeeps ==
    ASSUME KdbInv, KdbFlush
    PROVE  /\ KdbShape' /\ KdbBegins' /\ (~unread' => KdbHasAll' = 1 .. insertions')
           /\ kdb = "broken" => tables' = tables /\ kdb' = "broken"
<1>1. PICK t \in KdbTables, ok \in BOOLEAN :
        /\ kdb_step \in {"idle", "flush orderbooks"}
        /\ IF kdb_buffer[t] = <<>> THEN ok /\ UNCHANGED <<kdb, unread, kdb_buffer, tables>>
           ELSE flush_table(t, kdb_buffer[t], ok)
        /\ kdb_step' \in {"flush orderbooks", "idle"}
  BY DEF KdbFlush
<1>2. kdb # "absent" /\ insertions' = insertions
  BY DEF KdbFlush
<1>3. /\ kdb_buffer' \in [KdbTables -> Seq(Nat)] /\ tables' \in [KdbTables -> SUBSET Nat]
      /\ unread' \in BOOLEAN /\ kdb' \in {"open", "broken"}
      /\ ~unread' => ~unread /\ \A u \in KdbTables : KdbHas(u)' = KdbHas(u)
      /\ kdb = "broken" => tables' = tables /\ kdb' = "broken"
  <2>1. CASE flush_table(t, kdb_buffer[t], ok)
    <3>1. kdb_buffer[t] \in Seq(Nat)
      BY DEF KdbInv, KdbShape
    <3>2. ~unread' => ~unread /\ KdbHas(t)' = ToSet(kdb_buffer[t]) \cup tables[t]
      BY <2>1, <3>1, FlushKeeps
    <3>3. ~unread' => KdbHas(t)' = KdbHas(t)
      BY <3>2 DEF KdbHas
    <3> QED
      BY <2>1, <3>1, <3>2, <3>3, FlushKeeps
  <2>2. CASE UNCHANGED <<kdb, unread, kdb_buffer, tables>>
    BY <1>2, <2>2 DEF KdbHas, KdbInv, KdbShape
  <2> QED
    BY <1>1, <2>1, <2>2
<1>4. KdbShape' /\ KdbBegins'
  BY <1>1, <1>2, <1>3 DEF KdbInv, KdbShape, KdbBegins
<1>5. ASSUME ~unread' PROVE KdbHasAll' = 1 .. insertions'
  <2>1. KdbHasAll' = KdbHasAll
    BY <1>3, <1>5 DEF KdbHasAll, KdbHas
  <2> QED
    BY <1>2, <1>3, <1>5, <2>1 DEF KdbInv
<1> QED
  BY <1>3, <1>4, <1>5

\* Every step of the client keeps the invariant.
LEMMA KdbSteps == KdbInv /\ [KdbNext]_dvars => KdbInv'
<1> SUFFICES ASSUME KdbInv, [KdbNext]_dvars PROVE KdbInv'
  OBVIOUS
<1>1. ASSUME UNCHANGED <<kdb_buffer, tables, insertions>>, kdb' \in {"absent", "open", "broken"}, unread' \in BOOLEAN,
             kdb_step' \in {"idle", "create trades", "create orderbooks", "flush orderbooks"}
      PROVE  KdbShape' /\ KdbHasAll' = KdbHasAll /\ \A t \in KdbTables : KdbHas(t)' = KdbHas(t)
  BY <1>1 DEF KdbInv, KdbShape, KdbHasAll, KdbHas
<1>2. ASSUME KdbNew \/ create_tables \/ KdbQuery
      PROVE  /\ KdbShape' /\ KdbBegins' /\ (~unread' => KdbHasAll' = 1 .. insertions')
             /\ kdb = "broken" => tables' = tables /\ (kdb' = "broken" \/ kdb' = "absent")
  <2>1. CASE KdbNew
    <3>1. kdb = "absent" /\ kdb' = "open" /\ kdb_step' \in {"idle", "create trades"}
          /\ UNCHANGED <<unread, kdb_buffer, tables, insertions>> /\ unread \in BOOLEAN
      BY <2>1 DEF KdbNew, KdbInv, KdbShape
    <3> QED
      BY <1>1, <3>1 DEF KdbInv, KdbBegins
  <2>2. CASE create_tables
    <3>1. kdb_step \in {"create trades", "create orderbooks"} /\ UNCHANGED <<kdb_buffer, tables, insertions>>
          /\ unread' \in BOOLEAN /\ kdb' \in {"absent", "open", "broken"}
          /\ kdb_step' \in {"idle", "create orderbooks"}
          /\ (kdb' = "absent" => kdb_step' = "idle")
          /\ (kdb = "broken" => kdb' = "broken" \/ kdb' = "absent")
      BY <2>2 DEF create_tables, execute_query, KdbInv, KdbShape
    <3>2. insertions = 0 /\ \A t \in KdbTables : KdbHas(t) = {}
      BY <3>1 DEF KdbInv, KdbBegins
    <3>3. KdbHasAll = {} /\ 1 .. 0 = {}
      BY <3>2 DEF KdbHasAll, KdbHas
    <3> QED
      BY <1>1, <3>1, <3>2, <3>3 DEF KdbInv, KdbBegins
  <2>3. CASE KdbQuery
    <3>1. kdb = "open" /\ kdb_step = "idle" /\ kdb' = "broken"
          /\ UNCHANGED <<unread, kdb_buffer, kdb_step, tables, insertions>> /\ unread \in BOOLEAN
      BY <2>3 DEF KdbQuery, KdbInv, KdbShape
    <3> QED
      BY <1>1, <3>1 DEF KdbInv, KdbBegins
  <2> QED
    BY <1>2, <2>1, <2>2, <2>3
<1>3. CASE KdbNext
  <2>1. /\ KdbShape' /\ KdbBegins' /\ (~unread' => KdbHasAll' = 1 .. insertions')
        /\ kdb = "broken" => tables' = tables /\ (kdb' = "broken" \/ kdb' = "absent")
    BY <1>2, <1>3, KdbInsertKeeps, KdbFlushKeeps DEF KdbNext
  <2>2. final' = IF kdb' = "broken" /\ kdb # "broken" THEN tables' ELSE final
    BY <1>3 DEF KdbNext
  <2>3. kdb' = "broken" => tables' = final'
    BY <2>1, <2>2 DEF KdbInv
  <2> QED
    BY <2>1, <2>3 DEF KdbInv
<1>4. CASE UNCHANGED dvars
  <2>1. UNCHANGED <<kdb, unread, kdb_buffer, kdb_step, tables, final, insertions>>
    BY <1>4 DEF dvars
  <2> QED
    BY <2>1 DEF KdbInv, KdbShape, KdbBegins, KdbHasAll, KdbHas
<1> QED
  BY <1>3, <1>4

\* KdbKeeps is part of it.
LEMMA KdbInvImplies == KdbInv => KdbKeeps
BY DEF KdbInv, KdbKeeps, KdbHasAll

-----------------------------------------------------------------------------
(* The log writer.                                                         *)

\* The log writer on its own.
WriterSpec == WriterInit /\ [][WriterNext]_gvars

\* LogsInOrder, with the types of what it is about.
WriterInv ==
    /\ log_queue \in Seq(Nat) /\ log_batch \in Seq(Nat) /\ logs_sent \in Seq(Nat) /\ logged \in Nat
    /\ LogsInOrder

\* One more number.
LEMMA NumbersGoOn ==
    ASSUME NEW n \in Nat PROVE Append([i \in 1 .. n |-> i], n + 1) = [i \in 1 .. n + 1 |-> i]
<1> DEFINE s == [i \in 1 .. n |-> i]
           t == [i \in 1 .. n + 1 |-> i]
<1>1. s \in Seq(Nat) /\ t \in Seq(Nat) /\ Len(s) = n /\ Len(t) = n + 1
  OBVIOUS
<1>2. \A i \in 1 .. n + 1 : Append(s, n + 1)[i] = t[i]
  OBVIOUS
<1> HIDE DEF s, t
<1> QED
  BY <1>1, <1>2, SeqEqual, AppendProperties

\* The invariant holds at the start.
LEMMA WriterStarts == WriterInit => WriterInv
<1> SUFFICES ASSUME WriterInit PROVE WriterInv
  OBVIOUS
<1>1. [i \in 1 .. 0 |-> i] = <<>> /\ (<<>> \o <<>>) \o <<>> = <<>>
  OBVIOUS
<1> QED
  BY <1>1 DEF WriterInit, WriterInv, LogsInOrder

\* Every step of the writer keeps it.
LEMMA WriterSteps == WriterInv /\ [WriterNext]_gvars => WriterInv'
<1> SUFFICES ASSUME WriterInv, [WriterNext]_gvars PROVE WriterInv'
  OBVIOUS
<1> USE DEF WriterInv
<1>1. ASSUME NEW v, NEW level, NEW latency, NEW gone, process_log(v, level, latency, gone) PROVE WriterInv'
  <2>1. logged' = logged + 1 /\ log_queue' = Append(log_queue, logged') /\ UNCHANGED <<log_batch, logs_sent>>
    BY <1>1 DEF process_log
  <2> DEFINE s == logs_sent \o log_batch
  <2>2. s \in Seq(Nat) /\ logged' \in Nat /\ s \o log_queue = [i \in 1 .. logged |-> i]
    BY <2>1, ConcatProperties DEF LogsInOrder
  <2> HIDE DEF s
  <2>3. s \o Append(log_queue, logged') = Append(s \o log_queue, logged')
    <3>1. s \in Seq(Nat) /\ log_queue \in Seq(Nat) /\ logged' \in Nat
      BY <2>2
    <3> QED
      BY <3>1, AppendToConcat
  <2>4. s \o log_queue' = [i \in 1 .. logged' |-> i]
    BY <2>1, <2>2, <2>3, NumbersGoOn
  <2>5. log_queue' \in Seq(Nat)
    BY <2>1, <2>2, AppendProperties
  <2> QED
    BY <2>1, <2>2, <2>4, <2>5 DEF s, LogsInOrder
<1>2. CASE TakeLog
  <2> DEFINE filling == Append(log_batch, Head(log_queue))
  <2>1. log_queue # <<>> /\ log_queue' = Tail(log_queue) /\ UNCHANGED logged
        /\ \/ log_batch' = <<>> /\ logs_sent' = logs_sent \o filling
           \/ log_batch' = filling /\ logs_sent' = logs_sent
    BY <1>2 DEF TakeLog
  <2>2. Head(log_queue) \in Nat /\ Tail(log_queue) \in Seq(Nat) /\ filling \in Seq(Nat)
    BY <2>1, HeadTailProperties, AppendProperties
  <2>3. logs_sent \o filling = Append(logs_sent \o log_batch, Head(log_queue))
    <3>1. logs_sent \in Seq(Nat) /\ log_batch \in Seq(Nat)
      BY DEF WriterInv
    <3>2. filling = Append(log_batch, Head(log_queue))
      OBVIOUS
    <3>3. logs_sent \o Append(log_batch, Head(log_queue)) = Append(logs_sent \o log_batch, Head(log_queue))
      <4> DEFINE e == Head(log_queue)
      <4>1. e \in Nat
        BY <2>2
      <4> HIDE DEF e
      <4>2. logs_sent \o Append(log_batch, e) = Append(logs_sent \o log_batch, e)
        BY <3>1, <4>1, AppendToConcat
      <4> QED
        BY <4>2 DEF e
    <3> QED
      BY <3>2, <3>3
  <2>4. logs_sent \o filling \in Seq(Nat) /\ logs_sent \o log_batch \in Seq(Nat)
    BY <2>2, ConcatProperties
  <2> HIDE DEF filling
  <2>5. (logs_sent \o filling) \o Tail(log_queue) = (logs_sent \o log_batch) \o log_queue
    BY <2>1, <2>3, <2>4, QueueMoves
  <2>6. logs_sent' \o log_batch' = logs_sent \o filling
    BY <2>1, <2>4, ConcatEmptySeq
  <2>7. logs_sent' \in Seq(Nat) /\ log_batch' \in Seq(Nat) /\ log_queue' \in Seq(Nat)
    <3>1. <<>> \in Seq(Nat) /\ filling \in Seq(Nat) /\ logs_sent \in Seq(Nat)
      BY <2>2, EmptySeq
    <3> QED
      BY <2>1, <2>2, <2>4, <3>1
  <2> QED
    BY <2>1, <2>5, <2>6, <2>7 DEF LogsInOrder
<1>3. CASE LogTick
  <2>1. logs_sent' = logs_sent \o log_batch /\ log_batch' = <<>> /\ UNCHANGED <<log_queue, logged>>
    BY <1>3 DEF LogTick
  <2>2. logs_sent' \in Seq(Nat)
    BY <2>1, ConcatProperties
  <2>3. logs_sent' \o log_batch' = logs_sent \o log_batch
    BY <2>1, <2>2, ConcatEmptySeq
  <2> QED
    BY <2>1, <2>2, <2>3 DEF LogsInOrder
<1>4. CASE flush_metrics \/ DropWriter \/ UNCHANGED gvars
  <2>1. UNCHANGED <<log_queue, log_batch, logs_sent, logged>>
    BY <1>4 DEF flush_metrics, DropWriter, gvars
  <2> QED
    BY <2>1 DEF LogsInOrder
<1> QED
  BY <1>1, <1>2, <1>3, <1>4 DEF WriterNext

--------------------------------------------------------------------------------
(* The operational log.                                                    *)

\* The operational log on its own.
LogSpec == LogInit /\ [][LogNext]_lvars

\* The type of a task.
Job == [step : {"idle", "flush", "gate", "write"}, kinds : Seq(LogKinds), todo : Seq(Nat)]

\* The types of the variables.
LogShape ==
    /\ backlog \in [LogKinds -> Seq(Nat)]
    /\ holder \in [LogKinds -> LogTasks \cup {"nobody"}]
    /\ lines \subseteq Nat /\ delivered \subseteq Nat /\ entries \in Nat
    /\ job \in [LogTasks -> Job]
    /\ \A t \in LogTasks : job[t].step # "idle" => job[t].kinds # <<>>

\* The buffer that a task flushes.
Flushes(t) == Head(job[t].kinds)

\* Who waits for the client or writes to it holds the lock of its buffer, and the one
\* that writes has, or had, every entry of it in hand.
LocksHeld ==
    \A t \in LogTasks :
      /\ job[t].step \in {"gate", "write"} => holder[Flushes(t)] = t
      /\ job[t].step = "write" => /\ gate = t
                                  /\ ToSet(backlog[Flushes(t)]) \subseteq ToSet(job[t].todo) \cup lines \cup delivered

\* A full buffer is locked by the task that is to flush it, and waits for the lock.
FullIsLocked ==
    \A k \in LogKinds \ {"connection"} :
      Len(backlog[k]) >= LogLimit =>
        \E t \in LogTasks : holder[k] = t /\ job[t].step = "flush" /\ Flushes(t) = k

\* Who holds which lock with what in hand; a full buffer is about to be flushed; and no
\* entry is lost.
LogInv == LogShape /\ LocksHeld /\ FullIsLocked /\ AtLeastOnce

\* A lock that nobody holds is held by no task.
LEMMA NobodyIsNoTask == "nobody" \notin LogTasks
BY LogAssumption DEF LogTasks, Periodic

\* The invariant holds at the start.
LEMMA LogStarts == LogInit => LogInv
<1> SUFFICES ASSUME LogInit PROVE LogInv
  OBVIOUS
<1>1. <<>> \in Seq(Nat) /\ <<>> \in Seq(LogKinds)
  OBVIOUS
<1>2. Done \in Job /\ Done.step = "idle"
  BY <1>1 DEF Done, Job
<1>3. backlog \in [LogKinds -> Seq(Nat)] /\ job \in [LogTasks -> Job]
  BY <1>1, <1>2 DEF LogInit
<1>4. LogShape /\ LocksHeld
  BY <1>2, <1>3 DEF LogInit, LogShape, LocksHeld
<1>5. FullIsLocked
  <2>1. \A k \in LogKinds : Len(backlog[k]) = 0
    BY DEF LogInit
  <2> QED
    BY <2>1, LogAssumption DEF FullIsLocked
<1>6. AtLeastOnce
  <2>1. 1 .. 0 = {}
    OBVIOUS
  <2> QED
    BY <2>1 DEF LogInit, AtLeastOnce
<1> QED
  BY <1>4, <1>5, <1>6 DEF LogInv

\* The tasks and their jobs after a step of task t.
LEMMA JobChanges ==
    ASSUME LogInv, NEW t \in LogTasks, NEW j \in Job, job' = [job EXCEPT ![t] = j],
           j.step # "idle" => j.kinds # <<>>
    PROVE  /\ job' \in [LogTasks -> Job] /\ job'[t] = j
           /\ \A u \in LogTasks : u # t => job'[u] = job[u]
           /\ \A u \in LogTasks : job'[u].step # "idle" => job'[u].kinds # <<>>
BY DEF LogInv, LogShape

\* The jobs that GoOn and GiveUp leave.
LEMMA GoesOn ==
    ASSUME LogInv, NEW t \in LogTasks, job[t].step # "idle", GoOn(t) \/ GiveUp(t)
    PROVE  \E j \in Job : /\ job' = [job EXCEPT ![t] = j] /\ j.step \in {"idle", "flush"}
                          /\ j.step # "idle" => j.kinds # <<>>
<1> DEFINE kinds == job[t].kinds
           go == [Done EXCEPT !.step = "flush", !.kinds = Tail(kinds)]
<1>1. kinds \in Seq(LogKinds) /\ kinds # <<>>
  BY DEF LogInv, LogShape, Job
<1> HIDE DEF kinds
<1>2. Len(kinds) \in Nat /\ Len(kinds) # 0 /\ Tail(kinds) \in Seq(LogKinds) /\ Len(Tail(kinds)) = Len(kinds) - 1
  BY <1>1, HeadTailProperties, EmptySeq, LenProperties
<1>3. Done \in Job /\ Done.step = "idle"
  <2>1. <<>> \in Seq(Nat) /\ <<>> \in Seq(LogKinds)
    OBVIOUS
  <2> QED
    BY <2>1 DEF Done, Job
<1>4. go \in Job /\ go.step = "flush" /\ go.kinds = Tail(kinds)
  BY <1>2, <1>3 DEF Done, Job
<1>5. Len(kinds) # 1 => Tail(kinds) # <<>>
  <2> DEFINE n == Len(kinds)
             m == Len(Tail(kinds))
  <2>1. n \in Nat /\ m = n - 1
    BY <1>2
  <2>0. Len(<<>>) = 0
    OBVIOUS
  <2>3. Tail(kinds) = <<>> => m = 0
    BY <2>0, Zenon
  <2> HIDE DEF n, m
  <2>2. n # 1 => Tail(kinds) # <<>>
    BY <2>1, <2>3
  <2> QED
    BY <2>2 DEF n
<1>6. \/ job' = [job EXCEPT ![t] = Done]
      \/ job' = [job EXCEPT ![t] = go] /\ Len(kinds) # 1
  BY DEF GoOn, GiveUp, kinds
<1> HIDE DEF go
<1> QED
  BY <1>3, <1>4, <1>5, <1>6

\* An entry is put into a buffer whose lock is free.
LEMMA PushedKeeps ==
    ASSUME LogInv, NEW t \in LogTasks, NEW k \in LogKinds, Pushed(k), job[t] = Done
    PROVE  /\ backlog' \in [LogKinds -> Seq(Nat)] /\ entries' \in Nat /\ holder[k] = "nobody"
           /\ \A l \in LogKinds : l # k => backlog'[l] = backlog[l]
           /\ UNCHANGED <<gate, lines, delivered>>
           /\ AtLeastOnce'
           /\ \A u \in LogTasks : job[u].step \in {"gate", "write"} => Flushes(u) # k
<1>1. entries' = entries + 1 /\ entries \in Nat /\ entries' \in Nat /\ backlog[k] \in Seq(Nat) /\ holder[k] = "nobody"
      /\ backlog' = [backlog EXCEPT ![k] = Append(backlog[k], entries')] /\ UNCHANGED <<gate, lines, delivered>>
  BY DEF Pushed, LogInv, LogShape
<1> DEFINE b == Append(backlog[k], entries')
<1>2. b \in Seq(Nat) /\ ToSet(b) = ToSet(backlog[k]) \cup {entries'}
  BY <1>1, ToSetOfAppend, AppendProperties
<1> HIDE DEF b
<1>3. backlog' \in [LogKinds -> Seq(Nat)] /\ backlog'[k] = b /\ \A l \in LogKinds : l # k => backlog'[l] = backlog[l]
  BY <1>1, <1>2 DEF LogInv, LogShape, b
<1>4. Backlogged \cup {entries'} \subseteq Backlogged'
  <2>1. \A l \in LogKinds : ToSet(backlog[l]) \subseteq ToSet(backlog'[l])
    BY <1>2, <1>3
  <2>2. entries' \in ToSet(backlog'[k])
    BY <1>2, <1>3
  <2> QED
    BY <2>1, <2>2 DEF Backlogged
<1>5. AtLeastOnce'
  <2>1. 1 .. entries' = (1 .. entries) \cup {entries'}
    BY <1>1
  <2> QED
    BY <1>1, <1>4, <2>1 DEF LogInv, AtLeastOnce
<1>6. \A u \in LogTasks : job[u].step \in {"gate", "write"} => Flushes(u) # k
  BY <1>1, NobodyIsNoTask DEF LogInv, LocksHeld
<1> QED
  BY <1>1, <1>3, <1>5, <1>6

\* A call appends an entry, and locks the buffer if that is full now.
LEMMA EntryKeeps ==
    ASSUME LogInv, NEW t \in LogCallers,
           log_connection_event(t) \/ log_performance(t) \/ log_error(t) \/ log_processing_stats(t)
    PROVE  LogInv'
<1>1. t \in LogTasks
  BY DEF LogTasks
<1>2. PICK k \in LogKinds :
        /\ job[t] = Done /\ Pushed(k)
        /\ \/ /\ k = "connection" /\ holder' = holder
              /\ job' = [job EXCEPT ![t] = [Done EXCEPT !.step = "flush", !.kinds = <<k>>]]
           \/ /\ Len(backlog'[k]) >= LogLimit /\ holder' = [holder EXCEPT ![k] = t]
              /\ job' = [job EXCEPT ![t] = [Done EXCEPT !.step = "flush", !.kinds = <<k>>]]
           \/ ~(Len(backlog'[k]) >= LogLimit) /\ UNCHANGED <<holder, job>>
  <2>1. CASE log_connection_event(t)
    BY <2>1 DEF log_connection_event, LogKinds
  <2>2. ASSUME NEW k \in LogKinds, Buffered(t, k)
        PROVE  /\ job[t] = Done /\ Pushed(k)
               /\ \/ /\ Len(backlog'[k]) >= LogLimit /\ holder' = [holder EXCEPT ![k] = t]
                     /\ job' = [job EXCEPT ![t] = [Done EXCEPT !.step = "flush", !.kinds = <<k>>]]
                  \/ ~(Len(backlog'[k]) >= LogLimit) /\ UNCHANGED <<holder, job>>
    BY <2>2 DEF Buffered
  <2>3. (log_performance(t) \/ log_error(t) \/ log_processing_stats(t)) => \E k \in LogKinds : Buffered(t, k)
    BY DEF log_performance, log_error, log_processing_stats, LogKinds
  <2> QED
    BY <2>1, <2>2, <2>3
<1> DEFINE j == [Done EXCEPT !.step = "flush", !.kinds = <<k>>]
<1>3. j \in Job /\ j.step = "flush" /\ j.kinds = <<k>> /\ j.kinds # <<>> /\ Head(j.kinds) = k
  <2>1. <<>> \in Seq(Nat) /\ <<k>> \in Seq(LogKinds) /\ <<k>> # <<>> /\ Head(<<k>>) = k
    OBVIOUS
  <2> QED
    BY <2>1 DEF Done, Job
<1> HIDE DEF j
<1>4. /\ backlog' \in [LogKinds -> Seq(Nat)] /\ entries' \in Nat /\ holder[k] = "nobody"
      /\ \A l \in LogKinds : l # k => backlog'[l] = backlog[l]
      /\ UNCHANGED <<gate, lines, delivered>>
      /\ AtLeastOnce'
      /\ \A u \in LogTasks : job[u].step \in {"gate", "write"} => Flushes(u) # k
  BY <1>1, <1>2, PushedKeeps
<1>5. job[t].step = "idle"
  BY <1>2 DEF Done
<1>6. /\ job' \in [LogTasks -> Job] /\ (job'[t] = j \/ job'[t] = job[t])
      /\ \A u \in LogTasks : u # t => job'[u] = job[u]
      /\ \A u \in LogTasks : job'[u].step # "idle" => job'[u].kinds # <<>>
  <2>1. CASE job' = [job EXCEPT ![t] = j]
    BY <1>1, <1>3, <2>1, JobChanges
  <2>2. CASE job' = job
    BY <2>2 DEF LogInv, LogShape
  <2> QED
    BY <1>2, <2>1, <2>2 DEF j
<1>7. holder' \in [LogKinds -> LogTasks \cup {"nobody"}] /\ \A l \in LogKinds : l # k => holder'[l] = holder[l]
  BY <1>1, <1>2 DEF LogInv, LogShape
<1>8. LogShape'
  BY <1>4, <1>6, <1>7 DEF LogInv, LogShape
<1>9. LocksHeld'
  <2> SUFFICES ASSUME NEW u \in LogTasks, job'[u].step \in {"gate", "write"}
               PROVE  /\ holder'[Flushes(u)'] = u
                      /\ job'[u].step = "write" =>
                           /\ gate' = u
                           /\ ToSet(backlog'[Flushes(u)']) \subseteq ToSet(job'[u].todo) \cup lines' \cup delivered'
    BY DEF LocksHeld
  <2>1. u # t
    BY <1>3, <1>5, <1>6
  <2>2. job'[u] = job[u] /\ Flushes(u)' = Flushes(u) /\ Flushes(u) # k /\ Flushes(u) \in LogKinds
    <3>1. job'[u] = job[u]
      BY <1>6, <2>1
    <3>2. job[u].kinds \in Seq(LogKinds) /\ job[u].kinds # <<>>
      BY <3>1 DEF LogInv, LogShape, Job
    <3> QED
      BY <1>4, <3>1, <3>2, HeadTailProperties DEF Flushes
  <2> QED
    BY <1>4, <1>7, <2>2 DEF LogInv, LocksHeld
<1>10. FullIsLocked'
  <2> SUFFICES ASSUME NEW l \in LogKinds \ {"connection"}, Len(backlog'[l]) >= LogLimit
               PROVE  \E u \in LogTasks : holder'[l] = u /\ job'[u].step = "flush" /\ Flushes(u)' = l
    BY DEF FullIsLocked
  <2>1. CASE l = k
    <3>1. holder' = [holder EXCEPT ![k] = t] /\ job' = [job EXCEPT ![t] = j]
      BY <1>2, <2>1 DEF j
    <3>2. holder'[k] = t /\ job'[t] = j
      BY <1>1, <3>1 DEF LogInv, LogShape
    <3> QED
      BY <1>1, <1>3, <2>1, <3>2 DEF Flushes
  <2>2. CASE l # k
    <3>1. PICK u \in LogTasks : holder[l] = u /\ job[u].step = "flush" /\ Flushes(u) = l
      BY <1>4, <2>2 DEF LogInv, FullIsLocked
    <3>2. u # t
      BY <1>5, <3>1
    <3> QED
      BY <1>6, <1>7, <2>2, <3>1, <3>2 DEF Flushes
  <2> QED
    BY <2>1, <2>2
<1> QED
  BY <1>4, <1>8, <1>9, <1>10 DEF LogInv

\* What a step of t leaves to the others: their jobs, the locks they hold, their buffers.
LEMMA OthersKeep ==
    ASSUME LogInv, NEW t \in LogTasks, NEW j \in Job, job' = [job EXCEPT ![t] = j],
           j.step # "idle" => j.kinds # <<>>,
           job[t].step # "idle",
           \A k \in LogKinds : holder'[k] # holder[k] =>
             \/ holder[k] = "nobody"
             \/ holder[k] = t /\ job[t].step = "write" /\ Flushes(t) = k,
           \A k \in LogKinds : backlog'[k] # backlog[k] =>
             job[t].step = "write" /\ Flushes(t) = k /\ holder'[k] = "nobody" /\ backlog'[k] = <<>>,
           backlog' \in [LogKinds -> Seq(Nat)], holder' \in [LogKinds -> LogTasks \cup {"nobody"}],
           (gate' = gate /\ lines' = lines /\ delivered' = delivered) \/ gate = t \/ gate = "nobody",
           lines' \subseteq Nat, delivered' \subseteq Nat, entries' = entries,
           j.step \in {"gate", "write"} =>
             holder'[Head(j.kinds)] = t,
           j.step = "write" =>
             gate' = t /\ ToSet(backlog'[Head(j.kinds)]) \subseteq ToSet(j.todo) \cup lines' \cup delivered',
           job[t].step = "flush" => j.step # "flush" \/ \A k \in LogKinds : holder'[k] = holder[k] /\ backlog'[k] = backlog[k],
           job[t].step = "flush" => holder[Flushes(t)] = "nobody"
    PROVE  LogShape' /\ LocksHeld' /\ FullIsLocked'
<1>1. /\ job' \in [LogTasks -> Job] /\ job'[t] = j
      /\ \A u \in LogTasks : u # t => job'[u] = job[u]
      /\ \A u \in LogTasks : job'[u].step # "idle" => job'[u].kinds # <<>>
  BY JobChanges
<1>2. LogShape'
  BY <1>1 DEF LogInv, LogShape
<1>3. LocksHeld'
  <2> SUFFICES ASSUME NEW u \in LogTasks, job'[u].step \in {"gate", "write"}
               PROVE  /\ holder'[Flushes(u)'] = u
                      /\ job'[u].step = "write" =>
                           /\ gate' = u
                           /\ ToSet(backlog'[Flushes(u)']) \subseteq ToSet(job'[u].todo) \cup lines' \cup delivered'
    BY DEF LocksHeld
  <2>1. CASE u = t
    BY <1>1, <2>1 DEF Flushes
  <2>2. CASE u # t
    <3> DEFINE k == Flushes(u)
    <3>1. job'[u] = job[u] /\ Flushes(u)' = k /\ k \in LogKinds
      <4>1. job'[u] = job[u]
        BY <1>1, <2>2
      <4>2. job[u].kinds \in Seq(LogKinds) /\ job[u].kinds # <<>>
        BY <4>1 DEF LogInv, LogShape, Job
      <4> QED
        BY <4>1, <4>2, HeadTailProperties DEF Flushes
    <3> HIDE DEF k
    <3>2. holder[k] = u
      BY <3>1 DEF LogInv, LocksHeld, k
    <3>3. holder'[k] = u
      BY <2>2, <3>1, <3>2, NobodyIsNoTask
    <3>4. backlog'[k] = backlog[k]
      BY <3>1, <3>3, NobodyIsNoTask
    <3>5. ASSUME job[u].step = "write"
          PROVE  gate' = u /\ ToSet(backlog'[k]) \subseteq ToSet(job[u].todo) \cup lines' \cup delivered'
      <4>1. gate = u /\ ToSet(backlog[k]) \subseteq ToSet(job[u].todo) \cup lines \cup delivered
        BY <3>5 DEF LogInv, LocksHeld, k
      <4>2. gate' = gate /\ lines' = lines /\ delivered' = delivered
        BY <2>2, <4>1, NobodyIsNoTask
      <4> QED
        BY <3>4, <4>1, <4>2
    <3> QED
      BY <3>1, <3>3, <3>5
  <2> QED
    BY <2>1, <2>2
<1>4. FullIsLocked'
  <2> SUFFICES ASSUME NEW k \in LogKinds \ {"connection"}, Len(backlog'[k]) >= LogLimit
               PROVE  \E u \in LogTasks : holder'[k] = u /\ job'[u].step = "flush" /\ Flushes(u)' = k
    BY DEF FullIsLocked
  <2>1. backlog'[k] = backlog[k]
    <3>1. Len(<<>>) = 0
      OBVIOUS
    <3>2. ~(Len(<<>>) >= LogLimit)
      BY <3>1, LogAssumption
    <3> QED
      BY <3>2
  <2>2. PICK u \in LogTasks : holder[k] = u /\ job[u].step = "flush" /\ Flushes(u) = k
    BY <2>1 DEF LogInv, FullIsLocked
  <2>3. u # t
    BY <2>2, NobodyIsNoTask
  <2>4. holder'[k] = u
    BY <2>2, <2>3, NobodyIsNoTask
  <2> QED
    BY <1>1, <2>2, <2>3, <2>4 DEF Flushes
<1> QED
  BY <1>2, <1>3, <1>4

\* The periodic task is to flush all buffers.
LEMMA flush_allKeeps == ASSUME LogInv, flush_all PROVE LogInv'
<1> DEFINE all == <<"connection", "performance", "errors", "processing">>
           j == [Done EXCEPT !.step = "flush", !.kinds = all]
<1>1. all \in Seq(LogKinds) /\ all # <<>> /\ <<>> \in Seq(Nat)
  BY DEF LogKinds
<1>2. job[Periodic] = Done /\ job' = [job EXCEPT ![Periodic] = j]
      /\ UNCHANGED <<backlog, holder, gate, lines, entries, delivered>>
  BY DEF flush_all
<1>3. j \in Job /\ j.step = "flush" /\ j.kinds = all
  <2> HIDE DEF all
  <2> QED
    BY <1>1 DEF Done, Job
<1> HIDE DEF j, all
<1>4. Periodic \in LogTasks
  BY DEF LogTasks
<1>5. /\ job' \in [LogTasks -> Job] /\ job'[Periodic] = j
      /\ \A u \in LogTasks : u # Periodic => job'[u] = job[u]
      /\ \A u \in LogTasks : job'[u].step # "idle" => job'[u].kinds # <<>>
  BY <1>1, <1>2, <1>3, <1>4, JobChanges
<1>6. LogShape'
  BY <1>2, <1>5 DEF LogInv, LogShape
<1>7. LocksHeld'
  BY <1>2, <1>3, <1>5 DEF LogInv, LocksHeld, Flushes
<1>8. job[Periodic].step = "idle"
  BY <1>2 DEF Done
<1>9. FullIsLocked'
  <2> SUFFICES ASSUME NEW k \in LogKinds \ {"connection"}, Len(backlog[k]) >= LogLimit
               PROVE  \E u \in LogTasks : holder'[k] = u /\ job'[u].step = "flush" /\ Flushes(u)' = k
    BY <1>2 DEF FullIsLocked
  <2>1. PICK u \in LogTasks : holder[k] = u /\ job[u].step = "flush" /\ Flushes(u) = k
    BY DEF LogInv, FullIsLocked
  <2>2. job'[u] = job[u]
    BY <1>5, <1>8, <2>1
  <2> QED
    BY <1>2, <2>1, <2>2 DEF Flushes
<1>10. AtLeastOnce'
  BY <1>2 DEF LogInv, AtLeastOnce, Backlogged
<1> QED
  BY <1>6, <1>7, <1>9, <1>10 DEF LogInv

\* The buffer of a task that has something to do.
LEMMA FlushesKind ==
    ASSUME LogInv, NEW t \in LogTasks, job[t].step # "idle"
    PROVE  job[t].kinds \in Seq(LogKinds) /\ job[t].kinds # <<>> /\ Flushes(t) \in LogKinds
<1>1. job[t].kinds \in Seq(LogKinds) /\ job[t].kinds # <<>>
  BY DEF LogInv, LogShape, Job
<1> QED
  BY <1>1, HeadTailProperties DEF Flushes

\* A task has the lock of the buffer, and waits for the client.
LEMMA LockBacklogKeeps == ASSUME LogInv, NEW t \in LogTasks, LockBacklog(t) PROVE LogInv'
<1> DEFINE k == Flushes(t)
<1>1. job[t].step = "flush" /\ holder[k] = "nobody" /\ UNCHANGED <<backlog, gate, lines, entries, delivered>>
  BY DEF LockBacklog, Flushes
<1>2. k \in LogKinds
  BY <1>1, FlushesKind
<1>3. AtLeastOnce'
  BY <1>1 DEF LogInv, AtLeastOnce, Backlogged
<1>4. backlog' \in [LogKinds -> Seq(Nat)] /\ lines' \subseteq Nat /\ delivered' \subseteq Nat
  BY <1>1 DEF LogInv, LogShape
<1>5. CASE GoOn(t) /\ holder' = holder
  <2>1. PICK j \in Job : /\ job' = [job EXCEPT ![t] = j] /\ j.step \in {"idle", "flush"}
                         /\ j.step # "idle" => j.kinds # <<>>
    BY <1>1, <1>5, GoesOn
  <2>2. holder' \in [LogKinds -> LogTasks \cup {"nobody"}]
    BY <1>5 DEF LogInv, LogShape
  <2>3. LogShape' /\ LocksHeld' /\ FullIsLocked'
    <3> HIDE DEF k
    <3> QED
      BY <1>1, <1>4, <1>5, <2>1, <2>2, OthersKeep DEF k
  <2> QED
    BY <1>3, <2>3 DEF LogInv
<1>6. CASE holder' = [holder EXCEPT ![k] = t] /\ job' = [job EXCEPT ![t].step = "gate"]
  <2> DEFINE j == [job[t] EXCEPT !.step = "gate"]
  <2>1. job[t] \in Job /\ job[t].kinds # <<>>
    BY <1>1 DEF LogInv, LogShape
  <2>2. j \in Job /\ j.step = "gate" /\ j.kinds = job[t].kinds /\ job' = [job EXCEPT ![t] = j]
    BY <1>6, <2>1 DEF Job
  <2> HIDE DEF j
  <2>3. holder' \in [LogKinds -> LogTasks \cup {"nobody"}] /\ holder'[k] = t
        /\ \A l \in LogKinds : l # k => holder'[l] = holder[l]
    BY <1>2, <1>6 DEF LogInv, LogShape
  <2>4. holder'[Head(j.kinds)] = t
    BY <2>2, <2>3 DEF Flushes
  <2>5. \A l \in LogKinds : holder'[l] # holder[l] => holder[l] = "nobody"
    BY <1>1, <2>3
  <2>6. LogShape' /\ LocksHeld' /\ FullIsLocked'
    BY <1>1, <1>4, <2>1, <2>2, <2>3, <2>4, <2>5, OthersKeep
  <2> QED
    BY <1>3, <2>6 DEF LogInv
<1> QED
  BY <1>5, <1>6 DEF LockBacklog, Flushes

\* It has the client, and takes all entries in hand.
LEMMA LockClientKeeps == ASSUME LogInv, NEW t \in LogTasks, LockClient(t) PROVE LogInv'
<1> DEFINE k == Flushes(t)
           j == [job[t] EXCEPT !.step = "write", !.todo = backlog[k]]
<1>1. job[t].step = "gate" /\ gate = "nobody" /\ gate' = t /\ job' = [job EXCEPT ![t] = j]
      /\ UNCHANGED <<backlog, holder, lines, entries, delivered>>
  BY DEF LockClient, Flushes
<1>2. k \in LogKinds /\ job[t].kinds # <<>> /\ holder[k] = t /\ backlog[k] \in Seq(Nat) /\ job[t] \in Job
  BY <1>1, FlushesKind DEF LogInv, LogShape, LocksHeld
<1>3. Head(job[t].kinds) = k
  BY DEF Flushes
<1> HIDE DEF k
<1>4. j \in Job /\ j.step = "write" /\ j.kinds = job[t].kinds /\ j.todo = backlog[k]
  BY <1>2 DEF Job
<1> HIDE DEF j
<1>5. AtLeastOnce'
  BY <1>1 DEF LogInv, AtLeastOnce, Backlogged
<1>6. backlog' \in [LogKinds -> Seq(Nat)] /\ holder' \in [LogKinds -> LogTasks \cup {"nobody"}]
      /\ lines' \subseteq Nat /\ delivered' \subseteq Nat
  BY <1>1 DEF LogInv, LogShape
<1>7. LogShape' /\ LocksHeld' /\ FullIsLocked'
  BY <1>1, <1>2, <1>3, <1>4, <1>6, OthersKeep
<1> QED
  BY <1>5, <1>7 DEF LogInv

\* It writes one of them.
LEMMA add_to_bufferKeeps == ASSUME LogInv, NEW t \in LogTasks, add_to_buffer(t) PROVE LogInv'
<1> DEFINE k == Flushes(t)
           unwritten == job[t].todo
           h == Head(unwritten)
           waiting == lines \cup {h}
           j == [job[t] EXCEPT !.todo = Tail(unwritten)]
<1>1. job[t].step = "write" /\ unwritten # <<>> /\ UNCHANGED <<backlog, entries>>
      /\ \/ /\ job' = [job EXCEPT ![t] = j] /\ UNCHANGED <<holder, gate>>
            /\ \/ lines' = waiting /\ delivered' = delivered
               \/ lines' = {} /\ delivered' = delivered \cup waiting
         \/ lines' = {} /\ delivered' = delivered /\ GiveUp(t) /\ Unlock(t)
  BY DEF add_to_buffer, flush_internal
<1>2. k \in LogKinds /\ job[t].kinds # <<>> /\ holder[k] = t /\ gate = t /\ job[t] \in Job /\ unwritten \in Seq(Nat)
      /\ ToSet(backlog[k]) \subseteq ToSet(unwritten) \cup lines \cup delivered /\ k = Head(job[t].kinds)
      /\ lines \subseteq Nat /\ delivered \subseteq Nat
  BY <1>1, FlushesKind DEF LogInv, LogShape, LocksHeld, Job, Flushes
<1> HIDE DEF k, unwritten
<1>3. h \in Nat /\ Tail(unwritten) \in Seq(Nat) /\ ToSet(unwritten) \subseteq {h} \cup ToSet(Tail(unwritten))
  BY <1>1, <1>2, HeadTailProperties, ToSetOfTail
<1>4. j \in Job /\ j.step = "write" /\ j.kinds = job[t].kinds /\ j.todo = Tail(unwritten)
  BY <1>1, <1>2, <1>3 DEF Job
<1> HIDE DEF j, h
<1>5. AtLeastOnce'
  <2>1. Backlogged' = Backlogged /\ delivered \subseteq delivered' /\ entries' = entries
    BY <1>1 DEF Backlogged
  <2> QED
    BY <2>1 DEF LogInv, AtLeastOnce
<1>6. backlog' \in [LogKinds -> Seq(Nat)] /\ lines' \subseteq Nat /\ delivered' \subseteq Nat
  BY <1>1, <1>2, <1>3 DEF LogInv, LogShape
<1>7. CASE job' = [job EXCEPT ![t] = j] /\ UNCHANGED <<holder, gate>> /\ lines' \cup delivered' = lines \cup delivered \cup {h}
  <2>1. holder' \in [LogKinds -> LogTasks \cup {"nobody"}]
    BY <1>7 DEF LogInv, LogShape
  <2>2. ToSet(backlog'[k]) \subseteq ToSet(j.todo) \cup lines' \cup delivered'
    BY <1>1, <1>2, <1>3, <1>4, <1>7
  <2>3. LogShape' /\ LocksHeld' /\ FullIsLocked'
    BY <1>1, <1>2, <1>4, <1>6, <1>7, <2>1, <2>2, OthersKeep
  <2> QED
    BY <1>5, <2>3 DEF LogInv
<1>8. CASE GiveUp(t) /\ Unlock(t)
  <2>1. PICK i \in Job : /\ job' = [job EXCEPT ![t] = i] /\ i.step \in {"idle", "flush"}
                         /\ i.step # "idle" => i.kinds # <<>>
    BY <1>1, <1>8, GoesOn
  <2>2. holder' = [holder EXCEPT ![k] = "nobody"]
    BY <1>2, <1>8 DEF Unlock
  <2>3. holder' \in [LogKinds -> LogTasks \cup {"nobody"}] /\ \A l \in LogKinds : l # k => holder'[l] = holder[l]
    BY <2>2 DEF LogInv, LogShape
  <2>4. \A l \in LogKinds : holder'[l] # holder[l] => holder[l] = t /\ job[t].step = "write" /\ Flushes(t) = l
    BY <1>1, <1>2, <2>3 DEF k
  <2>5. LogShape' /\ LocksHeld' /\ FullIsLocked'
    BY <1>1, <1>2, <1>6, <2>1, <2>3, <2>4, OthersKeep
  <2> QED
    BY <1>5, <2>5 DEF LogInv
<1>9. lines' = waiting /\ delivered' = delivered => lines' \cup delivered' = lines \cup delivered \cup {h}
  OBVIOUS
<1>10. lines' = {} /\ delivered' = delivered \cup waiting => lines' \cup delivered' = lines \cup delivered \cup {h}
  OBVIOUS
<1> QED
  BY <1>1, <1>7, <1>8, <1>9, <1>10

\* It flushes the client, clears the buffer, or keeps it when that failed.
LEMMA FlushEndKeeps == ASSUME LogInv, NEW t \in LogTasks, FlushEnd(t) PROVE LogInv'
<1> DEFINE k == Flushes(t)
<1>1. job[t].step = "write" /\ job[t].todo = <<>> /\ Unlock(t) /\ UNCHANGED entries /\ lines' = {}
      /\ \/ delivered' = delivered \cup lines /\ backlog' = [backlog EXCEPT ![k] = <<>>] /\ GoOn(t)
         \/ delivered' = delivered /\ backlog' = backlog /\ GiveUp(t)
  BY DEF FlushEnd, flush_internal, Flushes
<1>2. k \in LogKinds /\ holder[k] = t /\ gate = t /\ k = Head(job[t].kinds)
      /\ ToSet(backlog[k]) \subseteq lines \cup delivered /\ lines \subseteq Nat /\ delivered \subseteq Nat
  <2>1. k \in LogKinds /\ holder[k] = t /\ gate = t /\ k = Head(job[t].kinds) /\ lines \subseteq Nat /\ delivered \subseteq Nat
    BY <1>1, FlushesKind DEF LogInv, LogShape, LocksHeld, Flushes
  <2>2. ToSet(backlog[k]) \subseteq ToSet(job[t].todo) \cup lines \cup delivered
    BY <1>1 DEF LogInv, LocksHeld
  <2> QED
    BY <1>1, <2>1, <2>2, ToSetOfNone
<1>3. Flushes(t) = k
  OBVIOUS
<1> HIDE DEF k
<1>4. PICK j \in Job : /\ job' = [job EXCEPT ![t] = j] /\ j.step \in {"idle", "flush"}
                       /\ j.step # "idle" => j.kinds # <<>>
  BY <1>1, GoesOn
<1>5. holder' = [holder EXCEPT ![k] = "nobody"]
  BY <1>1, <1>2 DEF Unlock
<1>6. holder' \in [LogKinds -> LogTasks \cup {"nobody"}] /\ holder'[k] = "nobody"
      /\ \A l \in LogKinds : l # k => holder'[l] = holder[l]
  BY <1>2, <1>5 DEF LogInv, LogShape
<1>7. backlog' \in [LogKinds -> Seq(Nat)] /\ (\A l \in LogKinds : l # k => backlog'[l] = backlog[l])
      /\ (backlog'[k] = backlog[k] \/ (backlog'[k] = <<>> /\ delivered' = delivered \cup lines))
  <2>1. <<>> \in Seq(Nat)
    OBVIOUS
  <2> QED
    BY <1>1, <1>2, <2>1 DEF LogInv, LogShape
<1>8. delivered \subseteq delivered' /\ delivered' \subseteq Nat /\ lines' \subseteq Nat
  BY <1>1, <1>2
<1>9. AtLeastOnce'
  <2>1. Backlogged \subseteq Backlogged' \cup delivered'
    <3> SUFFICES ASSUME NEW l \in LogKinds PROVE ToSet(backlog[l]) \subseteq Backlogged' \cup delivered'
      BY DEF Backlogged
    <3>1. CASE backlog'[l] = backlog[l]
      BY <3>1 DEF Backlogged
    <3>2. CASE backlog'[l] # backlog[l]
      BY <1>2, <1>7, <3>2
    <3> QED
      BY <3>1, <3>2
  <2> QED
    BY <1>1, <1>8, <2>1 DEF LogInv, AtLeastOnce
<1>10. \A l \in LogKinds : holder'[l] # holder[l] => holder[l] = t /\ job[t].step = "write" /\ Flushes(t) = l
  BY <1>1, <1>2, <1>3, <1>6
<1>11. \A l \in LogKinds : backlog'[l] # backlog[l] =>
         job[t].step = "write" /\ Flushes(t) = l /\ holder'[l] = "nobody" /\ backlog'[l] = <<>>
  BY <1>1, <1>3, <1>6, <1>7
<1>12. LogShape' /\ LocksHeld' /\ FullIsLocked'
  BY <1>1, <1>2, <1>4, <1>6, <1>7, <1>8, <1>10, <1>11, OthersKeep
<1> QED
  BY <1>9, <1>12 DEF LogInv

\* Every step of the log keeps the invariant.
LEMMA LogSteps == LogInv /\ [LogNext]_lvars => LogInv'
<1> SUFFICES ASSUME LogInv, [LogNext]_lvars PROVE LogInv'
  OBVIOUS
<1>1. CASE UNCHANGED lvars
  <2>1. UNCHANGED <<backlog, holder, gate, lines, job, entries, delivered>>
    BY <1>1 DEF lvars
  <2> QED
    BY <2>1 DEF LogInv, LogShape, LocksHeld, FullIsLocked, AtLeastOnce, Backlogged, Flushes
<1> QED
  BY <1>1, flush_allKeeps, EntryKeeps, LockBacklogKeeps, LockClientKeeps, add_to_bufferKeeps, FlushEndKeeps DEF LogNext

\* A full buffer is not touched.
LEMMA FullStays ==
    ASSUME LogInv, [LogNext]_lvars, NEW k \in LogKinds \ {"connection"}, Len(backlog[k]) >= LogLimit
    PROVE  backlog'[k] = backlog[k] /\ holder'[k] = holder[k] /\ holder[k] # "nobody"
<1>1. PICK t \in LogTasks : holder[k] = t /\ job[t].step = "flush" /\ Flushes(t) = k
  BY DEF LogInv, FullIsLocked
<1>2. holder[k] # "nobody"
  BY <1>1, NobodyIsNoTask
<1>3. ASSUME NEW u \in LogTasks, job[u].step \in {"gate", "write"} PROVE Flushes(u) # k /\ Flushes(u) \in LogKinds
  <2>1. holder[Flushes(u)] = u
    BY <1>3 DEF LogInv, LocksHeld
  <2>2. u # t
    BY <1>1, <1>3
  <2>3. Flushes(u) \in LogKinds
    BY <1>3, FlushesKind
  <2> QED
    BY <1>1, <2>1, <2>2, <2>3
<1>4. ASSUME NEW l \in LogKinds, Pushed(l) PROVE l # k /\ backlog'[k] = backlog[k]
  BY <1>2, <1>4 DEF Pushed, LogInv, LogShape
<1>5. CASE UNCHANGED <<backlog, holder>>
  BY <1>2, <1>5
<1>6. ASSUME NEW u \in LogCallers, NEW l \in LogKinds, Buffered(u, l) PROVE backlog'[k] = backlog[k] /\ holder'[k] = holder[k]
  BY <1>4, <1>6 DEF Buffered, LogInv, LogShape
<1>7. ASSUME NEW u \in LogCallers, log_connection_event(u) PROVE backlog'[k] = backlog[k] /\ holder'[k] = holder[k]
  <2>1. "connection" \in LogKinds /\ Pushed("connection") /\ holder' = holder
    BY <1>7 DEF log_connection_event, LogKinds
  <2> QED
    BY <1>4, <2>1
<1>8. ASSUME NEW u \in LogTasks, LockBacklog(u) PROVE backlog'[k] = backlog[k] /\ holder'[k] = holder[k]
  <2>1. backlog' = backlog /\ holder[Flushes(u)] = "nobody"
        /\ (holder' = holder \/ holder' = [holder EXCEPT ![Flushes(u)] = u])
    BY <1>8 DEF LockBacklog, Flushes
  <2>2. Flushes(u) # k
    BY <1>2, <2>1
  <2> QED
    BY <2>1, <2>2 DEF LogInv, LogShape
<1>9. ASSUME NEW u \in LogTasks, add_to_buffer(u) \/ FlushEnd(u) PROVE backlog'[k] = backlog[k] /\ holder'[k] = holder[k]
  <2>1. job[u].step = "write"
    BY <1>9 DEF add_to_buffer, FlushEnd
  <2>2. Flushes(u) # k /\ Flushes(u) \in LogKinds
    BY <1>3, <2>1
  <2>3. (backlog' = backlog \/ backlog' = [backlog EXCEPT ![Flushes(u)] = <<>>])
        /\ (holder' = holder \/ holder' = [holder EXCEPT ![Flushes(u)] = "nobody"])
    BY <1>9 DEF add_to_buffer, FlushEnd, Unlock, Flushes
  <2> QED
    BY <2>2, <2>3 DEF LogInv, LogShape
<1>10. ASSUME flush_all \/ (\E u \in LogTasks : LockClient(u)) \/ UNCHANGED lvars PROVE UNCHANGED <<backlog, holder>>
  BY <1>10 DEF flush_all, LockClient, lvars
<1>11. ASSUME NEW u \in LogCallers, log_performance(u) \/ log_error(u) \/ log_processing_stats(u)
       PROVE  backlog'[k] = backlog[k] /\ holder'[k] = holder[k]
  BY <1>6, <1>11 DEF log_performance, log_error, log_processing_stats, LogKinds
<1> QED
  BY <1>2, <1>5, <1>7, <1>8, <1>9, <1>10, <1>11 DEF LogNext

\* For any number of callers and any limit: a buffer that has reached its limit is never
\* touched again, because the caller that filled it waits for the lock it holds
\* (log_performance, log_error and log_processing_stats call a flush that locks it).
THEOREM LimitsAreFatal == LogSpec => LimitIsFatal
<1>1. LogInv /\ [LogNext]_lvars =>
        [\A k \in LogKinds \ {"connection"} :
           Len(backlog[k]) >= LogLimit =>
             backlog'[k] = backlog[k] /\ holder'[k] = holder[k] /\ holder[k] # "nobody"]_lvars
  BY FullStays
<1> QED
  BY <1>1, LogStarts, LogSteps, PTL DEF LogSpec, LimitIsFatal

\* An entry of the log is in its buffer until a flush has written it, whichever flush fails.
THEOREM NoEntryLost == LogSpec => []AtLeastOnce
<1>1. LogInv => AtLeastOnce
  BY DEF LogInv
<1> QED
  BY <1>1, LogStarts, LogSteps, PTL DEF LogSpec

--------------------------------------------------------------------------------
(* The stock feeds.                                                        *)

\* A stock feed on its own.
StockSpec == StockInit /\ [][StockNext]_tvars

\* Steps after the token was found good.
Sending == {"send", "start", "reading"}

\* How many subscriptions were sent, and how many of them with a token that had run out.
StockInv ==
    /\ left \in Nat /\ requested \in Nat /\ tooLate \in Nat /\ reconnectCount \in Nat /\ leaked \in Nat
    /\ wsStats \in [{"connected", "disconnected", "total"} -> Nat]
    /\ stockAt \in {"start", "reading"} => requested = ToSend
    /\ stockAt \in {"fetch", "subscribe"} => requested = 0 /\ tooLate = 0
    /\ (stock = "LS_Enhanced" /\ stockAt \in Sending) =>
         /\ tooLate = 0 \/ left = 0 \/ stockAt # "send"
         /\ tooLate <= (IF requested > Margin THEN requested - Margin ELSE 0)
         /\ stockAt = "send" => left + requested >= Margin + tooLate
    /\ wsStats.connected = leaked + (IF stockAt = "reading" THEN 1 ELSE 0)
    /\ stock = "LS_Enhanced" =>
         /\ reconnectCount <= 1
         /\ stockAt \in {"start", "reading", "lost"} => reconnectCount = 0

\* The invariant holds at the start.
LEMMA StockStarts == StockInit => StockInv
BY DEF StockInit, StockInv, Sending

\* Every step of a stock feed keeps the invariant.
LEMMA StockSteps == StockInv /\ [StockNext]_tvars => StockInv'
<1> SUFFICES ASSUME StockInv, [StockNext]_tvars
             PROVE  StockInv'
  OBVIOUS
<1>0. Lifetime \in Nat /\ Margin \in Nat /\ Requests \in Nat /\ Margin <= Lifetime
  BY StockAssumption DEF StockAssumption
<1>1. CASE authenticate
  BY <1>0, <1>1 DEF authenticate, StockInv, Sending, ToSend, create_subscription, create_enhanced_subscription
<1>2. CASE connect_websocket
  BY <1>0, <1>2 DEF connect_websocket, StockInv, Sending, ToSend, create_subscription, create_enhanced_subscription
<1>3. CASE fetch_all_master_data
  BY <1>0, <1>3 DEF fetch_all_master_data, check_token_validity, StockInv, Sending, ToSend, create_subscription, create_enhanced_subscription
<1>4. CASE subscribe
  BY <1>0, <1>4 DEF subscribe, check_token_validity, StockInv, Sending, ToSend, create_subscription, create_enhanced_subscription
<1>5. CASE SendRequest
  <2>1. /\ requested' = requested + 1 /\ left' \in Nat /\ tooLate' \in Nat /\ UNCHANGED <<stock, wsStats, leaked>>
        /\ left = 0 => left' = 0 /\ tooLate' = tooLate + 1
        /\ left # 0 => left' = left - 1 /\ tooLate' = tooLate
    BY <1>5 DEF SendRequest, StockInv
  <2>2. /\ stockAt = "send" /\ stock' = stock /\ ToSend' = ToSend
        /\ stockAt' = "send" \/ (stockAt' = "start" /\ requested' = ToSend')
        /\ stockAt' = "send" => reconnectCount' = reconnectCount
    BY <1>5, Zenon DEF SendRequest, ToSend, create_subscription, create_enhanced_subscription
  <2>4. /\ reconnectCount' = 0 \/ reconnectCount' = reconnectCount
        /\ stock = "LS_Enhanced" /\ stockAt' = "start" => reconnectCount' = 0
    BY <1>5, Zenon DEF SendRequest
  <2>5. /\ reconnectCount' \in Nat
        /\ stock = "LS_Enhanced" => reconnectCount' <= 1
    BY <2>4 DEF StockInv
  <2>3. ASSUME stock = "LS_Enhanced"
        PROVE  /\ tooLate' = 0 \/ left' = 0
               /\ tooLate' <= (IF requested' > Margin THEN requested' - Margin ELSE 0)
               /\ left' + requested' >= Margin + tooLate'
    <3>1. /\ left \in Nat /\ requested \in Nat /\ tooLate \in Nat
          /\ tooLate = 0 \/ left = 0
          /\ left + requested >= Margin + tooLate
      BY <2>2, <2>3, Zenon DEF StockInv, Sending
    <3>2. left' + requested' >= Margin + tooLate' /\ (tooLate' = 0 \/ left' = 0)
      <4>1. CASE left = 0
        BY <1>0, <2>1, <3>1, <4>1
      <4>2. CASE left # 0
        BY <1>0, <2>1, <3>1, <4>2
      <4> QED
        BY <4>1, <4>2
    <3>3. requested' \in Nat /\ left' \in Nat /\ tooLate' \in Nat
      BY <2>1, <3>1
    <3>4. tooLate' <= (IF requested' > Margin THEN requested' - Margin ELSE 0)
      <4> DEFINE r == requested'
                 o == tooLate'
      <4>1. o = 0 \/ r >= Margin + o
        <5>1. CASE left' = 0
          <6>1. 0 + r >= Margin + o
            BY <3>2, <5>1
          <6>2. r \in Nat
            BY <3>3
          <6> HIDE DEF r, o
          <6> QED
            BY <6>1, <6>2
        <5> QED
          BY <3>2, <5>1
      <4>2. r \in Nat /\ o \in Nat /\ Margin \in Nat
        BY <1>0, <3>3
      <4> HIDE DEF r, o
      <4>3. o <= (IF r > Margin THEN r - Margin ELSE 0)
        BY <4>1, <4>2
      <4> QED
        BY <4>3 DEF r, o
    <3> QED
      BY <3>2, <3>4
  <2> QED
    BY <2>1, <2>2, <2>3, <2>4, <2>5 DEF StockInv, Sending
<1>6. CASE CallFails
  BY <1>0, <1>6 DEF CallFails, StockInv, Sending, ToSend, create_subscription, create_enhanced_subscription
<1>7. CASE ls_start
  <2> DEFINE c == wsStats.connected + 1
             t == wsStats.total + 1
  <2>1. /\ wsStats' = [wsStats EXCEPT !.connected = c, !.total = t]
        /\ wsStats \in [{"connected", "disconnected", "total"} -> Nat]
        /\ c \in Nat /\ t \in Nat /\ c = wsStats.connected + 1
    BY <1>7 DEF ls_start, StockInv
  <2> HIDE DEF c, t
  <2>2. /\ wsStats' \in [{"connected", "disconnected", "total"} -> Nat]
        /\ wsStats'.connected = wsStats.connected + 1
    BY <2>1
  <2> QED
    BY <1>7, <2>2 DEF ls_start, StockInv, Sending, ToSend, create_subscription, create_enhanced_subscription
<1>8. CASE SendFails
  BY <1>0, <1>8 DEF SendFails, StockInv, Sending, ToSend, create_subscription, create_enhanced_subscription
<1>9. CASE StreamLost
  <2> DEFINE c == IF wsStats.connected > 0 THEN wsStats.connected - 1 ELSE 0
             d == wsStats.disconnected + 1
  <2>1. /\ wsStats' = [wsStats EXCEPT !.connected = c, !.disconnected = d]
        /\ wsStats \in [{"connected", "disconnected", "total"} -> Nat]
        /\ c \in Nat /\ d \in Nat
        /\ wsStats.connected > 0 => c = wsStats.connected - 1
    BY <1>9 DEF StreamLost, StockInv
  <2> HIDE DEF c, d
  <2>2. /\ wsStats' \in [{"connected", "disconnected", "total"} -> Nat]
        /\ wsStats'.connected = c
    BY <2>1
  <2> QED
    BY <1>9, <2>1, <2>2 DEF StreamLost, StockInv, Sending, ToSend, create_subscription, create_enhanced_subscription
<1>10. CASE TryAgain
  BY <1>0, <1>10 DEF TryAgain, reconnect_limit, StockInv, Sending, ToSend, create_subscription, create_enhanced_subscription
<1>11. CASE TokenAges
  BY <1>0, <1>11 DEF TokenAges, StockInv, Sending, ToSend, create_subscription, create_enhanced_subscription
<1>12. CASE UNCHANGED <<stock, stockAt, left, requested, tooLate, reconnectCount, wsStats, leaked>>
  BY <1>0, <1>12 DEF StockInv, Sending, ToSend, create_subscription, create_enhanced_subscription
<1>13. ASSUME NEW code, HandleMessage(code)
       PROVE  UNCHANGED <<stock, stockAt, left, requested, tooLate, reconnectCount, wsStats, leaked>>
  BY <1>0, <1>13 DEF HandleMessage
<1> QED
  BY <1>1, <1>2, <1>3, <1>4, <1>5, <1>6, <1>7, <1>8, <1>9, <1>10, <1>11, <1>12, <1>13, Zenon DEF StockNext, tvars

\* Whatever the lifetime of a token, its margin and the number of requests: a stream that is
\* read had all its requests sent on it; LS_Enhanced sends at most those behind the first
\* Margin with a token that ran out, never makes a second reconnection, and the statistics
\* show the stream.
THEOREM OnlySubscribedRead == StockSpec => []ReadIsSubscribed
<1>1. StockInv => ReadIsSubscribed
  BY DEF StockInv, ReadIsSubscribed, Sending
<1> QED
  BY <1>1, StockStarts, StockSteps, PTL DEF StockSpec

--------------------------------------------------------------------------------
(* The programs: what is set up, which feeds start, which way out.         *)

\* The programs on their own.
ProcessSpec == ProcessInit /\ [][ProcessNext]_hvars

\* The steps of the set-up that spawn no feed, and all of them.
Others == Fatal \cup Global \cup {"monitor", "questdb"}
Steps == Others \cup Selected

\* The first step writes the log file; feeder_direct spawns no feed before its ninth.
LEMMA DirectProgram ==
    LET p == run_feeder_direct IN
    /\ p \in Seq(Steps) /\ Len(p) \in Nat /\ Len(p) > 9
    /\ p[1] = "log_file" /\ p[3] = "binary_udp" /\ p[4] = "multi_port" /\ p[5] = "init_hft"
    /\ \A i \in 1 .. 8 : p[i] \in Others
<1> DEFINE front == <<"log_file", "exchanges", "binary_udp", "multi_port", "init_hft", "start_hft", "symbol_mapper", "questdb">>
           back == <<"any_feed", "monitor">>
           p == run_feeder_direct
           c == Len(Chosen)
<1>1. Chosen \in Seq(Steps) /\ c \in Nat
  BY SetToSeqLists, ProcessAssumption DEF ProcessAssumption, Chosen, Steps
<1>2. front \in Seq(Others) /\ front \in Seq(Steps) /\ Len(front) = 8
      /\ front[1] = "log_file" /\ front[3] = "binary_udp" /\ front[4] = "multi_port" /\ front[5] = "init_hft"
  BY DEF Others, Steps, Fatal, Global
<1>3. back \in Seq(Steps) /\ Len(back) = 2
  BY DEF Others, Steps, Fatal, Global
<1>4. p = (front \o Chosen) \o back
  BY DEF run_feeder_direct
<1> HIDE DEF front, back, p
<1>5. /\ p \in Seq(Steps)
      /\ Len(p) = Len(front) + Len(Chosen) + Len(back)
      /\ \A i \in 1 .. Len(front) : p[i] = front[i]
  <2>1. front \in Seq(Steps) /\ Chosen \in Seq(Steps) /\ back \in Seq(Steps)
    BY <1>1, <1>2, <1>3
  <2> QED
    BY <1>4, <2>1, ThreeJoined
<1>6. \A i \in 1 .. 8 : front[i] \in Others
  BY <1>2, ElementOfSeq
<1>7. Len(p) = 8 + c + 2
  BY <1>2, <1>3, <1>5
<1>8. Len(p) \in Nat /\ Len(p) > 9
  BY <1>1, <1>7
<1>9. 1 \in 1 .. 8 /\ 3 \in 1 .. 8 /\ 4 \in 1 .. 8 /\ 5 \in 1 .. 8
  OBVIOUS
<1> QED
  BY <1>2, <1>5, <1>6, <1>8, <1>9 DEF p

\* feeder_buffered sets up the ordered sender, and no other global.
LEMMA BufferedProgram ==
    LET p == run_feeder_buffered IN
    /\ p \in Seq(Steps) /\ Len(p) \in Nat /\ Len(p) > 6
    /\ p[1] = "log_file"
    /\ \E i \in 1 .. Len(p) : p[i] = "ordered_udp"
    /\ \A i \in 1 .. Len(p) : p[i] \in Global => p[i] = "ordered_udp"
<1> DEFINE front == <<"log_file", "exchanges", "symbol_mapper", "questdb">>
           back == <<"any_feed", "ordered_udp", "monitor">>
           p == run_feeder_buffered
           c == Len(Chosen)
<1>1. Chosen \in Seq(Steps) /\ c \in Nat /\ Chosen \in Seq(Selected)
  BY SetToSeqLists, ProcessAssumption DEF ProcessAssumption, Chosen, Steps
<1>2. front \in Seq(Steps) /\ Len(front) = 4 /\ front[1] = "log_file"
      /\ \A i \in 1 .. 4 : front[i] \notin Global
  BY DEF Others, Steps, Fatal, Global
<1>3. back \in Seq(Steps) /\ Len(back) = 3 /\ back[2] = "ordered_udp"
      /\ \A i \in 1 .. 3 : back[i] \in Global => back[i] = "ordered_udp"
  BY DEF Others, Steps, Fatal, Global
<1>4. p = (front \o Chosen) \o back
  BY DEF run_feeder_buffered
<1> HIDE DEF front, back, p
<1>5. /\ p \in Seq(Steps)
      /\ Len(p) = Len(front) + Len(Chosen) + Len(back)
      /\ \A i \in 1 .. Len(front) : p[i] = front[i]
      /\ \A i \in 1 .. Len(Chosen) : p[Len(front) + i] = Chosen[i]
      /\ \A i \in 1 .. Len(back) : p[Len(front) + Len(Chosen) + i] = back[i]
  <2>1. front \in Seq(Steps) /\ Chosen \in Seq(Steps) /\ back \in Seq(Steps)
    BY <1>1, <1>2, <1>3
  <2> QED
    BY <1>4, <2>1, ThreeJoined
<1>6. Len(p) = 4 + c + 3
  BY <1>2, <1>3, <1>5
<1>7. \A i \in 1 .. Len(p) : \/ i \in 1 .. 4
                             \/ \E k \in 1 .. c : i = 4 + k
                             \/ \E k \in 1 .. 3 : i = 4 + c + k
  <2> TAKE i \in 1 .. Len(p)
  <2> HIDE DEF c
  <2>1. i \in Int /\ 1 <= i /\ i <= 4 + c + 3 /\ c \in Nat
    BY <1>1, <1>6
  <2>2. CASE i <= 4
    BY <2>1, <2>2
  <2>3. CASE 4 < i /\ i <= 4 + c
    <3>1. i - 4 \in 1 .. c /\ i = 4 + (i - 4)
      BY <2>1, <2>3
    <3> QED
      BY <3>1
  <2>4. CASE 4 + c < i
    <3>1. i - (4 + c) \in 1 .. 3 /\ i = 4 + c + (i - (4 + c))
      BY <2>1, <2>4
    <3> QED
      BY <3>1
  <2> QED
    BY <2>1, <2>2, <2>3, <2>4
<1>8. \A k \in 1 .. c : Chosen[k] \notin Global
  BY <1>1, ProcessAssumption, ElementOfSeq DEF ProcessAssumption
<1>9. \A i \in 1 .. Len(p) : p[i] \in Global => p[i] = "ordered_udp"
  <2>1. /\ \A i \in 1 .. 4 : p[i] = front[i]
        /\ \A i \in 1 .. c : p[4 + i] = Chosen[i]
        /\ \A i \in 1 .. 3 : p[4 + c + i] = back[i]
    BY <1>2, <1>3, <1>5
  <2> HIDE DEF c
  <2>2. \A i \in 1 .. 4 : p[i] \notin Global
    BY <1>2, <2>1
  <2>3. \A k \in 1 .. c : p[4 + k] \notin Global
    BY <1>8, <2>1
  <2>4. \A k \in 1 .. 3 : p[4 + c + k] \in Global => p[4 + c + k] = "ordered_udp"
    BY <1>3, <2>1
  <2> QED
    BY <1>7, <2>2, <2>3, <2>4, Zenon
<1>10. 4 + c + 2 \in 1 .. Len(p) /\ p[4 + c + 2] = "ordered_udp" /\ 1 \in 1 .. 4
  <2> HIDE DEF c
  <2> QED
    BY <1>1, <1>2, <1>3, <1>5, <1>6 DEF c
<1>11. Len(p) \in Nat /\ Len(p) > 6
  BY <1>1, <1>6
<1> QED
  BY <1>2, <1>5, <1>9, <1>10, <1>11 DEF p

\* The steps of the program that runs, and how many it has behind it.
Course == Program(binary)
Behind == Len(Course) - Len(setup)

\* The types of the variables.
ProcessShape ==
    /\ binary \in {"feeder_direct", "feeder_buffered"}
    /\ setup \in Seq(Steps) /\ Behind \in Nat
    /\ \A i \in 1 .. Len(setup) : setup[i] = Course[i + Behind]
    /\ life \in {"starting", "running", "stopping", "failed", "stopped"}
    /\ feeds \in [Selected -> {"none", "idle", "reading"}]
    /\ holds \in [Selected -> BOOLEAN]

\* What the set-up has come to.
SetUpSoFar ==
    /\ life # "failed" => /\ \A i \in 1 .. Behind : Course[i] \in Global => Course[i] \in globals
                          /\ Behind # 0 => subscriber # "none"
    /\ life \notin {"failed", "starting"} => setup = <<>>
    /\ subscriber # "file and QuestDB"
    /\ binary = "feeder_buffered" => globals \subseteq {"ordered_udp"}

\* What the feeds have found.
FeedsSoFar ==
    \A e \in Selected :
      IF binary = "feeder_direct"
        THEN /\ feeds[e] # "none" => "multi_port" \in globals /\ "init_hft" \in globals
             /\ feeds[e] # "none" /\ e = "binance" => e \in registered
             /\ feeds[e] = "reading" /\ e \in Keepers => holds[e]
        ELSE ~holds[e] /\ e \notin registered

\* What set-up and feeds have come to, and every way out used.
ProcessInv == ProcessShape /\ SetUpSoFar /\ FeedsSoFar /\ WaysOut

\* What the programs have in common.
LEMMA ProgramSteps ==
    ASSUME binary \in {"feeder_direct", "feeder_buffered"}
    PROVE  /\ Course \in Seq(Steps) /\ Len(Course) \in Nat /\ Len(Course) > 5 /\ Course[1] = "log_file"
           /\ binary = "feeder_direct" =>
                /\ Len(Course) > 9 /\ Course[3] = "binary_udp" /\ Course[4] = "multi_port" /\ Course[5] = "init_hft"
                /\ \A i \in 1 .. 8 : Course[i] \in Others
           /\ binary = "feeder_buffered" =>
                /\ \E i \in 1 .. Len(Course) : Course[i] = "ordered_udp"
                /\ \A i \in 1 .. Len(Course) : Course[i] \in Global => Course[i] = "ordered_udp"
<1>1. CASE binary = "feeder_direct"
  <2>1. Course = run_feeder_direct
    BY <1>1 DEF Course, Program
  <2>2. /\ Course \in Seq(Steps) /\ Len(Course) \in Nat /\ Len(Course) > 9
        /\ Course[1] = "log_file" /\ Course[3] = "binary_udp" /\ Course[4] = "multi_port" /\ Course[5] = "init_hft"
        /\ \A i \in 1 .. 8 : Course[i] \in Others
    BY <2>1, DirectProgram, Zenon
  <2>3. Len(Course) > 5
    BY <2>2
  <2>4. binary # "feeder_buffered"
    BY <1>1
  <2> QED
    BY <2>2, <2>3, <2>4, Zenon
<1>2. CASE binary = "feeder_buffered"
  <2>1. Course = run_feeder_buffered
    BY <1>2 DEF Course, Program
  <2>2. /\ Course \in Seq(Steps) /\ Len(Course) \in Nat /\ Len(Course) > 6
        /\ Course[1] = "log_file"
        /\ \E i \in 1 .. Len(Course) : Course[i] = "ordered_udp"
        /\ \A i \in 1 .. Len(Course) : Course[i] \in Global => Course[i] = "ordered_udp"
    BY <2>1, BufferedProgram, Zenon
  <2>3. Len(Course) > 5
    BY <2>2
  <2>4. binary # "feeder_direct"
    BY <1>2
  <2> QED
    BY <2>2, <2>3, <2>4, Zenon
<1> QED
  BY <1>1, <1>2

\* The invariant holds at the start.
LEMMA ProcessStarts == ProcessInit => ProcessInv
<1> SUFFICES ASSUME ProcessInit PROVE ProcessInv
  OBVIOUS
<1>1. binary \in {"feeder_direct", "feeder_buffered"} /\ setup = Course
  BY ProcessAssumption DEF ProcessAssumption, ProcessInit, Course
<1>2. Course \in Seq(Steps) /\ Len(Course) \in Nat
  BY <1>1, ProgramSteps
<1>3. Behind = 0
  BY <1>1, <1>2 DEF Behind
<1>4. ProcessShape
  BY <1>1, <1>2, <1>3 DEF ProcessInit, ProcessShape
<1>5. SetUpSoFar
  BY <1>3 DEF ProcessInit, SetUpSoFar
<1>6. FeedsSoFar /\ WaysOut
  BY DEF ProcessInit, FeedsSoFar, WaysOut
<1> QED
  BY <1>4, <1>5, <1>6 DEF ProcessInv

\* A set-up step is the next one of the program.
LEMMA StepMovesOn ==
    ASSUME ProcessShape, NEW s, Step(s), binary' = binary
    PROVE  /\ Course' = Course /\ Behind \in Nat /\ Behind' = Behind + 1 /\ Behind + 1 \in 1 .. Len(Course)
           /\ setup' \in Seq(Steps) /\ s = Course[Behind + 1]
           /\ \A i \in 1 .. Len(setup') : setup'[i] = Course[i + Behind']
<1>1. Course' = Course
  BY DEF Course, Program, run_feeder_direct, run_feeder_buffered
<1>2. setup \in Seq(Steps) /\ setup # <<>> /\ s = Head(setup) /\ setup' = Tail(setup)
  BY DEF ProcessShape, Step
<1>3. /\ Len(setup) \in Nat /\ Len(setup) # 0 /\ setup' \in Seq(Steps) /\ Len(setup') = Len(setup) - 1
      /\ s = setup[1] /\ \A i \in 1 .. Len(setup') : setup'[i] = setup[i + 1]
  BY <1>2, HeadTailProperties, EmptySeq, LenProperties
<1>4. Course \in Seq(Steps) /\ Len(Course) \in Nat
  BY ProgramSteps DEF ProcessShape
<1>5. Behind \in Nat /\ \A i \in 1 .. Len(setup) : setup[i] = Course[i + Behind]
  BY DEF ProcessShape
<1> DEFINE l == Len(Course)
           n == Len(setup)
           m == Len(setup')
           b == Behind
<1>6. b = l - n /\ Behind' = l - m /\ m = n - 1 /\ n \in Nat /\ n # 0 /\ l \in Nat /\ b \in Nat
  BY <1>1, <1>3, <1>4, <1>5 DEF Behind
<1> HIDE DEF l, n, m, b
<1>7. Behind' = b + 1 /\ b + 1 \in 1 .. l /\ 1 \in 1 .. n
  BY <1>6
<1>8. s = Course[b + 1]
  BY <1>3, <1>5, <1>7 DEF n, b
<1>9. \A i \in 1 .. m : setup'[i] = Course[i + Behind']
  <2> TAKE i \in 1 .. m
  <2>1. i + 1 \in 1 .. n /\ (i + 1) + b = i + Behind'
    BY <1>6, <1>7
  <2> QED
    BY <1>3, <1>5, <2>1 DEF m, n, b
<1> QED
  BY <1>1, <1>3, <1>5, <1>7, <1>8, <1>9, Zenon DEF l, n, m, b

\* What a set-up step that is done, or that failed, leaves behind.
LEMMA SetUpGoesOn ==
    ASSUME ProcessInv, NEW s, Step(s), binary' = binary,
           life' \in {"starting", "running", "failed"}, life' = "running" => setup' = <<>>,
           life' # "failed" => /\ s \in Global => s \in globals'
                               /\ s = "log_file" => subscriber' # "none",
           globals \subseteq globals', globals' \subseteq globals \cup {s}, globals' # globals => s \in Global,
           subscriber' = subscriber \/ subscriber' = "file",
           feeds' \in [Selected -> {"none", "idle", "reading"}], holds' \in [Selected -> BOOLEAN]
    PROVE  ProcessShape' /\ SetUpSoFar'
<1>0. ProcessShape /\ SetUpSoFar /\ life = "starting"
  BY DEF ProcessInv, Step
<1>1. /\ Course' = Course /\ Behind \in Nat /\ Behind' = Behind + 1 /\ Behind + 1 \in 1 .. Len(Course)
      /\ setup' \in Seq(Steps) /\ s = Course[Behind + 1]
      /\ \A i \in 1 .. Len(setup') : setup'[i] = Course[i + Behind']
  BY <1>0, StepMovesOn
<1>2. ProcessShape'
  <2>1. Behind' \in Nat
    BY <1>1
  <2> QED
    BY <1>0, <1>1, <2>1 DEF ProcessShape
<1>3. binary \in {"feeder_direct", "feeder_buffered"}
  BY <1>0 DEF ProcessShape
<1>4. life' # "failed" => \A i \in 1 .. Behind' : Course'[i] \in Global => Course'[i] \in globals'
  <2> SUFFICES ASSUME life' # "failed", NEW i \in 1 .. Behind', Course[i] \in Global
               PROVE  Course[i] \in globals'
    BY <1>1
  <2>1. i \in 1 .. Behind \/ i = Behind + 1
    BY <1>1
  <2>2. CASE i \in 1 .. Behind
    BY <1>0, <2>2 DEF SetUpSoFar
  <2>3. CASE i = Behind + 1
    BY <1>1, <2>3
  <2> QED
    BY <2>1, <2>2, <2>3
<1>5. life' # "failed" => subscriber' # "none"
  <2>1. CASE Behind = 0
    <3>1. Course[1] = "log_file"
      BY <1>3, ProgramSteps
    <3>2. s = "log_file"
      BY <1>1, <2>1, <3>1
    <3> QED
      BY <3>2
  <2>2. CASE Behind # 0
    BY <1>0, <2>2 DEF SetUpSoFar
  <2> QED
    BY <2>1, <2>2
<1>6. binary = "feeder_buffered" => globals' \subseteq {"ordered_udp"}
  <2> SUFFICES ASSUME binary = "feeder_buffered", globals' # globals
               PROVE  globals' \subseteq {"ordered_udp"}
    BY <1>0 DEF SetUpSoFar
  <2>1. s = "ordered_udp"
    BY <1>1, <1>3, ProgramSteps
  <2> QED
    BY <1>0, <2>1 DEF SetUpSoFar
<1>7. subscriber' # "file and QuestDB"
  BY <1>0 DEF SetUpSoFar
<1> QED
  BY <1>2, <1>4, <1>5, <1>6, <1>7, Zenon DEF SetUpSoFar

\* The feeds find no less than they found.
LEMMA FeedsKeep ==
    ASSUME FeedsSoFar, binary' = binary, registered' = registered, holds' = holds, globals \subseteq globals',
           \A e \in Selected : feeds'[e] \in {feeds[e], "none"}
    PROVE  FeedsSoFar'
BY Zenon DEF FeedsSoFar

\* A step that publishes nothing.
LEMMA NothingPublished ==
    ASSUME WaysOut, routes' = routes, binary' = binary, subscriber' = subscriber \/ subscriber' = "file"
    PROVE  WaysOut'
BY DEF WaysOut

\* A global is set up.
LEMMA FillKeeps ==
    ASSUME ProcessInv, NEW s, FillGlobal(s)
    PROVE  ProcessInv'
<1>1. /\ Step(s) /\ s \in Global /\ globals' = globals \cup {s}
      /\ binary' = binary /\ life' = life /\ subscriber' = subscriber /\ registered' = registered
      /\ feeds' = feeds /\ holds' = holds /\ routes' = routes
  BY DEF FillGlobal
<1>2. ProcessShape /\ FeedsSoFar /\ WaysOut /\ life = "starting"
  BY <1>1 DEF ProcessInv, Step
<1>3. feeds' \in [Selected -> {"none", "idle", "reading"}] /\ holds' \in [Selected -> BOOLEAN]
  BY <1>1, <1>2 DEF ProcessShape
<1>4. s # "log_file"
  BY <1>1 DEF Global
<1>5. ProcessShape' /\ SetUpSoFar'
  BY <1>1, <1>2, <1>3, <1>4, SetUpGoesOn
<1>6. FeedsSoFar'
  BY <1>1, <1>2, FeedsKeep
<1>7. WaysOut'
  BY <1>1, <1>2, NothingPublished
<1> QED
  BY <1>5, <1>6, <1>7 DEF ProcessInv

\* The subscriber of the log is set up.
LEMMA LoggerKeeps ==
    ASSUME ProcessInv, init \/ init_with_questdb
    PROVE  ProcessInv'
<1>1. PICK s \in {"log_file", "questdb"} :
        /\ Step(s) /\ globals' = globals
        /\ binary' = binary /\ life' = life /\ registered' = registered
        /\ feeds' = feeds /\ holds' = holds /\ routes' = routes
        /\ subscriber' # "none"
        /\ subscriber' = subscriber \/ (subscriber = "none" /\ s = "log_file" /\ subscriber' = "file")
                                    \/ (subscriber = "none" /\ s = "questdb")
  BY DEF init, init_with_questdb, InitLogger
<1>2. ProcessShape /\ SetUpSoFar /\ FeedsSoFar /\ WaysOut /\ life = "starting"
  BY <1>1 DEF ProcessInv, Step
<1>3. s = "questdb" => subscriber # "none"
  <2>1. Behind \in Nat /\ s = Course[Behind + 1]
    BY <1>1, <1>2, StepMovesOn
  <2>2. Course[1] = "log_file"
    BY <1>2, ProgramSteps DEF ProcessShape
  <2>3. ASSUME Behind = 0
        PROVE  s = "log_file"
    <3>1. Behind + 1 = 1
      BY <2>3
    <3> QED
      BY <2>1, <2>2, <3>1
  <2> QED
    BY <1>2, <2>3 DEF SetUpSoFar
<1>4. subscriber' = subscriber \/ subscriber' = "file"
  BY <1>1, <1>3
<1>5. feeds' \in [Selected -> {"none", "idle", "reading"}] /\ holds' \in [Selected -> BOOLEAN]
  BY <1>1, <1>2 DEF ProcessShape
<1>6. s \notin Global
  BY DEF Global
<1>7. ProcessShape' /\ SetUpSoFar'
  BY <1>1, <1>2, <1>4, <1>5, <1>6, SetUpGoesOn
<1>8. FeedsSoFar'
  BY <1>1, <1>2, FeedsKeep
<1>9. WaysOut'
  BY <1>1, <1>2, <1>4, NothingPublished
<1> QED
  BY <1>7, <1>8, <1>9 DEF ProcessInv

\* A feed is spawned.
LEMMA SpawnFeedKeeps ==
    ASSUME ProcessInv, NEW e \in Selected, SpawnFeed(e)
    PROVE  ProcessInv'
<1>1. /\ Step(e) /\ globals' = globals /\ binary' = binary /\ life' = life /\ subscriber' = subscriber
      /\ holds' = holds /\ routes' = routes
      /\ feeds' = [feeds EXCEPT ![e] = "idle"]
      /\ registered' = IF e = "binance" /\ binary = "feeder_direct" /\ "init_hft" \in globals
                         THEN registered \cup {e} ELSE registered
  BY DEF SpawnFeed
<1>2. ProcessShape /\ SetUpSoFar /\ FeedsSoFar /\ WaysOut /\ life = "starting"
  BY <1>1 DEF ProcessInv, Step
<1>3. feeds' \in [Selected -> {"none", "idle", "reading"}] /\ holds' \in [Selected -> BOOLEAN]
  BY <1>1, <1>2 DEF ProcessShape
<1>4. e \notin Others
  BY ProcessAssumption DEF ProcessAssumption, Others
<1>5. e \notin Global /\ e # "log_file"
  BY <1>4 DEF Others, Fatal
<1>6. ProcessShape' /\ SetUpSoFar'
  BY <1>1, <1>2, <1>3, <1>5, SetUpGoesOn
<1>7. WaysOut'
  BY <1>1, <1>2, NothingPublished
<1>8. binary = "feeder_direct" => "multi_port" \in globals /\ "init_hft" \in globals
  <2> SUFFICES ASSUME binary = "feeder_direct"
               PROVE  "multi_port" \in globals /\ "init_hft" \in globals
    OBVIOUS
  <2>1. Behind \in Nat /\ e = Course[Behind + 1]
    BY <1>1, <1>2, StepMovesOn
  <2>2. Course[4] = "multi_port" /\ Course[5] = "init_hft" /\ \A i \in 1 .. 8 : Course[i] \in Others
    BY ProgramSteps
  <2>3. 4 \in 1 .. Behind /\ 5 \in 1 .. Behind
    BY <1>4, <2>1, <2>2
  <2>4. "multi_port" \in Global /\ "init_hft" \in Global
    BY DEF Global
  <2> QED
    BY <1>2, <2>2, <2>3, <2>4 DEF SetUpSoFar
<1>9. FeedsSoFar'
  <2> SUFFICES ASSUME NEW f \in Selected
               PROVE  IF binary = "feeder_direct"
                        THEN /\ feeds'[f] # "none" => "multi_port" \in globals /\ "init_hft" \in globals
                             /\ feeds'[f] # "none" /\ f = "binance" => f \in registered'
                             /\ feeds'[f] = "reading" /\ f \in Keepers => holds[f]
                        ELSE ~holds[f] /\ f \notin registered'
    BY <1>1 DEF FeedsSoFar
  <2>1. feeds'[f] = IF f = e THEN "idle" ELSE feeds[f]
    BY <1>1, <1>2 DEF ProcessShape
  <2> QED
    BY <1>1, <1>2, <1>8, <2>1 DEF FeedsSoFar
<1> QED
  BY <1>6, <1>7, <1>9 DEF ProcessInv

\* A step that the program goes on from.
LEMMA ContinueKeeps ==
    ASSUME ProcessInv, NEW s, Continue(s)
    PROVE  ProcessInv'
<1>1. /\ Step(s) /\ s \in {"exchanges", "symbol_mapper", "any_feed", "monitor"} /\ globals' = globals
      /\ binary' = binary /\ subscriber' = subscriber /\ registered' = registered
      /\ feeds' = feeds /\ holds' = holds /\ routes' = routes
      /\ life' \in {"starting", "running"} /\ (life' = "running" => setup' = <<>>)
  BY DEF Continue
<1>2. ProcessShape /\ FeedsSoFar /\ WaysOut
  BY DEF ProcessInv
<1>3. feeds' \in [Selected -> {"none", "idle", "reading"}] /\ holds' \in [Selected -> BOOLEAN]
  BY <1>1, <1>2 DEF ProcessShape
<1>4. s # "log_file" /\ s \notin Global
  BY <1>1 DEF Global
<1>5. ProcessShape' /\ SetUpSoFar'
  BY <1>1, <1>3, <1>4, SetUpGoesOn
<1>6. FeedsSoFar'
  BY <1>1, <1>2, FeedsKeep
<1>7. WaysOut'
  BY <1>1, <1>2, NothingPublished
<1> QED
  BY <1>5, <1>6, <1>7 DEF ProcessInv

\* A step fails: the program ends, or goes on without it.
LEMMA StepFailsKeeps ==
    ASSUME ProcessInv, NEW s, StepFails(s)
    PROVE  ProcessInv'
<1>1. /\ Step(s) /\ s \notin {"init_hft", "start_hft", "monitor"} /\ globals' = globals
      /\ binary' = binary /\ subscriber' = subscriber /\ registered' = registered
      /\ holds' = holds /\ routes' = routes
      /\ s \in Fatal => life' = "failed" /\ feeds' = [e \in Selected |-> "none"]
      /\ s \notin Fatal => life' = life /\ feeds' = feeds
  BY DEF StepFails
<1>2. ProcessShape /\ FeedsSoFar /\ WaysOut /\ life = "starting"
  BY <1>1 DEF ProcessInv, Step
<1>3. feeds' \in [Selected -> {"none", "idle", "reading"}] /\ holds' \in [Selected -> BOOLEAN]
  BY <1>1, <1>2 DEF ProcessShape
<1>4. life' # "failed" => s # "log_file" /\ s \notin Global
  BY <1>1 DEF Global, Fatal
<1>5. life' \in {"starting", "failed"}
  BY <1>1, <1>2
<1>6. ProcessShape' /\ SetUpSoFar'
  BY <1>1, <1>3, <1>4, <1>5, SetUpGoesOn
<1>7. \A e \in Selected : feeds'[e] \in {feeds[e], "none"}
  BY <1>1
<1>8. FeedsSoFar'
  BY <1>1, <1>2, <1>7, FeedsKeep
<1>9. WaysOut'
  BY <1>1, <1>2, NothingPublished
<1> QED
  BY <1>6, <1>8, <1>9 DEF ProcessInv

\* The set-up stands still.
LEMMA SetUpStays ==
    ASSUME ProcessInv, UNCHANGED <<binary, setup, globals, subscriber>>,
           life' = life \/ (life' \in {"stopping", "stopped"} /\ life \in {"running", "stopping"}),
           feeds' \in [Selected -> {"none", "idle", "reading"}], holds' \in [Selected -> BOOLEAN]
    PROVE  ProcessShape' /\ SetUpSoFar'
<1>1. Course' = Course /\ Behind' = Behind
  BY DEF Course, Behind, Program, run_feeder_direct, run_feeder_buffered
<1>2. ProcessShape /\ SetUpSoFar
  BY DEF ProcessInv
<1> QED
  BY <1>1, <1>2 DEF ProcessShape, SetUpSoFar

\* A feed begins to read.
LEMMA StartKeeps ==
    ASSUME ProcessInv, NEW e \in Selected, start(e)
    PROVE  ProcessInv'
<1> DEFINE held == holds[e] \/ (e \in Keepers /\ "multi_port" \in globals)
<1>1. /\ UNCHANGED <<binary, setup, globals, subscriber>> /\ life' = life /\ registered' = registered /\ routes' = routes
      /\ feeds[e] = "idle" /\ feeds' = [feeds EXCEPT ![e] = "reading"]
      /\ holds' = [holds EXCEPT ![e] = held]
  BY DEF start
<1>2. ProcessShape /\ SetUpSoFar /\ FeedsSoFar /\ WaysOut
  BY DEF ProcessInv
<1>3. held \in BOOLEAN
  OBVIOUS
<1>4. binary = "feeder_direct" /\ e \in Keepers => held
  BY <1>1, <1>2 DEF FeedsSoFar
<1>5. binary # "feeder_direct" => ~held
  <2> SUFFICES ASSUME binary # "feeder_direct"
               PROVE  ~holds[e] /\ "multi_port" \notin globals
    OBVIOUS
  <2>1. binary = "feeder_buffered"
    BY <1>2 DEF ProcessShape
  <2> QED
    BY <1>2, <2>1 DEF FeedsSoFar, SetUpSoFar
<1> HIDE DEF held
<1>6. feeds' \in [Selected -> {"none", "idle", "reading"}] /\ holds' \in [Selected -> BOOLEAN]
  BY <1>1, <1>2, <1>3 DEF ProcessShape
<1>7. ProcessShape' /\ SetUpSoFar'
  BY <1>1, <1>6, SetUpStays
<1>8. FeedsSoFar'
  <2> SUFFICES ASSUME NEW f \in Selected
               PROVE  IF binary = "feeder_direct"
                        THEN /\ feeds'[f] # "none" => "multi_port" \in globals /\ "init_hft" \in globals
                             /\ feeds'[f] # "none" /\ f = "binance" => f \in registered
                             /\ feeds'[f] = "reading" /\ f \in Keepers => holds'[f]
                        ELSE ~holds'[f] /\ f \notin registered
    BY <1>1 DEF FeedsSoFar
  <2>1. CASE f = e
    <3>1. feeds'[f] = "reading" /\ holds'[f] = held
      BY <1>1, <1>2, <2>1 DEF ProcessShape
    <3> QED
      BY <1>1, <1>2, <1>4, <1>5, <2>1, <3>1, Zenon DEF FeedsSoFar
  <2>2. CASE f # e
    <3>1. feeds'[f] = feeds[f] /\ holds'[f] = holds[f]
      BY <1>1, <1>2, <2>2 DEF ProcessShape
    <3> QED
      BY <1>2, <3>1, Zenon DEF FeedsSoFar
  <2> QED
    BY <2>1, <2>2
<1>9. WaysOut'
  BY <1>1, <1>2, NothingPublished
<1> QED
  BY <1>7, <1>8, <1>9 DEF ProcessInv

\* Feeds go back to rest, or end with the process.
LEMMA FeedsStopKeeps ==
    ASSUME ProcessInv, UNCHANGED <<binary, setup, globals, subscriber, registered, holds, routes>>,
           life' = life \/ (life' \in {"stopping", "stopped"} /\ life \in {"running", "stopping"}),
           feeds' \in [Selected -> {"none", "idle", "reading"}],
           \A e \in Selected : feeds'[e] = feeds[e] \/ feeds'[e] = "none" \/ (feeds'[e] = "idle" /\ feeds[e] = "reading")
    PROVE  ProcessInv'
<1>1. ProcessShape /\ FeedsSoFar /\ WaysOut
  BY DEF ProcessInv
<1>2. holds' \in [Selected -> BOOLEAN]
  BY <1>1 DEF ProcessShape
<1>3. ProcessShape' /\ SetUpSoFar'
  BY <1>2, SetUpStays
<1>4. FeedsSoFar'
  BY <1>1 DEF FeedsSoFar
<1>5. WaysOut'
  BY <1>1, NothingPublished
<1> QED
  BY <1>3, <1>4, <1>5 DEF ProcessInv

\* Something is published, and goes where it should.
LEMMA PublishKeeps ==
    ASSUME ProcessInv, NEW e, NEW kind, NEW via, PublishTo(e, kind, via),
           \/ e = "monitor" /\ via # "nowhere"
           \/ e # "monitor" /\ binary = "feeder_buffered" /\ via = "nowhere"
           \/ e # "monitor" /\ binary # "feeder_buffered" /\ via = (IF kind = "hft" THEN "ring" ELSE "multi_port")
    PROVE  ProcessInv'
<1>1. /\ UNCHANGED <<binary, setup, life, globals, subscriber, registered, feeds, holds>>
      /\ routes' = routes \cup {<<e, kind, via>>}
  BY DEF PublishTo
<1>2. ProcessShape /\ FeedsSoFar /\ WaysOut
  BY DEF ProcessInv
<1>3. feeds' \in [Selected -> {"none", "idle", "reading"}] /\ holds' \in [Selected -> BOOLEAN]
  BY <1>1, <1>2 DEF ProcessShape
<1>4. ProcessShape' /\ SetUpSoFar'
  BY <1>1, <1>3, SetUpStays
<1>5. FeedsSoFar'
  BY <1>1, <1>2, FeedsKeep
<1> DEFINE Right(r) ==
      IF r[1] = "monitor" THEN r[3] # "nowhere"
      ELSE r[3] = IF binary = "feeder_buffered" THEN "nowhere"
                  ELSE IF r[2] = "hft" THEN "ring" ELSE "multi_port"
<1>6. (\A r \in routes : Right(r)) /\ subscriber # "file and QuestDB"
  BY <1>2 DEF WaysOut
<1>7. Right(<<e, kind, via>>)
  <2>1. CASE e = "monitor"
    BY <2>1
  <2>2. CASE e # "monitor" /\ binary = "feeder_buffered"
    BY <2>2
  <2>3. CASE e # "monitor" /\ binary # "feeder_buffered"
    BY <2>3
  <2> QED
    BY <2>1, <2>2, <2>3
<1> HIDE DEF Right
<1>8. \A r \in routes' : Right(r)
  BY <1>1, <1>6, <1>7
<1>9. WaysOut'
  BY <1>1, <1>6, <1>8 DEF WaysOut, Right
<1> QED
  BY <1>4, <1>5, <1>9 DEF ProcessInv

\* In feeder_direct a feed that reads publishes to the ports, in feeder_buffered nowhere.
LEMMA ViaIs ==
    ASSUME ProcessInv, NEW e \in Selected, NEW kind \in {"trade", "book"}, feeds[e] = "reading"
    PROVE  Via(e, kind) = IF binary = "feeder_direct" THEN "multi_port" ELSE "nowhere"
<1>1. FeedsSoFar /\ SetUpSoFar /\ binary \in {"feeder_direct", "feeder_buffered"} /\ holds \in [Selected -> BOOLEAN]
  BY DEF ProcessInv, ProcessShape
<1>2. CASE binary = "feeder_direct"
  <2>1. "multi_port" \in globals /\ (e \in Keepers => holds[e])
    BY <1>1, <1>2 DEF FeedsSoFar
  <2>2. Dynamic = "multi_port"
    BY <2>1 DEF Dynamic, Else
  <2>3. e \in Keepers => Own(e) = "multi_port"
    BY <2>1 DEF Own
  <2> QED
    BY <1>2, <2>2, <2>3 DEF Via, Else, Keepers
<1>3. CASE binary = "feeder_buffered"
  <2>1. "multi_port" \notin globals /\ "binary_udp" \notin globals /\ ~holds[e]
    BY <1>1, <1>3 DEF FeedsSoFar, SetUpSoFar
  <2>2. Dynamic = "nowhere" /\ Own(e) = "nowhere"
    BY <2>1 DEF Dynamic, Else, Own
  <2> QED
    BY <1>3, <2>1, <2>2 DEF Via, Else
<1> QED
  BY <1>1, <1>2, <1>3

\* The monitor's global is filled when the set-up is over.
LEMMA MonitorHasGlobal ==
    ASSUME ProcessInv, life \in {"running", "stopping"}
    PROVE  (IF binary = "feeder_direct" THEN "binary_udp" ELSE "ordered_udp") \in globals
<1>1. /\ ProcessShape /\ setup = <<>> /\ binary \in {"feeder_direct", "feeder_buffered"}
      /\ \A i \in 1 .. Behind : Course[i] \in Global => Course[i] \in globals
  BY DEF ProcessInv, SetUpSoFar, ProcessShape
<1>2. Len(Course) \in Nat
  BY <1>1, ProgramSteps
<1>3. Behind = Len(Course)
  BY <1>1, <1>2 DEF Behind
<1>4. "binary_udp" \in Global /\ "ordered_udp" \in Global
  BY DEF Global
<1>5. CASE binary = "feeder_direct"
  <2>1. Len(Course) > 9 /\ Course[3] = "binary_udp"
    BY <1>5, ProgramSteps
  <2>2. 3 \in 1 .. Behind
    BY <1>2, <1>3, <2>1
  <2> QED
    BY <1>1, <1>4, <1>5, <2>1, <2>2
<1>6. CASE binary = "feeder_buffered"
  <2>1. PICK i \in 1 .. Behind : Course[i] = "ordered_udp"
    BY <1>3, <1>6, ProgramSteps
  <2> QED
    BY <1>1, <1>4, <1>6, <2>1
<1> QED
  BY <1>1, <1>5, <1>6

\* Every step of a program keeps the invariant.
LEMMA ProcessKeeps == ProcessInv /\ [ProcessNext]_hvars => ProcessInv'
<1> SUFFICES ASSUME ProcessInv, [ProcessNext]_hvars PROVE ProcessInv'
  OBVIOUS
<1>0. /\ binary \in {"feeder_direct", "feeder_buffered"} /\ feeds \in [Selected -> {"none", "idle", "reading"}]
      /\ ProcessShape /\ FeedsSoFar
  BY DEF ProcessInv, ProcessShape
<1>1. ASSUME NEW s, FillGlobal(s) \/ Continue(s) \/ StepFails(s)
      PROVE  ProcessInv'
  BY <1>1, FillKeeps, ContinueKeeps, StepFailsKeeps
<1>2. ASSUME NEW e \in Selected, RoundEnds(e)
      PROVE  ProcessInv'
  <2>1. /\ UNCHANGED <<binary, setup, life, globals, subscriber, registered, holds, routes>>
        /\ feeds[e] = "reading" /\ feeds' = [feeds EXCEPT ![e] = "idle"]
    BY <1>2 DEF RoundEnds
  <2>2. /\ feeds' \in [Selected -> {"none", "idle", "reading"}]
        /\ \A f \in Selected : feeds'[f] = feeds[f] \/ (feeds'[f] = "idle" /\ feeds[f] = "reading")
    BY <1>0, <2>1
  <2> QED
    BY <2>1, <2>2, FeedsStopKeeps
<1>3. ASSUME NEW e \in Selected, process_orderbook_update(e)
      PROVE  ProcessInv'
  <2> DEFINE via == IF e \in registered THEN "ring" ELSE "nowhere"
  <2>1. e = "binance" /\ feeds[e] = "reading" /\ PublishTo(e, "hft", via)
    BY <1>3 DEF process_orderbook_update
  <2>2. IF binary = "feeder_direct" THEN via = "ring" ELSE via = "nowhere"
    BY <1>0, <2>1 DEF FeedsSoFar
  <2> HIDE DEF via
  <2>5. e # "monitor"
    BY <2>1
  <2>3. CASE binary = "feeder_direct"
    BY <2>1, <2>2, <2>3, <2>5, PublishKeeps
  <2>4. CASE binary = "feeder_buffered"
    BY <2>1, <2>2, <2>4, <2>5, PublishKeeps
  <2> QED
    BY <1>0, <2>3, <2>4
<1>4. ASSUME NEW e \in Selected, NEW kind \in {"trade", "book"}, Publish(e, kind)
      PROVE  ProcessInv'
  <2>1. feeds[e] = "reading" /\ PublishTo(e, kind, Via(e, kind))
    BY <1>4 DEF Publish
  <2>2. Via(e, kind) = IF binary = "feeder_direct" THEN "multi_port" ELSE "nowhere"
    BY <2>1, ViaIs
  <2>3. e # "monitor" /\ kind # "hft"
    BY ProcessAssumption DEF ProcessAssumption
  <2> QED
    BY <1>0, <2>1, <2>2, <2>3, PublishKeeps
<1>5. CASE MonitorTick
  <2> DEFINE g == IF binary = "feeder_direct" THEN "binary_udp" ELSE "ordered_udp"
  <2>1. life \in {"running", "stopping"} /\ PublishTo("monitor", "status", Else("nowhere", g))
    BY <1>5 DEF MonitorTick
  <2>2. g \in globals /\ g # "nowhere"
    BY <2>1, MonitorHasGlobal
  <2>3. Else("nowhere", g) # "nowhere"
    BY <2>2 DEF Else
  <2> HIDE DEF g
  <2> DEFINE via == Else("nowhere", g)
  <2>4. PublishTo("monitor", "status", via) /\ via # "nowhere"
    BY <2>1, <2>3
  <2> HIDE DEF via
  <2> QED
    BY <2>4, PublishKeeps
<1>6. CASE TriggerShutdown \/ End
  <2>1. /\ UNCHANGED <<binary, setup, globals, subscriber, registered, holds, routes>>
        /\ life' \in {"stopping", "stopped"} /\ life \in {"running", "stopping"}
        /\ feeds' = feeds \/ feeds' = [e \in Selected |-> "none"]
    BY <1>6 DEF TriggerShutdown, End
  <2>2. feeds' \in [Selected -> {"none", "idle", "reading"}] /\ \A f \in Selected : feeds'[f] = feeds[f] \/ feeds'[f] = "none"
    BY <1>0, <2>1
  <2> QED
    BY <2>1, <2>2, FeedsStopKeeps
<1>7. CASE UNCHANGED hvars
  <2>1. UNCHANGED <<binary, setup, life, globals, subscriber, registered, feeds, holds, routes>>
    BY <1>7 DEF hvars
  <2> QED
    BY <1>0, <2>1, FeedsStopKeeps
<1> QED
  BY <1>1, <1>2, <1>3, <1>4, <1>5, <1>6, <1>7, LoggerKeeps, SpawnFeedKeeps, StartKeeps, Zenon DEF ProcessNext

\* For any selection of exchanges: what the feeds of feeder_direct publish goes to the ports
\* of their exchange and to the ring, never to the fallback or nowhere; from feeder_buffered,
\* which fills no global that feeds publish to, only the status of the connections leaves;
\* and neither program installs the QuestDB layer.
THEOREM EveryWayOutRight == ProcessSpec => []WaysOut
<1>1. ProcessInv => WaysOut
  BY DEF ProcessInv
<1> QED
  BY <1>1, ProcessStarts, ProcessKeeps, PTL DEF ProcessSpec

--------------------------------------------------------------------------------
(* Order management: the books of the fills.                               *)

OmsSpec == OmsInit /\ [][OmsNext]_ovars

Holding == [quantity : Int, cost : Nat, realized : Int]
Orders == [instrument : Instruments, side : {"Buy", "Sell"}, quantity : Nat,
           status : {"New", "Pending", "PartiallyFilled", "Filled", "Cancelled", "Rejected"}]

OmsShape ==
    /\ orders \in Seq(Orders)
    /\ position \in [Instruments -> Holding]
    /\ cash \in [Instruments -> Int]
    /\ performance.pnl \in Int

\* What instrument k has earned is in its cash and its position.
Balanced(k) == position[k].realized = cash[k] + Signum(position[k].quantity) * position[k].cost

OmsInv ==
    /\ OmsShape
    /\ \A k \in Instruments : position[k].quantity = 0 => position[k].cost = 0
    /\ \A k \in Instruments \ skewed : Balanced(k)
    /\ performance.pnl = TotalOf(Instruments, [k \in Instruments |-> position[k].realized])

\* Sign times size is the number.
LEMMA SignTimesSize ==
    ASSUME NEW x \in Int, NEW p \in Nat
    PROVE  /\ Signum(x) \in {1, -1} /\ p * Abs(x) \in Nat /\ Abs(x) * p \in Nat
           /\ Signum(x) * (p * Abs(x)) = p * x
           /\ (Abs(x) * p) * Signum(x) = p * x
<1>1. CASE x < 0
  <2>1. Abs(x) = -x /\ Signum(x) = -1
    BY <1>1 DEF Abs, Signum
  <2>2. (-1) * (p * (-x)) = p * x /\ ((-x) * p) * (-1) = p * x /\ p * (-x) \in Nat /\ (-x) * p \in Nat
    BY <1>1
  <2> QED
    BY <2>1, <2>2
<1>2. CASE ~(x < 0)
  <2>1. Abs(x) = x /\ Signum(x) = 1
    BY <1>2 DEF Abs, Signum
  <2>2. 1 * (p * x) = p * x /\ (x * p) * 1 = p * x /\ p * x \in Nat /\ x * p \in Nat
    BY <1>2
  <2> QED
    BY <2>1, <2>2
<1> QED
  BY <1>1, <1>2

\* A fill that closes or reverses a position realizes what it was worth.
LEMMA CrossingBalances ==
    ASSUME NEW q \in Int, NEW s \in Int, NEW p \in Nat, NEW c \in Nat, NEW m \in Int,
           q # 0, Signum(q) # Signum(q + s)
    PROVE  (m + Signum(q) * c) + (Abs(q) * p - c) * Signum(q)
             = (m - s * p) + Signum(q + s) * (IF q + s = 0 THEN 0 ELSE p * Abs(q + s))
<1> DEFINE new == q + s
           sg == Signum(q)
           a == Abs(q) * p
<1>1. new \in Int /\ sg \in {1, -1} /\ a \in Int /\ a * sg = p * q
  <2>1. sg \in {1, -1} /\ a \in Nat /\ a * sg = p * q
    BY SignTimesSize, Zenon
  <2> QED
    BY <2>1
<1>2. Signum(new) * (IF new = 0 THEN 0 ELSE p * Abs(new)) = p * new
  <2>1. CASE new = 0
    <3>1. Signum(new) * 0 = 0 /\ p * new = 0
      BY <2>1 DEF Signum
    <3> QED
      BY <2>1, <3>1
  <2>2. CASE new # 0
    <3>1. Signum(new) * (p * Abs(new)) = p * new
      BY <1>1, SignTimesSize, Zenon
    <3> QED
      BY <2>2, <3>1
  <2> QED
    BY <2>1, <2>2
<1> HIDE DEF sg, a
<1>3. sg * c + (a - c) * sg = a * sg
  <2>1. CASE sg = 1
    BY <1>1, <2>1
  <2>2. CASE sg = -1
    BY <1>1, <2>2
  <2> QED
    BY <1>1, <2>1, <2>2
<1>4. p * new = p * q + s * p
  OBVIOUS
<1> DEFINE x == sg * c
           y == (a - c) * sg
           pq == p * q
           sp == s * p
<1>5. x \in Int /\ y \in Int /\ pq \in Int /\ sp \in Int /\ x + y = pq /\ p * new = pq + sp
  BY <1>1, <1>3, <1>4
<1> HIDE DEF x, y, pq, sp
<1>6. (m + x) + y = (m - sp) + (pq + sp)
  BY <1>5
<1> QED
  BY <1>2, <1>5, <1>6 DEF sg, a, x, y, sp

\* A fill that opens a position or adds to it realizes nothing.
LEMMA AddingBalances ==
    ASSUME NEW q \in Int, NEW s \in Int, NEW p \in Nat, NEW c \in Nat, NEW m \in Int,
           ~(q * s < 0), q = 0 \/ Signum(q) = Signum(q + s), q = 0 => c = 0
    PROVE  m + Signum(q) * c
             = (m - s * p) + Signum(q + s) * (IF q + s = 0 THEN 0
                                              ELSE IF Signum(q) = Signum(q + s) THEN c + p * Abs((q + s) - q)
                                              ELSE p * Abs(q + s))
<1> DEFINE new == q + s
           sp == s * p
<1>0. new \in Int /\ sp \in Int /\ sp = p * s
  OBVIOUS
<1>1. CASE q = 0
  <2>1. new = s /\ c = 0 /\ Signum(q) = 1 /\ (q + s) - q = s
    BY <1>1 DEF Signum
  <2>2. Signum(new) * (IF new = 0 THEN 0 ELSE IF Signum(q) = Signum(new) THEN c + p * Abs((q + s) - q) ELSE p * Abs(new))
          = p * s
    <3>1. CASE s = 0
      BY <2>1, <3>1 DEF Signum
    <3>2. CASE s # 0
      <4>1. Signum(s) * (p * Abs(s)) = p * s /\ 0 + p * Abs(s) = p * Abs(s)
        <5>1. Signum(s) * (p * Abs(s)) = p * s /\ p * Abs(s) \in Nat
          BY SignTimesSize, Zenon
        <5> DEFINE w == p * Abs(s)
        <5> HIDE DEF w
        <5>2. 0 + w = w
          BY <5>1 DEF w
        <5> QED
          BY <5>1, <5>2 DEF w
      <4> QED
        BY <2>1, <3>2, <4>1
    <3> QED
      BY <3>1, <3>2
  <2> QED
    BY <1>0, <2>1, <2>2
<1>2. CASE q # 0
  <2> DEFINE sg == Signum(q)
  <2>1. sg = Signum(new) /\ new # 0 /\ sg \in {1, -1} /\ (q + s) - q = s
    <3>1. CASE q > 0
      <4>1. s >= 0
        BY <1>2, <3>1
      <4> QED
        BY <3>1, <4>1 DEF Signum
    <3>2. CASE q < 0
      <4>1. s <= 0
        BY <1>2, <3>2
      <4> QED
        BY <3>2, <4>1 DEF Signum
    <3> QED
      BY <1>2, <3>1, <3>2
  <2>2. sg * (p * Abs(s)) = p * s /\ p * Abs(s) \in Int
    <3>1. CASE s = 0
      BY <2>1, <3>1 DEF Abs
    <3>2. CASE s # 0
      <4>1. Signum(s) = sg
        <5>1. CASE q > 0
          <6>1. s >= 0
            BY <1>2, <5>1
          <6> QED
            BY <5>1, <6>1 DEF Signum
        <5>2. CASE q < 0
          <6>1. s <= 0
            BY <1>2, <5>2
          <6> QED
            BY <3>2, <5>2, <6>1 DEF Signum
        <5> QED
          BY <1>2, <5>1, <5>2
      <4> QED
        <5>1. Signum(s) * (p * Abs(s)) = p * s /\ p * Abs(s) \in Nat
          BY SignTimesSize, Zenon
        <5> QED
          BY <4>1, <5>1
    <3> QED
      BY <3>1, <3>2
  <2> DEFINE r == p * Abs(s)
  <2> HIDE DEF sg, r
  <2>3. sg * (c + r) = sg * c + p * s
    <3>1. CASE sg = 1
      BY <2>2, <3>1 DEF r
    <3>2. CASE sg = -1
      BY <2>2, <3>2 DEF r
    <3> QED
      BY <2>1, <3>1, <3>2
  <2>4. m + sg * c = (m - sp) + (sg * c + p * s)
    <3>1. sg * c \in Int
      BY <2>1
    <3> DEFINE x == sg * c
    <3> HIDE DEF x, sp
    <3> QED
      BY <1>0, <3>1 DEF x
  <2> QED
    BY <2>1, <2>3, <2>4 DEF sg, r
<1> QED
  BY <1>1, <1>2

\* What a fill does to the position of its instrument.
LEMMA FillBalances ==
    ASSUME OmsInv, NEW k \in Instruments, NEW s \in Int, NEW p \in Nat, update_position(k, s, p)
    PROVE  /\ position' \in [Instruments -> Holding] /\ cash' \in [Instruments -> Int] /\ performance'.pnl \in Int
           /\ \A i \in Instruments : position'[i].quantity = 0 => position'[i].cost = 0
           /\ \A i \in Instruments \ skewed' : Balanced(i)'
           /\ performance'.pnl = TotalOf(Instruments, [i \in Instruments |-> position'[i].realized])
<1> DEFINE pos == position[k]
           q == pos.quantity
           c == pos.cost
           r == pos.realized
           new == q + s
           crosses == Crosses(q, new)
           pnl == IF crosses THEN Profit(pos, p) ELSE 0
           cost == CostAfter(pos, new, p)
<1>1. /\ position' = [position EXCEPT ![k] = [quantity |-> new, cost |-> cost, realized |-> r + pnl]]
      /\ cash' = [cash EXCEPT ![k] = cash[k] - s * p]
      /\ skewed' = IF q * s < 0 /\ ~crosses THEN skewed \cup {k} ELSE skewed
      /\ IF crosses THEN performance'.pnl = performance.pnl + pnl ELSE performance' = performance
  BY DEF update_position, update_performance_metrics, OmsInv, OmsShape
<1>2. /\ position \in [Instruments -> Holding] /\ cash \in [Instruments -> Int] /\ performance.pnl \in Int
      /\ pos \in Holding /\ cash[k] \in Int
  BY DEF OmsInv, OmsShape
<1>3. /\ q \in Int /\ c \in Nat /\ r \in Int /\ new \in Int /\ s * p \in Int
  BY <1>2 DEF Holding
<1>4. /\ p * Abs(new) \in Nat /\ p * Abs(new - q) \in Nat /\ Abs(q) * p \in Nat /\ Signum(q) \in {1, -1}
  <2>1. new - q \in Int
    BY <1>3
  <2> QED
    BY <1>3, <2>1, SignTimesSize, Zenon
<1>5. cost = IF new = 0 THEN 0 ELSE IF Signum(q) = Signum(new) THEN c + p * Abs(new - q) ELSE p * Abs(new)
  BY DEF CostAfter
<1>6. pnl = IF crosses THEN (Abs(q) * p - c) * Signum(q) ELSE 0
  BY DEF Profit
<1>7. cost \in Nat /\ pnl \in Int /\ (new = 0 => cost = 0)
  <2> DEFINE a == p * Abs(new)
             b == p * Abs(new - q)
             d == Abs(q) * p
             sg == Signum(q)
  <2>1. a \in Nat /\ b \in Nat /\ d \in Nat /\ sg \in {1, -1}
    BY <1>4
  <2>2. cost = (IF new = 0 THEN 0 ELSE IF sg = Signum(new) THEN c + b ELSE a) /\ pnl = IF crosses THEN (d - c) * sg ELSE 0
    BY <1>5, <1>6
  <2> HIDE DEF a, b, d, sg, cost, pnl, new, c, crosses
  <2>3. (d - c) * sg \in Int
    BY <1>3, <2>1
  <2>4. c + b \in Nat
    BY <1>3, <2>1
  <2> QED
    BY <2>1, <2>2, <2>3, <2>4
<1> HIDE DEF pnl, cost, crosses
<1>8. /\ position'[k].quantity = new /\ position'[k].cost = cost /\ position'[k].realized = r + pnl
      /\ \A i \in Instruments : i # k => position'[i] = position[i]
      /\ position' \in [Instruments -> Holding]
  <2> DEFINE h == [quantity |-> new, cost |-> cost, realized |-> r + pnl]
  <2>1. r + pnl \in Int
    BY <1>3, <1>7
  <2> HIDE DEF new, r
  <2>2. h \in Holding /\ h.quantity = new /\ h.cost = cost /\ h.realized = r + pnl
    BY <1>3, <1>7, <2>1 DEF Holding
  <2>3. position' = [position EXCEPT ![k] = h]
    BY <1>1
  <2> HIDE DEF h
  <2>4. position'[k] = h /\ (\A i \in Instruments : i # k => position'[i] = position[i])
        /\ position' \in [Instruments -> Holding]
    BY <1>2, <2>2, <2>3
  <2> QED
    BY <2>2, <2>4
<1>9. /\ cash'[k] = cash[k] - s * p /\ (\A i \in Instruments : i # k => cash'[i] = cash[i])
      /\ cash' \in [Instruments -> Int]
  <2> DEFINE m == cash[k] - s * p
  <2>1. m \in Int
    BY <1>2, <1>3
  <2>2. cash' = [cash EXCEPT ![k] = m]
    BY <1>1
  <2> HIDE DEF m
  <2>3. cash'[k] = m /\ (\A i \in Instruments : i # k => cash'[i] = cash[i]) /\ cash' \in [Instruments -> Int]
    BY <1>2, <2>1, <2>2
  <2> QED
    BY <2>3 DEF m
<1>10. \A i \in Instruments : position'[i].quantity = 0 => position'[i].cost = 0
  <2> SUFFICES ASSUME NEW i \in Instruments, position'[i].quantity = 0 PROVE position'[i].cost = 0
    OBVIOUS
  <2>1. CASE i = k
    BY <1>7, <1>8, <2>1
  <2>2. CASE i # k
    BY <1>8, <2>2 DEF OmsInv
  <2> QED
    BY <2>1, <2>2
<1>11. ASSUME k \notin skewed' PROVE r + pnl = (cash[k] - s * p) + Signum(new) * cost
  <2>1. k \notin skewed /\ (q * s < 0 => crosses)
    BY <1>1, <1>11
  <2>2. r = cash[k] + Signum(q) * c
    BY <2>1 DEF OmsInv, Balanced
  <2>3. q = 0 => c = 0
    BY DEF OmsInv
  <2> DEFINE m == cash[k]
  <2>4. m \in Int
    BY <1>2
  <2>5. CASE crosses
    <3>1. q # 0 /\ Signum(q) # Signum(new)
      BY <2>5 DEF crosses, Crosses
    <3>2. pnl = (Abs(q) * p - c) * Signum(q) /\ cost = IF new = 0 THEN 0 ELSE p * Abs(new)
      BY <1>5, <1>6, <2>5, <3>1
    <3> HIDE DEF q, c, m
    <3>3. (m + Signum(q) * c) + (Abs(q) * p - c) * Signum(q)
            = (m - s * p) + Signum(q + s) * (IF q + s = 0 THEN 0 ELSE p * Abs(q + s))
      BY <1>3, <2>4, <3>1, CrossingBalances
    <3> HIDE DEF r
    <3> QED
      BY <2>2, <3>2, <3>3 DEF m
  <2>6. CASE ~crosses
    <3>1. q = 0 \/ Signum(q) = Signum(new)
      BY <2>6 DEF crosses, Crosses
    <3>2. pnl = 0 /\ ~(q * s < 0)
      BY <1>6, <2>1, <2>6
    <3>3. r + pnl = r
      BY <1>3, <3>2
    <3> HIDE DEF q, c, m
    <3>0. q \in Int /\ c \in Nat /\ m \in Int /\ ~(q * s < 0) /\ (q = 0 \/ Signum(q) = Signum(q + s)) /\ (q = 0 => c = 0)
      BY <1>3, <2>3, <2>4, <3>1, <3>2
    <3>4. m + Signum(q) * c
            = (m - s * p) + Signum(q + s) * (IF q + s = 0 THEN 0
                                             ELSE IF Signum(q) = Signum(q + s) THEN c + p * Abs((q + s) - q)
                                             ELSE p * Abs(q + s))
      BY <3>0, AddingBalances
    <3> HIDE DEF r
    <3> QED
      BY <1>5, <2>2, <3>3, <3>4 DEF m
  <2> QED
    BY <2>5, <2>6
<1>12. \A i \in Instruments \ skewed' : Balanced(i)'
  <2> SUFFICES ASSUME NEW i \in Instruments, i \notin skewed'
               PROVE  position'[i].realized = cash'[i] + Signum(position'[i].quantity) * position'[i].cost
    BY DEF Balanced
  <2>1. CASE i = k
    BY <1>8, <1>9, <1>11, <2>1
  <2>2. CASE i # k
    <3>1. i \notin skewed
      BY <1>1, <2>2
    <3>2. position'[i] = position[i] /\ cash'[i] = cash[i]
      BY <1>8, <1>9, <2>2
    <3> QED
      BY <3>1, <3>2 DEF OmsInv, Balanced
  <2> QED
    BY <2>1, <2>2
<1>13. performance'.pnl = performance.pnl + pnl /\ performance'.pnl \in Int
  <2>1. performance'.pnl = performance.pnl + pnl
    <3>1. CASE crosses
      BY <1>1, <3>1
    <3>2. CASE ~crosses
      <4>1. pnl = 0 /\ performance' = performance
        BY <1>1, <1>6, <3>2
      <4> QED
        BY <1>2, <4>1
    <3> QED
      BY <3>1, <3>2
  <2> QED
    BY <1>2, <1>7, <2>1
<1>14. performance'.pnl = TotalOf(Instruments, [i \in Instruments |-> position'[i].realized])
  <2> DEFINE f == [i \in Instruments |-> position[i].realized]
             g == [i \in Instruments |-> position'[i].realized]
  <2>1. f \in [Instruments -> Int] /\ g \in [Instruments -> Int]
    BY <1>2, <1>8 DEF Holding
  <2>2. g[k] = f[k] + pnl /\ f[k] \in Int /\ \A i \in Instruments : i # k => g[i] = f[i]
    BY <1>3, <1>8
  <2>3. performance.pnl = TotalOf(Instruments, f)
    BY DEF OmsInv
  <2>4. IsFiniteSet(Instruments)
    BY OmsAssumption
  <2> HIDE DEF f, g
  <2>5. TotalOf(Instruments, g) = TotalOf(Instruments, f) + (g[k] - f[k])
    BY <2>1, <2>2, <2>4, TotalChange
  <2>6. g[k] - f[k] = pnl
    BY <1>7, <2>2
  <2> QED
    BY <1>13, <2>3, <2>5, <2>6 DEF g
<1> QED
  BY <1>8, <1>9, <1>10, <1>12, <1>13, <1>14

\* The positions do not depend on the orders.
LEMMA OmsGoesOn ==
    ASSUME OmsInv, orders' \in Seq(Orders), UNCHANGED <<position, performance, cash, skewed>>
    PROVE  OmsInv'
<1>1. OmsShape'
  BY DEF OmsInv, OmsShape
<1>2. \A k \in Instruments \ skewed' : Balanced(k)'
  BY DEF OmsInv, Balanced
<1>3. performance'.pnl = TotalOf(Instruments, [k \in Instruments |-> position'[k].realized])
  BY DEF OmsInv
<1>4. \A k \in Instruments : position'[k].quantity = 0 => position'[k].cost = 0
  BY DEF OmsInv
<1> QED
  BY <1>1, <1>2, <1>3, <1>4 DEF OmsInv

\* An order is of an instrument, and of a size.
LEMMA OrdersOf ==
    ASSUME OmsInv, NEW id \in DOMAIN orders
    PROVE  /\ orders[id] \in Orders /\ orders[id].instrument \in Instruments /\ orders[id].side \in {"Buy", "Sell"}
           /\ \A status \in {"New", "Pending", "PartiallyFilled", "Filled", "Cancelled", "Rejected"} :
                [orders EXCEPT ![id].status = status] \in Seq(Orders)
<1>1. orders \in Seq(Orders) /\ id \in 1 .. Len(orders)
  BY DEF OmsInv, OmsShape
<1>2. orders[id] \in Orders
  BY <1>1, ElementOfSeq
<1>3. orders[id].instrument \in Instruments /\ orders[id].side \in {"Buy", "Sell"}
  BY <1>2 DEF Orders
<1>4. ASSUME NEW status \in {"New", "Pending", "PartiallyFilled", "Filled", "Cancelled", "Rejected"}
      PROVE  [orders EXCEPT ![id].status = status] \in Seq(Orders)
  <2> DEFINE o == [orders[id] EXCEPT !.status = status]
  <2>1. o \in Orders
    BY <1>2 DEF Orders
  <2>2. [orders EXCEPT ![id].status = status] = [orders EXCEPT ![id] = o]
    OBVIOUS
  <2> HIDE DEF o
  <2>3. [orders EXCEPT ![id] = o] \in Seq(Orders)
    BY <1>1, <2>1, ExceptSeq
  <2> QED
    BY <2>2, <2>3
<1> QED
  BY <1>2, <1>3, <1>4

\* The invariant holds at the start.
LEMMA OmsStarts == OmsInit => OmsInv
<1> SUFFICES ASSUME OmsInit PROVE OmsInv
  OBVIOUS
<1>1. OmsShape
  BY DEF OmsInit, OmsShape, Holding
<1>2. \A k \in Instruments : Balanced(k) /\ position[k].cost = 0
  BY DEF OmsInit, Balanced, Signum
<1>3. performance.pnl = TotalOf(Instruments, [k \in Instruments |-> position[k].realized])
  <2> DEFINE f == [k \in Instruments |-> position[k].realized]
  <2>1. f \in [Instruments -> Int] /\ \A k \in Instruments : f[k] = 0
    BY DEF OmsInit
  <2>2. IsFiniteSet(Instruments)
    BY OmsAssumption
  <2> HIDE DEF f
  <2>3. TotalOf(Instruments, f) = 0
    BY <2>1, <2>2, TotalZeros
  <2>4. performance.pnl = 0
    BY DEF OmsInit
  <2> QED
    BY <2>3, <2>4 DEF f
<1> QED
  BY <1>1, <1>2, <1>3 DEF OmsInv

\* Every operation keeps it.
LEMMA OmsSteps == OmsInv /\ [OmsNext]_ovars => OmsInv'
<1> SUFFICES ASSUME OmsInv, [OmsNext]_ovars PROVE OmsInv'
  OBVIOUS
<1>1. ASSUME NEW k \in Instruments, NEW side \in {"Buy", "Sell"}, NEW quantity \in OrderSizes,
             submit_order(k, side, quantity)
      PROVE  OmsInv'
  <2> DEFINE o == [instrument |-> k, side |-> side, quantity |-> quantity, status |-> "New"]
  <2>1. o \in Orders
    BY OmsAssumption DEF Orders
  <2>2. orders \in Seq(Orders) /\ orders' = Append(orders, o) /\ UNCHANGED <<position, performance, cash, skewed>>
    BY <1>1 DEF submit_order, OmsInv, OmsShape
  <2> HIDE DEF o
  <2>3. orders' \in Seq(Orders)
    BY <2>1, <2>2, AppendProperties
  <2> QED
    BY <2>2, <2>3, OmsGoesOn
<1>2. ASSUME NEW id \in DOMAIN orders, cancel_order(id) PROVE OmsInv'
  <2>1. orders' = [orders EXCEPT ![id].status = "Cancelled"] /\ UNCHANGED <<position, performance, cash, skewed>>
    BY <1>2 DEF cancel_order
  <2>2. [orders EXCEPT ![id].status = "Cancelled"] \in Seq(Orders)
    BY OrdersOf
  <2> QED
    BY <2>1, <2>2, OmsGoesOn
<1>3. ASSUME NEW id \in DOMAIN orders, NEW status \in {"Pending", "PartiallyFilled", "Cancelled", "Rejected"},
             NoteStatus(id, status)
      PROVE  OmsInv'
  <2>1. orders' = [orders EXCEPT ![id].status = status] /\ UNCHANGED <<position, performance, cash, skewed>>
    BY <1>3 DEF NoteStatus
  <2>2. [orders EXCEPT ![id].status = status] \in Seq(Orders)
    BY OrdersOf
  <2> QED
    BY <2>1, <2>2, OmsGoesOn
<1>4. ASSUME NEW id \in DOMAIN orders, NEW quantity \in OrderSizes, NEW price \in FillPrices,
             NoteFilled(id, quantity, price)
      PROVE  OmsInv'
  <2> DEFINE k == orders[id].instrument
             s == Signed(orders[id].side, quantity)
  <2>1. orders' = [orders EXCEPT ![id].status = "Filled"] /\ update_position(k, s, price)
    BY <1>4 DEF NoteFilled
  <2>2. k \in Instruments /\ [orders EXCEPT ![id].status = "Filled"] \in Seq(Orders)
    BY OrdersOf
  <2>3. s \in Int /\ price \in Nat
    BY OmsAssumption DEF Signed
  <2> HIDE DEF k, s
  <2>4. /\ position' \in [Instruments -> Holding] /\ cash' \in [Instruments -> Int] /\ performance'.pnl \in Int
        /\ \A i \in Instruments : position'[i].quantity = 0 => position'[i].cost = 0
        /\ \A i \in Instruments \ skewed' : Balanced(i)'
        /\ performance'.pnl = TotalOf(Instruments, [i \in Instruments |-> position'[i].realized])
    BY <2>1, <2>2, <2>3, FillBalances
  <2>5. OmsShape'
    BY <2>1, <2>2, <2>4 DEF OmsShape
  <2> QED
    BY <2>4, <2>5 DEF OmsInv
<1>5. ASSUME reset_daily_pnl \/ UNCHANGED ovars PROVE OmsInv'
  <2>1. UNCHANGED <<orders, position, performance, cash, skewed>>
    BY <1>5 DEF reset_daily_pnl, ovars
  <2>2. orders' \in Seq(Orders)
    BY <2>1 DEF OmsInv, OmsShape
  <2> QED
    BY <2>1, <2>2, OmsGoesOn
<1> QED
  BY <1>1, <1>2, <1>3, <1>4, <1>5 DEF OmsNext, update_order_status

\* Whatever the fills are, an instrument none of whose fills was taken for the
\* wrong kind has earned what its fills brought in and what its position cost, and
\* the metrics report the sum (update_position, update_performance_metrics).
THEOREM LedgersAlwaysBalance == OmsSpec => []LedgerBalances
<1>1. OmsInv => LedgerBalances
  BY DEF OmsInv, LedgerBalances, Balanced
<1> QED
  BY <1>1, OmsStarts, OmsSteps, PTL DEF OmsSpec

--------------------------------------------------------------------------------
(* The market maker: its orders and what it knows of them.                 *)

\* The market maker on its own.
MakerSpec == MakerInit /\ [][MakerNext]_kvars

\* The types of an order of the exchange and of one that is tracked.
ExchangeOrders == [side : {"Buy", "Sell"}, size : Nat, status : {"open", "filled", "cancelled"}]
TrackedOrders == [id : Nat, status : {"NEW", "OPEN", "FILLED", "CANCELED"}]

\* The ids of the tracked orders, and of the orders of which a batch was answered.
Ids(list) == {list[i].id : i \in DOMAIN list}
Heard(ids) == {ids[i] : i \in DOMAIN ids}

\* The orders of list and of ids are orders of the exchange, none of them twice; what list
\* takes for closed is closed.
Known(list, ids, there) ==
    /\ \A i \in DOMAIN list :
         /\ list[i].id \in DOMAIN there
         /\ list[i].status = "FILLED" => there[list[i].id].status = "filled"
         /\ list[i].status = "CANCELED" => there[list[i].id].status = "cancelled"
    /\ \A i, j \in DOMAIN list : i # j => list[i].id # list[j].id
    /\ \A i \in DOMAIN ids : ids[i] \in DOMAIN there
    /\ \A i, j \in DOMAIN ids : i # j => ids[i] # ids[j]
    /\ \A i \in DOMAIN list, j \in DOMAIN ids : list[i].id # ids[j]

\* What is bought and sold in all.
NetOf(there) == SumOf([i \in DOMAIN there |-> Bought(there[i])])

\* What an operation has left to do.
MakerTodo ==
    \/ running = "none" /\ todo = <<>>
    \/ running = "pair" /\ todo \in Seq(ExchangeOrders) /\ todo # <<>>
    \/ running = "batch" /\ todo \in Seq(ExchangeOrders)
    \/ running = "check" /\ todo \in Seq(DOMAIN placed) /\ todo # <<>>
    \/ running = "cleanup" /\ stage \in {"open", "cancel", "positions", "verify"} /\ todo = <<>>
    \/ /\ running = "cleanup" /\ stage = "close" /\ Net # 0
       /\ todo = <<Market(IF Net > 0 THEN "Sell" ELSE "Buy", Size(Net))>>

\* The types of the variables.
MakerShape ==
    /\ placed \in Seq(ExchangeOrders) /\ tracked \in Seq(TrackedOrders) /\ answers \in Seq(Nat)
    /\ failed \in BOOLEAN /\ failures \in BOOLEAN /\ swept \in BOOLEAN
    /\ MakerTodo

\* What is known is so; everything is known as long as no request failed; and what a cleanup has
\* seen to since it looked at the open orders and the positions.
MakerInv ==
    /\ MakerShape
    /\ Known(tracked, answers, placed)
    /\ running # "batch" => answers = <<>>
    /\ failed => running = "batch" \/ (running = "cleanup" /\ stage = "verify")
    /\ failures \/ failed \/ Ids(tracked) \cup Heard(answers) = DOMAIN placed
    /\ swept => Net = 0 /\ OpenAt(placed) = {} /\ running \notin {"pair", "batch"}
    /\ running = "cleanup" /\ stage \in {"positions", "close", "verify"} => OpenAt(placed) = {}
    /\ running = "cleanup" /\ stage = "verify" /\ ~failed => Net = 0

\* What is bought and sold in all is a number, with one more order that order more.
LEMMA NetGrows ==
    ASSUME NEW there \in Seq(ExchangeOrders), NEW o \in ExchangeOrders
    PROVE  /\ NetOf(there) \in Int /\ Bought(o) \in Int
           /\ NetOf(Append(there, o)) = NetOf(there) + Bought(o)
<1> DEFINE a == [i \in DOMAIN there |-> Bought(there[i])]
           b == [i \in DOMAIN Append(there, o) |-> Bought(Append(there, o)[i])]
           n == Len(there)
<1>1. \A x \in ExchangeOrders : Bought(x) \in Int
  BY DEF Bought, ExchangeOrders
<1>2. n \in Nat /\ DOMAIN there = 1 .. n /\ \A i \in 1 .. n : there[i] \in ExchangeOrders
  BY ElementOfSeq
<1>3. Len(Append(there, o)) = n + 1 /\ DOMAIN Append(there, o) = 1 .. n + 1
      /\ \A i \in 1 .. n + 1 : Append(there, o)[i] = IF i <= n THEN there[i] ELSE o
  BY AppendProperties, LenProperties
<1> HIDE DEF n
<1>4. a \in Seq(Int) /\ Len(a) = n /\ \A i \in 1 .. n : a[i] = Bought(there[i])
  BY <1>1, <1>2
<1>5. b \in Seq(Int) /\ Len(b) = n + 1 /\ \A i \in 1 .. n + 1 : b[i] = IF i <= n THEN a[i] ELSE Bought(o)
  <2>1. b \in [1 .. n + 1 -> Int] /\ \A i \in 1 .. n + 1 : b[i] = Bought(Append(there, o)[i])
    BY <1>1, <1>2, <1>3
  <2>2. b \in Seq(Int) /\ Len(b) = n + 1
    BY <1>2, <2>1
  <2> QED
    BY <1>2, <1>3, <1>4, <2>1, <2>2
<1> HIDE DEF a, b
<1>6. b = Append(a, Bought(o))
  <2> DEFINE c == Append(a, Bought(o))
  <2>1. c \in Seq(Int) /\ Len(c) = n + 1 /\ \A i \in 1 .. n + 1 : c[i] = IF i <= n THEN a[i] ELSE Bought(o)
    BY <1>1, <1>2, <1>4, AppendProperties
  <2> HIDE DEF c
  <2>2. \A i \in 1 .. n + 1 : b[i] = c[i]
    BY <1>5, <2>1
  <2>3. Len(b) = Len(c) /\ \A i \in 1 .. Len(b) : b[i] = c[i]
    BY <1>5, <2>1, <2>2
  <2>4. b = c
    BY <1>5, <2>1, <2>3, SeqEqual
  <2> QED
    BY <2>4 DEF c
<1> QED
  BY <1>1, <1>4, <1>6, SumType, SumOfAppend DEF NetOf, a, b

\* Orders that are cancelled leave it as it is.
LEMMA NetStays ==
    ASSUME NEW there, NEW new, DOMAIN new = DOMAIN there,
           \A i \in DOMAIN there : Bought(new[i]) = Bought(there[i])
    PROVE  NetOf(new) = NetOf(there)
<1>1. [i \in DOMAIN new |-> Bought(new[i])] = [i \in DOMAIN there |-> Bought(there[i])]
  BY Zenon
<1> QED
  BY <1>1, Zenon DEF NetOf

\* What is known stays so while orders are added or closed.
LEMMA KnownStays ==
    ASSUME NEW list, NEW ids, NEW there, NEW new, DOMAIN there \subseteq DOMAIN new,
           \A i \in DOMAIN there : there[i].status # "open" => new[i].status = there[i].status,
           Known(list, ids, there)
    PROVE  Known(list, ids, new)
<1>1. "filled" # "open" /\ "cancelled" # "open"
  OBVIOUS
<1> QED
  BY <1>1 DEF Known

\* new is old with one more element, at k.
Grown(new, old, k) ==
    /\ DOMAIN new = DOMAIN old \cup {k} /\ k \notin DOMAIN old
    /\ \A i \in DOMAIN old : new[i] = old[i]

\* A sequence with one more element.
LEMMA OneMore ==
    ASSUME NEW S, NEW s \in Seq(S), NEW x \in S, NEW new, new = Append(s, x), NEW k, k = Len(new)
    PROVE  new \in Seq(S) /\ k \in Nat /\ Grown(new, s, k) /\ new[k] = x
<1> DEFINE n == Len(s)
<1>1. n \in Nat /\ DOMAIN s = 1 .. n
  BY LenProperties
<1>2. new \in Seq(S) /\ k = n + 1 /\ DOMAIN new = 1 .. n + 1
      /\ \A i \in 1 .. n + 1 : new[i] = IF i <= n THEN s[i] ELSE x
  BY AppendProperties, LenProperties
<1> HIDE DEF n
<1> QED
  BY <1>1, <1>2 DEF Grown

\* An answer names the order that was added.
LEMMA AnswerKnown ==
    ASSUME NEW list, NEW ids, NEW there, NEW new, NEW k, NEW more, NEW m, Known(list, ids, there),
           Grown(new, there, k), Grown(more, ids, m), more[m] = k
    PROVE  Known(list, more, new)
<1>1. Known(list, ids, new)
  BY KnownStays DEF Grown
<1>2. /\ \A i \in DOMAIN list : list[i].id # k
      /\ \A i \in DOMAIN ids : ids[i] # k
  BY DEF Known, Grown
<1>3. \A i \in DOMAIN more : more[i] \in DOMAIN new
  BY <1>1 DEF Known, Grown
<1>4. \A i, j \in DOMAIN more : i # j => more[i] # more[j]
  BY <1>1, <1>2 DEF Known, Grown
<1>5. \A i \in DOMAIN list, j \in DOMAIN more : list[i].id # more[j]
  BY <1>1, <1>2 DEF Known, Grown
<1> QED
  BY <1>1, <1>3, <1>4, <1>5 DEF Known

\* And one more is heard of.
LEMMA HeardGrows ==
    ASSUME NEW ids, NEW k, NEW more, NEW m, Grown(more, ids, m), more[m] = k
    PROVE  Heard(more) = Heard(ids) \cup {k}
BY DEF Heard, Grown

\* Tracking the orders that were answered.
LEMMA TrackKnown ==
    ASSUME NEW list \in Seq(TrackedOrders), NEW ids \in Seq(Nat), NEW there, Known(list, ids, there)
    PROVE  LET l == track_orders(list, ids) IN
           /\ l \in Seq(TrackedOrders)
           /\ Known(l, <<>>, there)
           /\ Ids(l) = Ids(list) \cup Heard(ids)
<1> DEFINE added == [i \in DOMAIN ids |-> [id |-> ids[i], status |-> "NEW"]]
           l == list \o added
           n == Len(list)
           m == Len(ids)
<1>1. n \in Nat /\ DOMAIN list = 1 .. n /\ m \in Nat /\ DOMAIN ids = 1 .. m
      /\ \A i \in 1 .. m : ids[i] \in Nat
  BY LenProperties, ElementOfSeq
<1>2. added \in Seq(TrackedOrders) /\ Len(added) = m
      /\ \A i \in 1 .. m : added[i] = [id |-> ids[i], status |-> "NEW"]
  <2>1. \A i \in 1 .. m : [id |-> ids[i], status |-> "NEW"] \in TrackedOrders
    BY <1>1 DEF TrackedOrders
  <2> HIDE DEF m
  <2>2. added \in [1 .. m -> TrackedOrders]
    BY <1>1, <2>1
  <2> QED
    BY <1>1, <2>2
<1>10. n = Len(list)
  OBVIOUS
<1> HIDE DEF m, n, added
<1>3. l \in Seq(TrackedOrders) /\ Len(l) = n + m
      /\ \A i \in 1 .. n + m : l[i] = IF i <= n THEN list[i] ELSE added[i - n]
  BY <1>2, <1>10, TwoJoined
<1>4. DOMAIN l = 1 .. n + m
  BY <1>3, LenProperties
<1> HIDE DEF l
<1>5. \A i \in 1 .. n + m :
        \/ i \in DOMAIN list /\ l[i] = list[i]
        \/ i \notin DOMAIN list /\ i - n \in DOMAIN ids /\ l[i].id = ids[i - n] /\ l[i].status = "NEW"
  BY <1>1, <1>2, <1>3
<1>6. Known(l, <<>>, there)
  <2>1. \A i \in DOMAIN l :
          /\ l[i].id \in DOMAIN there
          /\ l[i].status = "FILLED" => there[l[i].id].status = "filled"
          /\ l[i].status = "CANCELED" => there[l[i].id].status = "cancelled"
    BY <1>4, <1>5 DEF Known
  <2>2. \A i, j \in DOMAIN l : i # j => l[i].id # l[j].id
    <3> SUFFICES ASSUME NEW i \in DOMAIN l, NEW j \in DOMAIN l, i # j PROVE l[i].id # l[j].id
      OBVIOUS
    <3>1. i - n # j - n /\ i \in 1 .. n + m /\ j \in 1 .. n + m
      BY <1>1, <1>4
    <3> QED
      BY <1>5, <3>1 DEF Known
  <2>3. DOMAIN <<>> = {}
    OBVIOUS
  <2> QED
    BY <2>1, <2>2, <2>3 DEF Known
<1>7. Ids(l) = Ids(list) \cup Heard(ids)
  <2>1. Ids(l) \subseteq Ids(list) \cup Heard(ids)
    BY <1>4, <1>5 DEF Ids, Heard
  <2>2. ASSUME NEW i \in DOMAIN list PROVE list[i].id \in Ids(l)
    <3>1. i \in 1 .. n + m /\ l[i] = list[i]
      BY <1>1, <1>3
    <3> QED
      BY <1>4, <3>1 DEF Ids
  <2>3. ASSUME NEW i \in DOMAIN ids PROVE ids[i] \in Ids(l)
    <3>1. i + n \in 1 .. n + m /\ ~(i + n <= n) /\ (i + n) - n = i
      BY <1>1
    <3>2. l[i + n].id = ids[i]
      BY <1>1, <1>2, <1>3, <3>1
    <3> QED
      BY <1>4, <3>1, <3>2 DEF Ids
  <2> QED
    BY <2>1, <2>2, <2>3 DEF Ids, Heard
<1> QED
  BY <1>3, <1>6, <1>7 DEF track_orders, l, added

\* Tracking the order that was just added.
LEMMA TrackOneKnown ==
    ASSUME NEW list \in Seq(TrackedOrders), NEW there, NEW new, NEW k \in Nat, Known(list, <<>>, there),
           Grown(new, there, k)
    PROVE  /\ track_order(list, k) \in Seq(TrackedOrders)
           /\ Known(track_order(list, k), <<>>, new)
           /\ Ids(track_order(list, k)) = Ids(list) \cup {k}
<1>1. /\ DOMAIN <<>> = {} /\ DOMAIN <<k>> = {1} /\ <<k>>[1] = k /\ <<k>> \in Seq(Nat)
      /\ Heard(<<>>) = {}
  BY DEF Heard
<1>3. Known(list, <<k>>, new) /\ Heard(<<k>>) = {k}
  <2> DEFINE none == <<>>
             one == <<k>>
  <2>1. Known(list, none, there) /\ Heard(none) = {} /\ Grown(one, none, 1) /\ one[1] = k
    BY <1>1 DEF Grown
  <2> HIDE DEF none, one
  <2>2. Known(list, one, new) /\ Heard(one) = Heard(none) \cup {k}
    <3>1. Known(list, one, new)
      BY <2>1, AnswerKnown
    <3>2. Heard(one) = Heard(none) \cup {k}
      BY <2>1, HeardGrows
    <3> QED
      BY <3>1, <3>2
  <2> QED
    BY <2>1, <2>2 DEF one
<1>4. track_order(list, k) \in Seq(TrackedOrders) /\ Known(track_order(list, k), <<>>, new)
      /\ Ids(track_order(list, k)) = Ids(list) \cup {k}
  BY <1>1, <1>3, TrackKnown DEF track_order
<1> QED
  BY <1>4

\* Noting the status of orders.
LEMMA UpdateKnown ==
    ASSUME NEW list \in Seq(TrackedOrders), NEW ids, NEW W, NEW status \in {"OPEN", "FILLED", "CANCELED"},
           NEW there, Known(list, ids, there),
           \A w \in W : /\ status = "FILLED" => there[w].status = "filled"
                        /\ status = "CANCELED" => there[w].status = "cancelled"
    PROVE  /\ update_orders(list, W, status) \in Seq(TrackedOrders)
           /\ Known(update_orders(list, W, status), ids, there)
<1> DEFINE l == update_orders(list, W, status)
           n == Len(list)
<1>1. n \in Nat /\ DOMAIN list = 1 .. n /\ \A i \in 1 .. n : list[i] \in TrackedOrders
  BY LenProperties, ElementOfSeq
<1> HIDE DEF n
<1>2. DOMAIN l = 1 .. n
      /\ \A i \in 1 .. n :
           \/ l[i] = list[i]
           \/ list[i].id \in W /\ l[i] = [list[i] EXCEPT !.status = status]
  BY <1>1 DEF update_orders
<1>3. \A i \in 1 .. n : [list[i] EXCEPT !.status = status] = [id |-> list[i].id, status |-> status]
  BY <1>1 DEF TrackedOrders
<1>10. l = [i \in 1 .. n |-> l[i]]
  BY <1>1 DEF update_orders
<1> HIDE DEF l
<1>4. \A i \in 1 .. n : /\ l[i] \in TrackedOrders /\ l[i].id = list[i].id
                        /\ \/ l[i].status = list[i].status
                           \/ list[i].id \in W /\ l[i].status = status
  <2> TAKE i \in 1 .. n
  <2>1. list[i] \in TrackedOrders
    BY <1>1
  <2>2. CASE l[i] = list[i]
    BY <2>1, <2>2
  <2>3. CASE list[i].id \in W /\ l[i] = [list[i] EXCEPT !.status = status]
    <3>1. l[i] = [id |-> list[i].id, status |-> status]
      BY <1>3, <2>3, Zenon
    <3>2. l[i] \in TrackedOrders
      BY <2>1, <3>1 DEF TrackedOrders
    <3> QED
      BY <2>3, <3>1, <3>2
  <2> QED
    BY <1>2, <2>2, <2>3
<1>5. l \in Seq(TrackedOrders)
  <2>1. l \in [1 .. n -> TrackedOrders]
    BY <1>4, <1>10
  <2> QED
    BY <1>1, <2>1
<1>6. Known(l, ids, there)
  BY <1>1, <1>2, <1>4 DEF Known
<1> QED
  BY <1>5, <1>6 DEF l

\* It leaves the ids alone.
LEMMA UpdateIds ==
    ASSUME NEW list \in Seq(TrackedOrders), NEW W, NEW status
    PROVE  Ids(update_orders(list, W, status)) = Ids(list)
<1> DEFINE l == update_orders(list, W, status)
           n == Len(list)
<1>1. n \in Nat /\ DOMAIN list = 1 .. n /\ \A i \in 1 .. n : list[i] \in TrackedOrders
  BY LenProperties, ElementOfSeq
<1> HIDE DEF n
<1>2. DOMAIN l = DOMAIN list
      /\ \A i \in 1 .. n : l[i] = list[i] \/ l[i] = [list[i] EXCEPT !.status = status]
  BY <1>1 DEF update_orders
<1>3. \A i \in 1 .. n : [list[i] EXCEPT !.status = status] = [id |-> list[i].id, status |-> status]
  BY <1>1 DEF TrackedOrders
<1> HIDE DEF l
<1>4. \A i \in DOMAIN list : l[i].id = list[i].id
  BY <1>1, <1>2, <1>3
<1> QED
  BY <1>2, <1>4 DEF l, Ids
\* No order, none tracked.
LEMMA MakerStarts == MakerInit => MakerInv
<1> SUFFICES ASSUME MakerInit PROVE MakerInv
  OBVIOUS
<1>1. placed = <<>> /\ tracked = <<>> /\ answers = <<>> /\ todo = <<>>
  BY DEF MakerInit
<1>2. DOMAIN placed = {} /\ DOMAIN tracked = {} /\ DOMAIN answers = {}
  BY <1>1
<1>3. MakerShape
  <2>1. MakerTodo
    BY <1>1 DEF MakerInit, MakerTodo
  <2>2. placed \in Seq(ExchangeOrders) /\ tracked \in Seq(TrackedOrders) /\ answers \in Seq(Nat)
    BY <1>1
  <2>3. failed \in BOOLEAN /\ failures \in BOOLEAN /\ swept \in BOOLEAN
    BY DEF MakerInit
  <2> QED
    BY <2>1, <2>2, <2>3 DEF MakerShape
<1>4. Known(tracked, answers, placed) /\ Ids(tracked) = {} /\ Heard(answers) = {}
  BY <1>2 DEF Known, Ids, Heard
<1> QED
  BY <1>1, <1>2, <1>3, <1>4 DEF MakerInit, MakerInv

\* A request either adds its order at the exchange or, when it is not answered, need not.
LEMMA SendAdds ==
    ASSUME MakerInv, NEW request \in ExchangeOrders, NEW answered \in BOOLEAN, send_order(request, answered),
           NEW k, k = Len(placed')
    PROVE  /\ placed' \in Seq(ExchangeOrders)
           /\ Known(tracked, answers, placed')
           /\ \/ placed' = placed /\ ~answered
              \/ /\ placed' = Append(placed, request)
                 /\ k \in Nat /\ Grown(placed', placed, k) /\ placed'[k] = request
<1>1. placed \in Seq(ExchangeOrders) /\ answers \in Seq(Nat) /\ Known(tracked, answers, placed)
  BY DEF MakerInv, MakerShape
<1>2. CASE placed' = placed /\ ~answered
  BY <1>1, <1>2
<1>3. CASE placed' = Append(placed, request)
  <2>1. placed' \in Seq(ExchangeOrders) /\ k \in Nat /\ Grown(placed', placed, k) /\ placed'[k] = request
    <3>1. placed' \in Seq(ExchangeOrders) /\ k \in Nat
      BY <1>1, <1>3, OneMore
    <3>2. Grown(placed', placed, k)
      BY <1>1, <1>3, OneMore
    <3>3. placed'[k] = request
      BY <1>1, <1>3, OneMore
    <3> QED
      BY <3>1, <3>2, <3>3
  <2>2. Known(tracked, answers, placed')
    BY <1>1, <2>1, KnownStays DEF Grown
  <2> QED
    BY <1>3, <2>1, <2>2
<1> QED
  BY <1>2, <1>3 DEF send_order

\* The exchange fills an order.
LEMMA OrderFillKeeps == ASSUME MakerInv, NEW i \in DOMAIN placed, Fill(i) PROVE MakerInv'
<1> DEFINE new == placed'
<1>1. /\ placed[i].status = "open" /\ placed' = [placed EXCEPT ![i].status = "filled"]
      /\ UNCHANGED <<tracked, running, stage, todo, answers, failed, failures, swept>>
  BY DEF Fill
<1>2. placed \in Seq(ExchangeOrders) /\ Known(tracked, answers, placed)
  BY DEF MakerInv, MakerShape
<1>3. placed[i] \in ExchangeOrders
  BY <1>2, ElementOfSeq
<1>4. [placed[i] EXCEPT !.status = "filled"] \in ExchangeOrders
  BY <1>3 DEF ExchangeOrders
<1>5. placed' \in Seq(ExchangeOrders) /\ DOMAIN placed' = DOMAIN placed
  BY <1>1, <1>2, <1>4
<1>6. \A j \in DOMAIN placed : j # i => placed'[j] = placed[j]
  BY <1>1
<1>7. Known(tracked, answers, placed')
  <2>1. \A j \in DOMAIN placed : placed[j].status # "open" => placed'[j].status = placed[j].status
    BY <1>1, <1>6
  <2>2. DOMAIN placed \subseteq DOMAIN placed'
    BY <1>5
  <2> QED
    BY <1>2, <2>1, <2>2, KnownStays
<1>8. OpenAt(placed) # {}
  BY <1>1 DEF OpenAt
<1>9. ~swept /\ ~(running = "cleanup" /\ stage \in {"positions", "close", "verify"})
  BY <1>8 DEF MakerInv
<1>10. MakerShape'
  BY <1>1, <1>5, <1>9 DEF MakerInv, MakerShape, MakerTodo
<1> QED
  BY <1>1, <1>5, <1>7, <1>9, <1>10 DEF MakerInv

\* An operation that ends, well or not.
LEMMA FinishKeeps ==
    ASSUME Finish, placed' \in Seq(ExchangeOrders), tracked' \in Seq(TrackedOrders),
           failures' \in BOOLEAN, swept' \in BOOLEAN, Known(tracked', <<>>, placed'),
           failures' \/ Ids(tracked') = DOMAIN placed',
           swept' => NetOf(placed') = 0 /\ OpenAt(placed') = {}
    PROVE  MakerInv'
<1>1. running' = "none" /\ todo' = <<>> /\ answers' = <<>> /\ failed' = FALSE
  BY DEF Finish
<1>2. answers' \in Seq(Nat) /\ MakerTodo'
  BY <1>1 DEF MakerTodo
<1>3. Heard(answers') = {} /\ Known(tracked', answers', placed')
  BY <1>1 DEF Heard
<1>4. MakerShape'
  BY <1>1, <1>2 DEF MakerShape
<1>5. Net' = NetOf(placed')
  BY DEF Net, NetOf
<1> QED
  BY <1>1, <1>3, <1>4, <1>5 DEF MakerInv

\* One that begins.
LEMMA BeginKeeps ==
    ASSUME MakerInv, NEW op \in {"pair", "batch", "check", "cleanup"}, NEW first, NEW items,
           Begin(op, first, items), UNCHANGED <<placed, tracked, failures>>, MakerTodo',
           swept' = swept \/ swept' = FALSE, op \in {"pair", "batch"} => swept' = FALSE,
           op = "cleanup" => first = "open"
    PROVE  MakerInv'
<1>1. /\ running = "none" /\ running' = op /\ stage' = first /\ answers' = <<>> /\ failed' = FALSE
      /\ UNCHANGED <<placed, tracked, failures>>
  BY DEF Begin
<1>2. answers = <<>> /\ failed = FALSE
  BY <1>1 DEF MakerInv, MakerShape
<1>3. MakerShape'
  BY <1>1, <1>2 DEF MakerInv, MakerShape
<1>4. Known(tracked', answers', placed') /\ Net' = Net /\ OpenAt(placed') = OpenAt(placed)
  BY <1>1, <1>2 DEF MakerInv, Net
<1>5. failures' \/ Ids(tracked') \cup Heard(answers') = DOMAIN placed'
  BY <1>1, <1>2 DEF MakerInv
<1>6. swept' => Net' = 0 /\ OpenAt(placed') = {} /\ running' \notin {"pair", "batch"}
  BY <1>1, <1>4 DEF MakerInv
<1> QED
  BY <1>1, <1>3, <1>4, <1>5, <1>6 DEF MakerInv

\* One that goes on to its next request.
LEMMA GoOnKeeps ==
    ASSUME MakerInv, running \in {"pair", "check"}, UNCHANGED <<running, stage, answers, failed, failures, swept>>,
           placed' \in Seq(ExchangeOrders), tracked' \in Seq(TrackedOrders), MakerTodo',
           Known(tracked', <<>>, placed'), failures \/ Ids(tracked') = DOMAIN placed',
           swept => NetOf(placed') = 0 /\ OpenAt(placed') = {}
    PROVE  MakerInv'
<1>1. answers = <<>>
  BY DEF MakerInv
<1>2. MakerShape'
  BY DEF MakerInv, MakerShape
<1>3. Heard(answers') = {} /\ Known(tracked', answers', placed')
  BY <1>1 DEF Heard
<1>4. Net' = NetOf(placed')
  BY DEF Net, NetOf
<1>5. ~failed
  BY DEF MakerInv
<1> QED
  BY <1>1, <1>2, <1>3, <1>4, <1>5 DEF MakerInv

\* An operation begins: nothing is placed yet.
LEMMA BeginningsKeep ==
    ASSUME MakerInv
    PROVE  /\ place_orders => MakerInv'
           /\ \A bids, asks \in 0 .. OrderLevels : PlaceBatch(bids, asks) => MakerInv'
           /\ check_order_status => MakerInv'
           /\ cleanup => MakerInv'
<1>1. ASSUME place_orders PROVE MakerInv'
  <2>1. /\ Begin("pair", "send", <<Limit("Buy"), Limit("Sell")>>) /\ swept' = FALSE
        /\ UNCHANGED <<placed, tracked, failures>>
    BY <1>1 DEF place_orders
  <2>2. Limit("Buy") \in ExchangeOrders /\ Limit("Sell") \in ExchangeOrders
    BY DEF Limit, ExchangeOrders
  <2>3. running' = "pair" /\ todo' = <<Limit("Buy"), Limit("Sell")>>
    BY <2>1 DEF Begin
  <2>4. todo' \in Seq(ExchangeOrders) /\ todo' # <<>>
    BY <2>2, <2>3
  <2>5. MakerTodo'
    BY <2>3, <2>4 DEF MakerTodo
  <2> QED
    BY <2>1, <2>5, BeginKeeps
<1>2. ASSUME NEW bids \in 0 .. OrderLevels, NEW asks \in 0 .. OrderLevels, PlaceBatch(bids, asks) PROVE MakerInv'
  <2> DEFINE items == [i \in 1 .. bids + asks |-> Limit(IF i <= bids THEN "Buy" ELSE "Sell")]
  <2>1. Begin("batch", "send", items) /\ swept' = FALSE /\ UNCHANGED <<placed, tracked, failures>>
    BY <1>2 DEF PlaceBatch
  <2>2. \A side \in {"Buy", "Sell"} : Limit(side) \in ExchangeOrders
    BY DEF Limit, ExchangeOrders
  <2>3. bids + asks \in Nat
    BY MakerAssumption DEF MakerAssumption
  <2>4. \A i \in 1 .. bids + asks : Limit(IF i <= bids THEN "Buy" ELSE "Sell") \in ExchangeOrders
    BY <2>2
  <2>5. items \in Seq(ExchangeOrders)
    BY <2>3, <2>4
  <2> HIDE DEF items
  <2>6. MakerTodo'
    BY <2>1, <2>5 DEF Begin, MakerTodo
  <2> QED
    BY <2>1, <2>6, BeginKeeps
<1>3. ASSUME check_order_status PROVE MakerInv'
  <2> DEFINE n == Len(tracked)
             items == [i \in 1 .. n |-> tracked[i].id]
  <2>1. Begin("check", "query", items) /\ tracked # <<>> /\ UNCHANGED <<placed, tracked, failures, swept>>
    BY <1>3 DEF check_order_status
  <2>2. tracked \in Seq(TrackedOrders) /\ Known(tracked, answers, placed)
    BY DEF MakerInv, MakerShape
  <2>3. n \in Nat /\ n # 0 /\ DOMAIN tracked = 1 .. n
    BY <2>1, <2>2, LenProperties, EmptySeq
  <2> HIDE DEF n
  <2>4. \A i \in 1 .. n : tracked[i].id \in DOMAIN placed
    BY <2>2, <2>3 DEF Known
  <2>5. items \in Seq(DOMAIN placed) /\ Len(items) = n
    BY <2>3, <2>4
  <2> HIDE DEF items
  <2>6. items # <<>>
    BY <2>3, <2>5
  <2>7. running' = "check" /\ todo' \in Seq(DOMAIN placed') /\ todo' # <<>>
    BY <2>1, <2>5, <2>6 DEF Begin
  <2>8. MakerTodo'
    BY <2>7 DEF MakerTodo
  <2> QED
    BY <2>1, <2>8, BeginKeeps
<1>4. ASSUME cleanup PROVE MakerInv'
  <2>1. Begin("cleanup", "open", <<>>) /\ UNCHANGED <<placed, tracked, failures, swept>>
    BY <1>4 DEF cleanup
  <2>2. MakerTodo'
    BY <2>1 DEF Begin, MakerTodo
  <2> QED
    BY <2>1, <2>2, BeginKeeps
<1> QED
  BY <1>1, <1>2, <1>3, <1>4

\* One request less.
LEMMA TodoGoesOn ==
    ASSUME NEW S, NEW q \in Seq(S), q # <<>>
    PROVE  Head(q) \in S /\ Tail(q) \in Seq(S) /\ (Len(q) # 1 => Tail(q) # <<>>)
<1>1. Len(q) \in Nat /\ Len(q) # 0
  BY EmptySeq, LenProperties
<1>2. Head(q) \in S /\ Tail(q) \in Seq(S) /\ Len(Tail(q)) = Len(q) - 1
  BY HeadTailProperties
<1> QED
  BY <1>1, <1>2

\* An order that was placed and is tracked.
LEMMA PlacedTracked ==
    ASSUME MakerInv, answers = <<>>, NEW o \in ExchangeOrders, send_order(o, TRUE),
           tracked' = track_order(tracked, Len(placed'))
    PROVE  /\ placed' = Append(placed, o) /\ placed' \in Seq(ExchangeOrders)
           /\ Grown(placed', placed, Len(placed')) /\ placed'[Len(placed')] = o
           /\ tracked' \in Seq(TrackedOrders)
           /\ Known(tracked', <<>>, placed')
           /\ failures \/ failed \/ Ids(tracked') = DOMAIN placed'
<1> DEFINE k == Len(placed')
<1>1. placed' = Append(placed, o)
  BY DEF send_order
<1>2. /\ placed \in Seq(ExchangeOrders) /\ tracked \in Seq(TrackedOrders) /\ Known(tracked, <<>>, placed)
      /\ failures \/ failed \/ Ids(tracked) = DOMAIN placed
  <2>1. Heard(answers) = {}
    BY DEF Heard
  <2> QED
    BY <2>1 DEF MakerInv, MakerShape
<1>3. placed' \in Seq(ExchangeOrders) /\ k \in Nat
  BY <1>1, <1>2, OneMore
<1>4. Grown(placed', placed, k)
  BY <1>1, <1>2, OneMore
<1>5. placed'[k] = o
  BY <1>1, <1>2, OneMore
<1> HIDE DEF k
<1>6. track_order(tracked, k) \in Seq(TrackedOrders)
  BY <1>2, <1>3, <1>4, TrackOneKnown
<1>7. Known(track_order(tracked, k), <<>>, placed')
  BY <1>2, <1>3, <1>4, TrackOneKnown
<1>8. Ids(track_order(tracked, k)) = Ids(tracked) \cup {k}
  BY <1>2, <1>3, <1>4, TrackOneKnown
<1>9. DOMAIN placed' = DOMAIN placed \cup {k}
  BY <1>4 DEF Grown
<1>10. tracked' = track_order(tracked, k)
  BY DEF k
<1> QED
  BY <1>1, <1>2, <1>3, <1>4, <1>5, <1>6, <1>7, <1>8, <1>9, <1>10 DEF k

\* A request of place_orders, after which its order is tracked.
LEMMA SendOfPairKeeps == ASSUME MakerInv, NEW answered \in BOOLEAN, SendOfPair(answered) PROVE MakerInv'
<1>1. running = "pair" /\ send_order(Head(todo), answered) /\ swept' = swept
  BY DEF SendOfPair
<1>2. todo \in Seq(ExchangeOrders) /\ todo # <<>> /\ answers = <<>> /\ ~swept /\ ~failed /\ failures \in BOOLEAN
  BY <1>1 DEF MakerInv, MakerShape, MakerTodo
<1>3. Head(todo) \in ExchangeOrders /\ Tail(todo) \in Seq(ExchangeOrders) /\ (Len(todo) # 1 => Tail(todo) # <<>>)
  BY <1>2, TodoGoesOn
<1>4. CASE ~answered
  <2>1. Finish /\ failures' = TRUE /\ tracked' = tracked
    BY <1>4 DEF SendOfPair, ReturnError
  <2>2. placed' \in Seq(ExchangeOrders) /\ Known(tracked, answers, placed')
    BY <1>1, <1>3, SendAdds
  <2>3. tracked \in Seq(TrackedOrders)
    BY DEF MakerInv, MakerShape
  <2>4. failures' \in BOOLEAN /\ failures' /\ swept' \in BOOLEAN /\ ~swept'
    BY <1>1, <1>2, <2>1 DEF MakerInv, MakerShape
  <2>5. Known(tracked', <<>>, placed') /\ tracked' \in Seq(TrackedOrders)
    BY <1>2, <2>1, <2>2, <2>3
  <2> QED
    BY <2>1, <2>2, <2>4, <2>5, FinishKeeps
<1>5. CASE answered
  <2>1. send_order(Head(todo), TRUE) /\ tracked' = track_order(tracked, Len(placed')) /\ failures' = failures
    BY <1>1, <1>5 DEF SendOfPair
  <2>2. /\ placed' \in Seq(ExchangeOrders) /\ tracked' \in Seq(TrackedOrders)
        /\ Known(tracked', <<>>, placed') /\ (failures \/ Ids(tracked') = DOMAIN placed')
    BY <1>2, <1>3, <2>1, PlacedTracked
  <2>3. CASE Len(todo) = 1
    <3>1. Finish
      BY <1>5, <2>3 DEF SendOfPair
    <3>2. failures' \in BOOLEAN /\ swept' \in BOOLEAN /\ ~swept' /\ (failures' \/ Ids(tracked') = DOMAIN placed')
      BY <1>1, <1>2, <2>1, <2>2 DEF MakerInv, MakerShape
    <3> QED
      BY <2>2, <3>1, <3>2, FinishKeeps
  <2>4. CASE Len(todo) # 1
    <3>1. todo' = Tail(todo) /\ UNCHANGED <<running, stage, answers, failed>>
      BY <1>5, <2>4 DEF SendOfPair
    <3>2. MakerTodo'
      BY <1>1, <1>3, <2>4, <3>1 DEF MakerTodo
    <3> QED
      BY <1>1, <1>2, <2>1, <2>2, <3>1, <3>2, GoOnKeeps
  <2> QED
    BY <2>3, <2>4
<1> QED
  BY <1>4, <1>5
\* What is left when one of the requests is taken out.
LEMMA RemoveAtType ==
    ASSUME NEW S, NEW q \in Seq(S), NEW i \in DOMAIN q PROVE RemoveAt(q, i) \in Seq(S)
<1> DEFINE n == Len(q)
<1>1. n \in Nat /\ i \in 1 .. n /\ \A j \in 1 .. n : q[j] \in S
  BY LenProperties, ElementOfSeq
<1> HIDE DEF n
<1>2. SubSeq(q, 1, i - 1) \in Seq(S) /\ SubSeq(q, i + 1, n) \in Seq(S)
  <2>1. \A j \in 1 .. i - 1 : q[j] \in S
    BY <1>1
  <2>2. \A j \in i + 1 .. n : q[j] \in S
    BY <1>1
  <2> QED
    BY <1>1, <2>1, <2>2, SubSeqProperties DEF n
<1> QED
  BY <1>2, ConcatProperties DEF RemoveAt, n

\* A request of a batch, whose answer is kept until the batch ends.
LEMMA SendOfBatchKeeps ==
    ASSUME MakerInv, NEW i \in 1 .. 2 * OrderLevels, NEW answered \in BOOLEAN, SendOfBatch(i, answered)
    PROVE  MakerInv'
<1> DEFINE k == Len(placed')
<1>1. /\ running = "batch" /\ i \in DOMAIN todo /\ send_order(todo[i], answered)
      /\ todo' = RemoveAt(todo, i)
      /\ answers' = (IF answered THEN Append(answers, k) ELSE answers)
      /\ failed' = (failed \/ ~answered)
      /\ UNCHANGED <<tracked, running, stage, failures, swept>>
  BY DEF SendOfBatch
<1>2. /\ todo \in Seq(ExchangeOrders) /\ answers \in Seq(Nat) /\ placed \in Seq(ExchangeOrders)
      /\ Known(tracked, answers, placed)
  BY <1>1 DEF MakerInv, MakerShape, MakerTodo
<1>3. ~swept /\ tracked \in Seq(TrackedOrders)
  BY <1>1 DEF MakerInv, MakerShape
<1>4. todo[i] \in ExchangeOrders
  BY <1>1, <1>2, ElementOfSeq
<1>5. MakerTodo'
  BY <1>1, <1>2, RemoveAtType DEF MakerTodo
<1>6. failed' \in BOOLEAN /\ failures' \in BOOLEAN /\ swept' \in BOOLEAN /\ ~swept'
  BY <1>1, <1>3 DEF MakerInv, MakerShape
<1>7. CASE ~answered
  <2>1. answers' = answers /\ failed'
    BY <1>1, <1>7
  <2>2. placed' \in Seq(ExchangeOrders) /\ Known(tracked, answers, placed')
    BY <1>1, <1>4, SendAdds
  <2>3. MakerShape'
    BY <1>1, <1>2, <1>3, <1>5, <1>6, <2>1, <2>2 DEF MakerShape
  <2> QED
    BY <1>1, <1>6, <2>1, <2>2, <2>3 DEF MakerInv
<1>8. CASE answered
  <2>1. answers' = Append(answers, k) /\ failed' = failed /\ placed' = Append(placed, todo[i])
    BY <1>1, <1>6, <1>8 DEF send_order, MakerInv, MakerShape
  <2>2. placed' \in Seq(ExchangeOrders) /\ k \in Nat
    BY <1>2, <1>4, <2>1, OneMore
  <2>3. Grown(placed', placed, k)
    BY <1>2, <1>4, <2>1, OneMore
  <2> HIDE DEF k
  <2>4. answers' \in Seq(Nat)
    BY <1>2, <2>1, <2>2, OneMore
  <2>5. Grown(answers', answers, Len(answers'))
    BY <1>2, <2>1, <2>2, OneMore
  <2>6. answers'[Len(answers')] = k
    BY <1>2, <2>1, <2>2, OneMore
  <2>7. Known(tracked, answers', placed')
    BY <1>2, <2>3, <2>5, <2>6, AnswerKnown
  <2>8. Heard(answers') = Heard(answers) \cup {k}
    BY <2>5, <2>6, HeardGrows
  <2>9. MakerShape'
    BY <1>1, <1>3, <1>5, <1>6, <2>2, <2>4 DEF MakerShape
  <2>10. failures' \/ failed' \/ Ids(tracked') \cup Heard(answers') = DOMAIN placed'
    <3>1. DOMAIN placed' = DOMAIN placed \cup {k} /\ tracked' = tracked
      BY <1>1, <2>3 DEF Grown
    <3>2. failures \/ failed \/ Ids(tracked) \cup Heard(answers) = DOMAIN placed
      BY DEF MakerInv
    <3> QED
      BY <1>1, <2>1, <2>8, <3>1, <3>2
  <2> QED
    BY <1>1, <1>6, <2>7, <2>9, <2>10 DEF MakerInv
<1> QED
  BY <1>7, <1>8

\* The batch ends: all its answers are tracked, or none.
LEMMA send_multiple_ordersKeeps == ASSUME MakerInv, send_multiple_orders PROVE MakerInv'
<1>1. running = "batch" /\ UNCHANGED <<placed, swept>>
  BY DEF send_multiple_orders
<1>2. /\ placed \in Seq(ExchangeOrders) /\ tracked \in Seq(TrackedOrders) /\ answers \in Seq(Nat)
      /\ Known(tracked, answers, placed)
  BY DEF MakerInv, MakerShape
<1>3. swept' \in BOOLEAN /\ ~swept' /\ failures \in BOOLEAN /\ failed \in BOOLEAN
  BY <1>1 DEF MakerInv, MakerShape
<1>4. CASE failed
  <2>1. Finish /\ failures' = TRUE /\ tracked' = tracked
    BY <1>4 DEF send_multiple_orders, ReturnError
  <2>2. Known(tracked', <<>>, placed')
    BY <1>1, <1>2, <2>1 DEF Known
  <2> QED
    BY <1>1, <1>2, <1>3, <2>1, <2>2, FinishKeeps
<1>5. CASE ~failed
  <2>1. Finish /\ failures' = failures /\ tracked' = track_orders(tracked, answers)
    BY <1>5 DEF send_multiple_orders
  <2>2. tracked' \in Seq(TrackedOrders)
    BY <1>2, <2>1, TrackKnown
  <2>3. Known(tracked', <<>>, placed')
    BY <1>1, <1>2, <2>1, TrackKnown
  <2>4. Ids(tracked') = Ids(tracked) \cup Heard(answers)
    BY <1>2, <2>1, TrackKnown
  <2>5. failures' \/ Ids(tracked') = DOMAIN placed'
    BY <1>1, <1>5, <2>1, <2>4 DEF MakerInv
  <2> QED
    BY <1>1, <1>2, <1>3, <2>1, <2>2, <2>3, <2>5, FinishKeeps
<1> QED
  BY <1>4, <1>5

\* The status of one order is noted.
LEMMA QueryNextKeeps == ASSUME MakerInv, NEW answered \in BOOLEAN, QueryNext(answered) PROVE MakerInv'
<1>1. running = "check" /\ UNCHANGED <<placed, swept>>
  BY DEF QueryNext
<1>2. todo \in Seq(DOMAIN placed) /\ todo # <<>> /\ answers = <<>>
  BY <1>1 DEF MakerInv, MakerShape, MakerTodo
<1>3. /\ placed \in Seq(ExchangeOrders) /\ tracked \in Seq(TrackedOrders) /\ Known(tracked, <<>>, placed)
  BY <1>2 DEF MakerInv, MakerShape
<1>4. ~failed /\ failures \in BOOLEAN /\ swept \in BOOLEAN
  BY <1>1 DEF MakerInv, MakerShape
<1>5. failures \/ Ids(tracked) = DOMAIN placed
  <2>1. Heard(answers) = {}
    BY <1>2 DEF Heard
  <2> QED
    BY <1>4, <2>1 DEF MakerInv
<1>6. swept => NetOf(placed) = 0 /\ OpenAt(placed) = {}
  BY DEF MakerInv, Net, NetOf
<1>7. Head(todo) \in DOMAIN placed /\ Tail(todo) \in Seq(DOMAIN placed) /\ (Len(todo) # 1 => Tail(todo) # <<>>)
  BY <1>2, TodoGoesOn
<1>8. CASE ~answered
  <2>1. Finish /\ failures' = TRUE /\ tracked' = tracked
    BY <1>8 DEF QueryNext, ReturnError
  <2> QED
    BY <1>1, <1>3, <1>4, <1>6, <2>1, FinishKeeps
<1>9. CASE answered
  <2> DEFINE id == Head(todo)
             status == query_order_status(id)
  <2>1. tracked' = update_orders(tracked, {id}, status) /\ failures' = failures
    BY <1>9 DEF QueryNext, update_order
  <2>2. placed[id] \in ExchangeOrders
    BY <1>3, <1>7, ElementOfSeq
  <2>3. /\ status \in {"OPEN", "FILLED", "CANCELED"}
        /\ status = "FILLED" => placed[id].status = "filled"
        /\ status = "CANCELED" => placed[id].status = "cancelled"
    BY <2>2 DEF query_order_status, ExchangeOrders
  <2> HIDE DEF status, id
  <2>4. tracked' \in Seq(TrackedOrders)
    BY <1>3, <2>1, <2>3, UpdateKnown
  <2>5. Known(tracked', <<>>, placed)
    BY <1>3, <2>1, <2>3, UpdateKnown
  <2>6. Ids(tracked') = Ids(tracked)
    <3>2. Ids(update_orders(tracked, {id}, status)) = Ids(tracked)
      BY <1>3, <2>3, UpdateIds
    <3> QED
      BY <2>1, <3>2
  <2>7. /\ failures' \in BOOLEAN /\ swept' \in BOOLEAN /\ (failures' \/ Ids(tracked') = DOMAIN placed')
        /\ swept' => NetOf(placed') = 0 /\ OpenAt(placed') = {}
    BY <1>1, <1>4, <1>5, <1>6, <2>1, <2>6
  <2>8. CASE Len(todo) = 1
    <3>1. Finish
      BY <1>9, <2>8 DEF QueryNext
    <3> QED
      BY <1>1, <1>3, <2>4, <2>5, <2>7, <3>1, FinishKeeps
  <2>9. CASE Len(todo) # 1
    <3>1. todo' = Tail(todo) /\ UNCHANGED <<running, stage, answers, failed>>
      BY <1>9, <2>9 DEF QueryNext
    <3>2. MakerTodo'
      BY <1>1, <1>7, <2>9, <3>1 DEF MakerTodo
    <3> QED
      BY <1>1, <1>3, <2>1, <2>4, <2>5, <2>7, <3>1, <3>2, GoOnKeeps
  <2> QED
    BY <2>8, <2>9
<1> QED
  BY <1>8, <1>9
\* A step of cleanup that goes on and places nothing.
LEMMA CleanupGoesOn ==
    ASSUME MakerInv, running = "cleanup", ~failed,
           stage' \in {"positions", "cancel", "close"}, MakerTodo',
           UNCHANGED <<running, answers, failed, failures, swept>>,
           placed' \in Seq(ExchangeOrders), NetOf(placed') = NetOf(placed),
           OpenAt(placed) = {} => OpenAt(placed') = {},
           stage' # "cancel" => OpenAt(placed') = {},
           DOMAIN placed' = DOMAIN placed, tracked' \in Seq(TrackedOrders),
           Known(tracked', <<>>, placed'), Ids(tracked') = Ids(tracked)
    PROVE  MakerInv'
<1>1. answers = <<>> /\ answers' = answers
  BY DEF MakerInv
<1>2. MakerShape'
  BY DEF MakerInv, MakerShape
<1>3. failures' \/ failed' \/ Ids(tracked') \cup Heard(answers') = DOMAIN placed'
  BY <1>1 DEF MakerInv
<1>4. Net = NetOf(placed) /\ Net' = NetOf(placed')
  BY DEF Net, NetOf
<1>5. swept' => Net' = 0 /\ OpenAt(placed') = {} /\ running' \notin {"pair", "batch"}
  BY <1>4 DEF MakerInv
<1> QED
  BY <1>1, <1>2, <1>3, <1>5 DEF MakerInv

\* What cleanup knows at each of its steps.
LEMMA CleanupKnows ==
    ASSUME MakerInv, running = "cleanup"
    PROVE  /\ placed \in Seq(ExchangeOrders) /\ tracked \in Seq(TrackedOrders) /\ answers = <<>>
           /\ Known(tracked, <<>>, placed)
           /\ failures \in BOOLEAN /\ swept \in BOOLEAN /\ failed \in BOOLEAN
           /\ failed => stage = "verify"
           /\ failures \/ failed \/ Ids(tracked) = DOMAIN placed
           /\ swept => NetOf(placed) = 0 /\ OpenAt(placed) = {}
           /\ Net = NetOf(placed) /\ NetOf(placed) \in Int
<1>1. answers = <<>> /\ Heard(answers) = {}
  BY DEF MakerInv, Heard
<1>2. Net = NetOf(placed)
  BY DEF Net, NetOf
<1>3. placed \in Seq(ExchangeOrders) /\ Limit("Buy") \in ExchangeOrders
  BY DEF MakerInv, MakerShape, Limit, ExchangeOrders
<1>4. NetOf(placed) \in Int
  BY <1>3, NetGrows
<1> QED
  BY <1>1, <1>2, <1>4 DEF MakerInv, MakerShape

\* An error of a step of cleanup that placed nothing.
LEMMA CleanupFails ==
    ASSUME MakerInv, running = "cleanup", ReturnError, UNCHANGED <<tracked, swept>>,
           placed' \in Seq(ExchangeOrders), Known(tracked, <<>>, placed'),
           NetOf(placed') = NetOf(placed), OpenAt(placed) = {} => OpenAt(placed') = {}
    PROVE  MakerInv'
<1>1. Finish /\ failures' = TRUE
  BY DEF ReturnError
<1>2. /\ tracked' \in Seq(TrackedOrders) /\ Known(tracked', <<>>, placed') /\ swept' \in BOOLEAN
      /\ swept' => NetOf(placed') = 0 /\ OpenAt(placed') = {}
  BY CleanupKnows
<1> QED
  BY <1>1, <1>2, FinishKeeps

\* cleanup looks for open orders.
LEMMA get_open_ordersKeeps == ASSUME MakerInv, NEW answered \in BOOLEAN, get_open_orders(answered) PROVE MakerInv'
<1>1. running = "cleanup" /\ stage = "open" /\ UNCHANGED <<placed, tracked, swept>>
  BY DEF get_open_orders
<1>2. todo = <<>>
  BY <1>1 DEF MakerInv, MakerShape, MakerTodo
<1>3. CASE ~answered
  <2>1. ReturnError
    BY <1>3 DEF get_open_orders
  <2> QED
    BY <1>1, <2>1, CleanupKnows, CleanupFails
<1>4. CASE answered
  <2>1. /\ stage' = (IF OpenAt(placed) = {} THEN "positions" ELSE "cancel")
        /\ UNCHANGED <<running, todo, answers, failed, failures>>
    BY <1>4 DEF get_open_orders
  <2>2. MakerTodo'
    BY <1>1, <1>2, <2>1 DEF MakerTodo
  <2>3. stage' # "cancel" => OpenAt(placed') = {}
    BY <1>1, <2>1
  <2> QED
    BY <1>1, <2>1, <2>2, <2>3, CleanupKnows, CleanupGoesOn
<1> QED
  BY <1>3, <1>4

\* It cancels them, which leaves the position as it is.
LEMMA cancel_all_ordersKeeps ==
    ASSUME MakerInv, NEW answered \in BOOLEAN, NEW listed \in BOOLEAN, cancel_all_orders(answered, listed)
    PROVE  MakerInv'
<1> DEFINE cancelled == [i \in DOMAIN placed |->
             IF placed[i].status = "open" THEN [placed[i] EXCEPT !.status = "cancelled"] ELSE placed[i]]
<1>1. running = "cleanup" /\ stage = "cancel" /\ swept' = swept
      /\ (placed' = cancelled \/ (~answered /\ placed' = placed))
  BY DEF cancel_all_orders
<1>2. todo = <<>>
  BY <1>1 DEF MakerInv, MakerShape, MakerTodo
<1>3. placed \in Seq(ExchangeOrders) /\ tracked \in Seq(TrackedOrders) /\ Known(tracked, <<>>, placed) /\ ~failed
  BY <1>1, CleanupKnows
<1>4. /\ cancelled \in Seq(ExchangeOrders) /\ DOMAIN cancelled = DOMAIN placed
      /\ \A i \in DOMAIN placed : placed[i].status # "open" => cancelled[i] = placed[i]
      /\ \A i \in DOMAIN placed : placed[i].status = "open" => cancelled[i].status = "cancelled"
  <2> DEFINE n == Len(placed)
  <2>1. n \in Nat /\ DOMAIN placed = 1 .. n /\ \A i \in 1 .. n : placed[i] \in ExchangeOrders
    BY <1>3, LenProperties, ElementOfSeq
  <2> HIDE DEF n
  <2>2. \A o \in ExchangeOrders : /\ [o EXCEPT !.status = "cancelled"] \in ExchangeOrders
                                  /\ [o EXCEPT !.status = "cancelled"].status = "cancelled"
    BY DEF ExchangeOrders
  <2>3. cancelled \in [1 .. n -> ExchangeOrders]
    BY <2>1, <2>2
  <2>4. cancelled \in Seq(ExchangeOrders)
    BY <2>1, <2>3
  <2> QED
    BY <2>1, <2>2, <2>4
<1> HIDE DEF cancelled
<1>5. OpenAt(cancelled) = {}
  BY <1>4 DEF OpenAt
<1>6. NetOf(cancelled) = NetOf(placed)
  <2>1. \A i \in DOMAIN placed : Bought(cancelled[i]) = Bought(placed[i])
    BY <1>4 DEF Bought
  <2> QED
    BY <1>4, <2>1, NetStays
<1>7. Known(tracked, <<>>, cancelled)
  BY <1>3, <1>4, KnownStays
<1>8. CASE ~answered
  <2>1. ReturnError /\ tracked' = tracked
    BY <1>8 DEF cancel_all_orders
  <2>2. placed' \in Seq(ExchangeOrders) /\ NetOf(placed') = NetOf(placed) /\ (OpenAt(placed) = {} => OpenAt(placed') = {})
    BY <1>1, <1>3, <1>4, <1>5, <1>6
  <2>3. Known(tracked, <<>>, placed')
    BY <1>1, <1>3, <1>7
  <2> QED
    BY <1>1, <2>1, <2>2, <2>3, CleanupFails
<1>9. CASE answered
  <2>1. /\ placed' = cancelled /\ stage' = "positions" /\ UNCHANGED <<running, todo, answers, failed, failures, swept>>
        /\ tracked' = IF listed THEN update_orders(tracked, OpenAt(placed), "CANCELED") ELSE tracked
    BY <1>1, <1>9 DEF cancel_all_orders
  <2> DEFINE l == update_orders(tracked, OpenAt(placed), "CANCELED")
             W == OpenAt(placed)
  <2>2. \A w \in W : cancelled[w].status = "cancelled"
    BY <1>4 DEF OpenAt
  <2> HIDE DEF W
  <2>3. l \in Seq(TrackedOrders)
    BY <1>3, <1>7, <2>2, UpdateKnown DEF W
  <2>4. Known(l, <<>>, cancelled)
    BY <1>3, <1>7, <2>2, UpdateKnown DEF W
  <2>5. Ids(l) = Ids(tracked)
    BY <1>3, UpdateIds
  <2> HIDE DEF l
  <2>6. tracked' = l \/ tracked' = tracked
    BY <2>1 DEF l
  <2>7. tracked' \in Seq(TrackedOrders) /\ Known(tracked', <<>>, placed') /\ Ids(tracked') = Ids(tracked)
    BY <1>3, <1>7, <2>1, <2>3, <2>4, <2>5, <2>6
  <2>8. MakerTodo'
    BY <1>1, <1>2, <2>1 DEF MakerTodo
  <2> QED
    BY <1>1, <1>3, <1>4, <1>5, <1>6, <2>1, <2>7, <2>8, CleanupGoesOn
<1> QED
  BY <1>8, <1>9

\* It looks at the position; no order is open any more that could change it.
LEMMA get_positionsKeeps == ASSUME MakerInv, NEW answered \in BOOLEAN, get_positions(answered) PROVE MakerInv'
<1>1. running = "cleanup" /\ stage = "positions" /\ UNCHANGED <<placed, tracked>>
  BY DEF get_positions
<1>2. OpenAt(placed) = {} /\ ~failed
  BY <1>1 DEF MakerInv
<1>3. CASE ~answered
  <2>1. ReturnError /\ swept' = swept
    BY <1>3 DEF get_positions
  <2> QED
    BY <1>1, <2>1, CleanupKnows, CleanupFails
<1>4. CASE answered /\ Net = 0
  <2>1. Finish /\ swept' = TRUE /\ failures' = failures
    BY <1>4 DEF get_positions
  <2>2. failures' \/ Ids(tracked') = DOMAIN placed'
    BY <1>1, <1>2, <2>1, CleanupKnows
  <2>3. NetOf(placed') = 0 /\ OpenAt(placed') = {}
    BY <1>1, <1>2, <1>4, CleanupKnows
  <2>4. /\ placed' \in Seq(ExchangeOrders) /\ tracked' \in Seq(TrackedOrders) /\ failures' \in BOOLEAN
        /\ swept' \in BOOLEAN /\ Known(tracked', <<>>, placed')
    BY <1>1, <2>1, CleanupKnows
  <2> QED
    BY <2>1, <2>2, <2>3, <2>4, FinishKeeps
<1>5. CASE answered /\ Net # 0
  <2>1. /\ stage' = "close" /\ todo' = <<Market(IF Net > 0 THEN "Sell" ELSE "Buy", Size(Net))>>
        /\ UNCHANGED <<running, answers, failed, failures, swept>>
    BY <1>5 DEF get_positions
  <2>2. Net' = Net
    BY <1>1 DEF Net
  <2>3. MakerTodo'
    BY <1>1, <1>5, <2>1, <2>2 DEF MakerTodo
  <2> QED
    BY <1>1, <1>2, <2>1, <2>3, CleanupKnows, CleanupGoesOn
<1> QED
  BY <1>3, <1>4, <1>5

\* It closes the position by an order of the same size.
LEMMA close_all_positionsKeeps ==
    ASSUME MakerInv, NEW answered \in BOOLEAN, close_all_positions(answered) PROVE MakerInv'
<1> DEFINE o == Market(IF Net > 0 THEN "Sell" ELSE "Buy", Size(Net))
<1>1. /\ running = "cleanup" /\ stage = "close" /\ send_order(Head(todo), answered)
      /\ tracked' = (IF answered THEN track_order(tracked, Len(placed')) ELSE tracked)
      /\ failed' = ~answered /\ stage' = "verify" /\ todo' = <<>>
      /\ UNCHANGED <<running, answers, failures, swept>>
  BY DEF close_all_positions
<1>2. todo = <<o>> /\ Net # 0
  BY <1>1 DEF MakerInv, MakerShape, MakerTodo
<1>3. /\ placed \in Seq(ExchangeOrders) /\ tracked \in Seq(TrackedOrders) /\ Known(tracked, <<>>, placed) /\ ~failed
      /\ Net = NetOf(placed) /\ Net \in Int /\ answers = <<>> /\ failures \in BOOLEAN /\ swept \in BOOLEAN
  BY <1>1, CleanupKnows
<1>4. ~swept /\ OpenAt(placed) = {}
  BY <1>1, <1>2 DEF MakerInv
<1>5. o \in ExchangeOrders /\ Bought(o) = -Net /\ o.status = "filled"
  BY <1>3 DEF Market, Size, ExchangeOrders, Bought
<1>6. Head(todo) = o
  BY <1>2
<1> HIDE DEF o
<1>7. MakerTodo'
  BY <1>1 DEF MakerTodo
<1>8. OpenAt(placed') = {}
  <2>1. placed' = placed \/ placed' = Append(placed, o)
    BY <1>1, <1>6 DEF send_order
  <2>2. CASE placed' = Append(placed, o)
    <3>1. Grown(placed', placed, Len(placed'))
      BY <1>3, <1>5, <2>2, OneMore
    <3>2. placed'[Len(placed')] = o
      BY <1>3, <1>5, <2>2, OneMore
    <3> QED
      BY <1>4, <1>5, <3>1, <3>2 DEF OpenAt, Grown
  <2> QED
    BY <1>4, <2>1, <2>2
<1>9. CASE ~answered
  <2>1. failed' = TRUE /\ tracked' = tracked
    BY <1>1, <1>9
  <2>2. placed' \in Seq(ExchangeOrders) /\ Known(tracked, answers, placed')
    BY <1>1, <1>5, <1>6, SendAdds
  <2>3. Known(tracked', answers', placed')
    BY <1>1, <2>1, <2>2
  <2>4. MakerShape'
    BY <1>1, <1>3, <1>7, <2>1, <2>2 DEF MakerShape
  <2> QED
    BY <1>1, <1>3, <1>4, <1>8, <2>1, <2>3, <2>4 DEF MakerInv
<1>10. CASE answered
  <2>1. failed' = FALSE /\ tracked' = track_order(tracked, Len(placed')) /\ send_order(o, TRUE)
    BY <1>1, <1>6, <1>10
  <2>2. placed' = Append(placed, o) /\ placed' \in Seq(ExchangeOrders) /\ tracked' \in Seq(TrackedOrders)
    BY <1>3, <1>5, <2>1, PlacedTracked
  <2>3. Known(tracked', <<>>, placed') /\ (failures \/ failed \/ Ids(tracked') = DOMAIN placed')
    BY <1>3, <1>5, <2>1, PlacedTracked
  <2>4. NetOf(placed') = 0
    BY <1>3, <1>5, <2>2, NetGrows
  <2>5. Net' = 0
    BY <2>4 DEF Net, NetOf
  <2>6. Heard(answers') = {} /\ Known(tracked', answers', placed')
    BY <1>1, <1>3, <2>3 DEF Heard
  <2>7. MakerShape'
    BY <1>1, <1>3, <1>7, <2>1, <2>2 DEF MakerShape
  <2>8. failures' \/ failed' \/ Ids(tracked') \cup Heard(answers') = DOMAIN placed'
    BY <1>1, <1>3, <2>1, <2>3, <2>6
  <2> QED
    BY <1>1, <1>3, <1>4, <1>8, <2>1, <2>5, <2>6, <2>7, <2>8 DEF MakerInv
<1> QED
  BY <1>9, <1>10

\* It ends, and says well only when the order was answered.
LEMMA VerifyClosedKeeps == ASSUME MakerInv, NEW answered \in BOOLEAN, VerifyClosed(answered) PROVE MakerInv'
<1>1. running = "cleanup" /\ stage = "verify" /\ UNCHANGED <<placed, tracked>>
  BY DEF VerifyClosed
<1>2. CASE ~answered
  <2>1. ReturnError /\ swept' = swept
    BY <1>2 DEF VerifyClosed
  <2> QED
    BY <1>1, <2>1, CleanupKnows, CleanupFails
<1>3. CASE answered
  <2>1. Finish /\ swept' = ~failed /\ failures' = (failures \/ failed)
    BY <1>3 DEF VerifyClosed
  <2>2. OpenAt(placed') = {} /\ (~failed => NetOf(placed') = 0)
    BY <1>1, CleanupKnows DEF MakerInv
  <2>3. /\ placed' \in Seq(ExchangeOrders) /\ tracked' \in Seq(TrackedOrders) /\ Known(tracked', <<>>, placed')
        /\ failures \in BOOLEAN /\ failed \in BOOLEAN /\ (failures \/ failed \/ Ids(tracked') = DOMAIN placed')
    BY <1>1, CleanupKnows
  <2>4. failures' \in BOOLEAN /\ swept' \in BOOLEAN /\ (failures' \/ Ids(tracked') = DOMAIN placed')
        /\ (swept' => NetOf(placed') = 0 /\ OpenAt(placed') = {})
    BY <2>1, <2>2, <2>3
  <2> QED
    BY <2>1, <2>3, <2>4, FinishKeeps
<1> QED
  BY <1>2, <1>3

\* Every step of the market maker keeps the invariant.
LEMMA MakerSteps == MakerInv /\ [MakerNext]_kvars => MakerInv'
<1> SUFFICES ASSUME MakerInv, [MakerNext]_kvars PROVE MakerInv'
  OBVIOUS
<1>1. CASE UNCHANGED kvars
  BY <1>1 DEF kvars, MakerInv, MakerShape, MakerTodo, Net, Known, Ids, Heard, OpenAt
<1>2. CASE \E i \in DOMAIN placed : Fill(i)
  BY <1>2, OrderFillKeeps
<1>3. CASE place_orders \/ check_order_status \/ cleanup \/ \E bids, asks \in 0 .. OrderLevels : PlaceBatch(bids, asks)
  BY <1>3, BeginningsKeep
<1>4. CASE send_multiple_orders
  BY <1>4, send_multiple_ordersKeeps
<1>5. ASSUME NEW answered \in BOOLEAN,
             \/ SendOfPair(answered)
             \/ \E i \in 1 .. 2 * OrderLevels : SendOfBatch(i, answered)
             \/ QueryNext(answered)
      PROVE  MakerInv'
  BY <1>5, SendOfPairKeeps, SendOfBatchKeeps, QueryNextKeeps
<1>6. ASSUME NEW answered \in BOOLEAN,
             \/ get_open_orders(answered)
             \/ \E listed \in BOOLEAN : cancel_all_orders(answered, listed)
             \/ get_positions(answered) \/ close_all_positions(answered) \/ VerifyClosed(answered)
      PROVE  MakerInv'
  BY <1>6, get_open_ordersKeeps, cancel_all_ordersKeeps, get_positionsKeeps, close_all_positionsKeeps, VerifyClosedKeeps
<1> QED
  BY <1>1, <1>2, <1>3, <1>4, <1>5, <1>6 DEF MakerNext

\* OrdersKnown as the invariant has it.
LEMMA MakerInvImplies == MakerInv => OrdersKnown
<1> SUFFICES ASSUME MakerInv PROVE OrdersKnown
  OBVIOUS
<1>1. \A i, j \in DOMAIN tracked : i # j => tracked[i].id # tracked[j].id
  BY DEF MakerInv, Known
<1>2. running = "none" /\ ~failures => {tracked[i].id : i \in DOMAIN tracked} = DOMAIN placed
  <2>1. running = "none" => answers = <<>> /\ ~failed
    BY DEF MakerInv
  <2>2. answers = <<>> => Heard(answers) = {}
    BY DEF Heard
  <2>3. failures \/ failed \/ Ids(tracked) \cup Heard(answers) = DOMAIN placed
    BY DEF MakerInv
  <2> QED
    BY <2>1, <2>2, <2>3 DEF Ids
<1>3. ASSUME NEW i \in DOMAIN tracked, tracked[i].status \in {"FILLED", "CANCELED"}
      PROVE  query_order_status(tracked[i].id) = tracked[i].status
  BY <1>3 DEF MakerInv, Known, query_order_status
<1>4. swept => Net = 0 /\ OpenAt(placed) = {}
  BY DEF MakerInv
<1> QED
  BY <1>1, <1>2, <1>3, <1>4 DEF OrdersKnown

\* The market maker tracks no order twice and none that was not placed, all of them as long as
\* every request was answered, and takes none for closed that is not; and after a cleanup
\* without an error neither an open order nor a position is left, until orders are placed again:
\* for any number of orders, whichever requests fail and whichever orders are filled meanwhile.
THEOREM OrdersAlwaysKnown == MakerSpec => []OrdersKnown
BY MakerStarts, MakerSteps, MakerInvImplies, PTL DEF MakerSpec

--------------------------------------------------------------------------------
(* The types, component by component.  First the stores.                   *)

\* Rows are numbered as they are inserted.
KdbWithin == insertions <= MaxStored /\ \A t \in KdbTables : KdbHas(t) \subseteq 1 .. insertions

\* A statement moves rows, it makes none.
LEMMA FlushMoves ==
    ASSUME KdbInv, NEW t \in KdbTables, NEW waiting \in Seq(Nat), NEW ok \in BOOLEAN, flush_table(t, waiting, ok)
    PROVE  /\ KdbHas(t)' \subseteq ToSet(waiting) \cup tables[t]
           /\ \A u \in KdbTables : u # t => KdbHas(u)' = KdbHas(u)
<1>1. PICK taken \in BOOLEAN :
        /\ tables' = IF taken THEN [tables EXCEPT ![t] = tables[t] \cup ToSet(waiting)] ELSE tables
        /\ kdb_buffer' = [kdb_buffer EXCEPT ![t] = IF ok THEN <<>> ELSE waiting]
  BY DEF flush_table
<1>2. kdb_buffer \in [KdbTables -> Seq(Nat)] /\ tables \in [KdbTables -> SUBSET Nat]
  BY DEF KdbInv, KdbShape
<1>3. /\ kdb_buffer'[t] = (IF ok THEN <<>> ELSE waiting)
      /\ tables'[t] \subseteq tables[t] \cup ToSet(waiting)
      /\ \A u \in KdbTables : u # t => kdb_buffer'[u] = kdb_buffer[u] /\ tables'[u] = tables[u]
  BY <1>1, <1>2
<1> QED
  BY <1>3, ToSetOfNone DEF KdbHas

\* Every step of the client.
LEMMA KdbWithinSteps == KdbInv /\ KdbWithin /\ [KdbNext]_dvars => KdbWithin'
<1> SUFFICES ASSUME KdbInv, KdbWithin, [KdbNext]_dvars PROVE KdbWithin'
  OBVIOUS
<1>1. insertions \in Nat /\ kdb_buffer \in [KdbTables -> Seq(Nat)] /\ tables \in [KdbTables -> SUBSET Nat]
  BY DEF KdbInv, KdbShape
<1>2. ASSUME NEW t \in KdbTables, KdbInsert(t) PROVE KdbWithin'
  <2> DEFINE waiting == Append(kdb_buffer[t], insertions')
  <2>1. insertions < MaxStored /\ insertions' = insertions + 1
        /\ \/ \E ok \in BOOLEAN : flush_table(t, waiting, ok)
           \/ kdb_buffer' = [kdb_buffer EXCEPT ![t] = waiting] /\ tables' = tables
    BY <1>2 DEF KdbInsert
  <2>2. waiting \in Seq(Nat) /\ ToSet(waiting) = ToSet(kdb_buffer[t]) \cup {insertions'}
    BY <1>1, <2>1, ToSetOfAppend
  <2> HIDE DEF waiting
  <2>3. KdbHas(t)' \subseteq KdbHas(t) \cup {insertions'} /\ \A u \in KdbTables : u # t => KdbHas(u)' = KdbHas(u)
    <3>1. CASE \E ok \in BOOLEAN : flush_table(t, waiting, ok)
      BY <2>2, <3>1, FlushMoves DEF KdbHas
    <3>2. CASE kdb_buffer' = [kdb_buffer EXCEPT ![t] = waiting] /\ tables' = tables
      <4>1. kdb_buffer'[t] = waiting /\ \A u \in KdbTables : u # t => kdb_buffer'[u] = kdb_buffer[u]
        BY <1>1, <3>2
      <4> QED
        BY <2>2, <3>2, <4>1 DEF KdbHas
    <3> QED
      BY <2>1, <3>1, <3>2
  <2>4. insertions' \in 1 .. insertions' /\ 1 .. insertions \subseteq 1 .. insertions' /\ insertions' <= MaxStored
    BY <1>1, <2>1, StorageAssumption
  <2> QED
    BY <2>3, <2>4 DEF KdbWithin
<1>3. CASE KdbFlush
  <2>1. PICK t \in KdbTables, ok \in BOOLEAN :
          /\ insertions' = insertions
          /\ \/ UNCHANGED <<kdb_buffer, tables>>
             \/ flush_table(t, kdb_buffer[t], ok)
    BY <1>3 DEF KdbFlush
  <2>2. \A u \in KdbTables : KdbHas(u)' \subseteq KdbHas(u)
    <3>1. CASE UNCHANGED <<kdb_buffer, tables>>
      BY <3>1 DEF KdbHas
    <3>2. CASE flush_table(t, kdb_buffer[t], ok)
      <4>1. kdb_buffer[t] \in Seq(Nat)
        BY <1>1
      <4> QED
        BY <3>2, <4>1, FlushMoves DEF KdbHas
    <3> QED
      BY <2>1, <3>1, <3>2
  <2> QED
    BY <2>1, <2>2 DEF KdbWithin
<1>4. CASE KdbNew \/ create_tables \/ KdbQuery \/ UNCHANGED dvars
  <2>1. UNCHANGED <<kdb_buffer, tables, insertions>>
    BY <1>4 DEF KdbNew, create_tables, KdbQuery, dvars
  <2> QED
    BY <2>1 DEF KdbWithin, KdbHas
<1> QED
  BY <1>2, <1>3, <1>4 DEF KdbNext

\* The client's buffers and the tables hold only rows that were inserted.
LEMMA KdbTypes == KdbSpec => []KdbTypeOK
<1>1. KdbInit => KdbWithin
  BY ToSetOfNone, StorageAssumption DEF KdbInit, KdbWithin, KdbHas
<1>2. KdbInv /\ KdbWithin => KdbTypeOK
  <2> SUFFICES ASSUME KdbInv, KdbWithin PROVE KdbTypeOK
    OBVIOUS
  <2>0. KdbShape
    BY DEF KdbInv
  <2>1. insertions \in 0 .. MaxStored
    <3>1. insertions \in Nat /\ MaxStored \in Nat /\ insertions <= MaxStored
      BY <2>0, StorageAssumption DEF KdbShape, KdbWithin
    <3> QED
      BY <3>1
  <2>2. \A t \in KdbTables : ToSet(kdb_buffer[t]) \cup tables[t] \subseteq 1 .. insertions
    BY DEF KdbWithin, KdbHas
  <2> QED
    BY <2>0, <2>1, <2>2 DEF KdbShape, KdbTypeOK
<1> QED
  BY <1>1, <1>2, KdbWithinSteps, KdbStarts, KdbSteps, PTL DEF KdbSpec

\* The router on its own.
RouterSpec == RouterInit /\ [][RouterNext]_xvars

\* A flow has routed no more than it was handed, and only to QuestDB.
Routed == [trade : Nat, orderbook : Nat, metadata : Nat]
RouterInv ==
    /\ flow_config \in [symbols : {{}, {"x"}}, exchanges : {{}, {"a"}}, enable_all_symbols : BOOLEAN,
                        derivatives : BOOLEAN, etf : BOOLEAN, asset_types : {{}, {"spot", "etf"}},
                        trade : Destinations, orderbook : Destinations, metadata : Destinations]
    /\ routing_stats \in [Flows -> Routed] /\ processed \in [Flows -> Nat]
    /\ RouterTypeOK

\* One datum of kind k in the statistics of flow f, or none.
LEMMA RouteKeeps ==
    ASSUME RouterInv, NEW f \in Flows, NEW k \in {"trade", "orderbook", "metadata"}, HandToFlow(f),
           UNCHANGED <<flow_config, duplicates>>,
           \/ flow_config[k] = "QuestDB" /\ routing_stats' = [routing_stats EXCEPT ![f][k] = @ + 1]
           \/ routing_stats' = routing_stats
    PROVE  RouterInv'
<1>1. routing_stats \in [Flows -> Routed] /\ processed \in [Flows -> Nat] /\ MaxRouted \in Nat
  BY StorageAssumption DEF RouterInv
<1>2. processed' = [processed EXCEPT ![f] = processed[f] + 1] /\ Handed < MaxRouted
  BY DEF HandToFlow
<1>3. processed' \in [Flows -> Nat] /\ processed'[f] = processed[f] + 1 /\ \A g \in Flows : g # f => processed'[g] = processed[g]
  BY <1>1, <1>2
<1>4. Handed' <= MaxRouted
  <2>1. processed["crypto"] \in Nat /\ processed["stock"] \in Nat
    BY <1>1 DEF Flows
  <2>2. \/ processed'["crypto"] = processed["crypto"] + 1 /\ processed'["stock"] = processed["stock"]
        \/ processed'["crypto"] = processed["crypto"] /\ processed'["stock"] = processed["stock"] + 1
    BY <1>3 DEF Flows
  <2> QED
    BY <1>1, <1>2, <2>1, <2>2 DEF Handed
<1>5. ASSUME NEW g \in Flows
      PROVE  /\ routing_stats[g] \in Routed
             /\ routing_stats[g].trade + routing_stats[g].orderbook + routing_stats[g].metadata <= processed[g]
             /\ \A l \in {"trade", "orderbook", "metadata"} : flow_config[l] = "KdbPlus" => routing_stats[g][l] = 0
  BY <1>1 DEF RouterInv, RouterTypeOK
<1>6. ASSUME NEW g \in Flows
      PROVE  /\ routing_stats'[g] \in Routed
             /\ routing_stats'[g].trade + routing_stats'[g].orderbook + routing_stats'[g].metadata <= processed'[g]
             /\ \A l \in {"trade", "orderbook", "metadata"} : flow_config[l] = "KdbPlus" => routing_stats'[g][l] = 0
  <2>1. CASE routing_stats' = routing_stats \/ g # f
    <3>1. routing_stats'[g] = routing_stats[g]
      BY <1>1, <2>1
    <3>2. processed[g] \in Nat /\ processed'[g] >= processed[g] /\ processed'[g] \in Nat
      BY <1>1, <1>3
    <3> QED
      BY <1>5, <3>1, <3>2 DEF Routed
  <2>2. CASE g = f /\ flow_config[k] = "QuestDB" /\ routing_stats' = [routing_stats EXCEPT ![f][k] = @ + 1]
    <3>1. PICK r \in Routed : r = routing_stats[f]
      BY <1>1
    <3>2. routing_stats'[f] = [r EXCEPT ![k] = r[k] + 1]
      BY <1>1, <2>2, <3>1
    <3>3. [r EXCEPT ![k] = r[k] + 1] \in Routed
      BY DEF Routed
    <3>4. \A l \in {"trade", "orderbook", "metadata"} : l # k => [r EXCEPT ![k] = r[k] + 1][l] = r[l]
      BY DEF Routed
    <3>5. r.trade + r.orderbook + r.metadata <= processed[f] /\ processed[f] \in Nat /\ processed'[f] = processed[f] + 1
      BY <1>1, <1>3, <1>5, <3>1
    <3>6. PICK s \in Routed : s = [r EXCEPT ![k] = r[k] + 1]
      BY <3>3
    <3>7. s.trade + s.orderbook + s.metadata <= processed[f] + 1
      <4>1. \/ s.trade = r.trade + 1 /\ s.orderbook = r.orderbook /\ s.metadata = r.metadata
            \/ s.trade = r.trade /\ s.orderbook = r.orderbook + 1 /\ s.metadata = r.metadata
            \/ s.trade = r.trade /\ s.orderbook = r.orderbook /\ s.metadata = r.metadata + 1
        BY <3>6 DEF Routed
      <4> QED
        BY <3>5, <4>1 DEF Routed
    <3>8. \A l \in {"trade", "orderbook", "metadata"} : flow_config[l] = "KdbPlus" => s[l] = 0
      BY <1>5, <2>2, <3>1, <3>4, <3>6
    <3> QED
      BY <2>2, <3>2, <3>5, <3>6, <3>7, <3>8
  <2> QED
    BY <2>1, <2>2
<1>7. routing_stats' \in [Flows -> Routed]
  BY <1>1, <1>6
<1>8. duplicates' = 0
  BY DEF RouterInv, RouterTypeOK
<1>9. RouterTypeOK'
  BY <1>4, <1>6, <1>8 DEF RouterTypeOK
<1> QED
  BY <1>3, <1>7, <1>9 DEF RouterInv

\* Every step of the router.
LEMMA RouterSteps == RouterInv /\ [RouterNext]_xvars => RouterInv'
<1> SUFFICES ASSUME RouterInv, [RouterNext]_xvars PROVE RouterInv'
  OBVIOUS
<1>1. CASE reset_stats
  <2>1. UNCHANGED <<flow_config, duplicates, processed>> /\ processed \in [Flows -> Nat]
        /\ routing_stats' = [f \in Flows |-> [trade |-> 0, orderbook |-> 0, metadata |-> 0]]
    BY <1>1 DEF reset_stats, RouterInv
  <2>2. \A f \in Flows : routing_stats'[f] = [trade |-> 0, orderbook |-> 0, metadata |-> 0]
    BY <2>1
  <2>3. routing_stats' \in [Flows -> Routed]
    BY <2>1 DEF Routed
  <2>4. RouterTypeOK'
    BY <2>1, <2>2 DEF RouterInv, RouterTypeOK, Handed
  <2> QED
    BY <2>1, <2>3, <2>4 DEF RouterInv
<1>2. ASSUME NEW f \in Flows, route_metadata(f) PROVE RouterInv'
  <2>1. HandToFlow(f) /\ UNCHANGED <<flow_config, duplicates>>
        /\ \/ flow_config["metadata"] = "QuestDB" /\ routing_stats' = [routing_stats EXCEPT ![f]["metadata"] = @ + 1]
           \/ routing_stats' = routing_stats
    BY <1>2 DEF route_metadata
  <2> QED
    BY <2>1, RouteKeeps
<1>3. ASSUME NEW f \in Flows, NEW d \in MarketData, ProcessData(f, d) PROVE RouterInv'
  <2>1. HandToFlow(f) /\ UNCHANGED <<flow_config, duplicates>>
        /\ \/ d.kind \in {"trade", "orderbook"} /\ flow_config[d.kind] = "QuestDB"
              /\ routing_stats' = [routing_stats EXCEPT ![f][d.kind] = @ + 1]
           \/ routing_stats' = routing_stats
    BY <1>3 DEF ProcessData, route_market_data
  <2> QED
    BY <2>1, RouteKeeps
<1>4. CASE UNCHANGED xvars
  BY <1>4 DEF xvars, RouterInv, RouterTypeOK, Handed
<1> QED
  BY <1>1, <1>2, <1>3, <1>4 DEF RouterNext

\* No flow routes more than it was handed, nor to kdb+, nor filters a duplicate.
LEMMA RouterTypes == RouterSpec => []RouterTypeOK
<1>1. RouterInit => RouterInv
  <2> SUFFICES ASSUME RouterInit PROVE RouterInv
    OBVIOUS
  <2>1. \A f \in Flows : routing_stats[f] = [trade |-> 0, orderbook |-> 0, metadata |-> 0] /\ processed[f] = 0
    BY DEF RouterInit
  <2>2. routing_stats \in [Flows -> Routed] /\ processed \in [Flows -> Nat]
    BY DEF RouterInit, Routed
  <2>3. Handed = 0
    BY <2>1 DEF Handed, Flows
  <2>4. RouterTypeOK
    BY <2>1, <2>3, StorageAssumption DEF RouterTypeOK, RouterInit
  <2> QED
    BY <2>2, <2>4 DEF RouterInit, RouterInv
<1>2. RouterInv => RouterTypeOK
  BY DEF RouterInv
<1> QED
  BY <1>1, <1>2, RouterSteps, PTL DEF RouterSpec

\* The receivers on their own.
DatabaseSpec == DatabaseInit /\ [][DatabaseNext]_wvars

\* DatabaseTypeOK, with the types of what it is about.
DatabaseInv ==
    /\ receivers \in [Receivers -> {"absent", "bound", "stopped"}]
    /\ received \in [Receivers -> Nat] /\ datagrams \in [Receivers -> Nat]
    /\ \A r \in Receivers : received[r] <= datagrams[r] /\ (r[2] = "metadata" => received[r] = datagrams[r])
    /\ receiver_start = "waiting" => \A r \in Receivers : receivers[r] # "absent"

\* Every step of the receivers.
LEMMA DatabaseSteps == DatabaseInv /\ [DatabaseNext]_wvars => DatabaseInv'
<1> SUFFICES ASSUME DatabaseInv, [DatabaseNext]_wvars PROVE DatabaseInv'
  OBVIOUS
<1>1. CASE StartReceivers
  <2>1. UNCHANGED <<received, datagrams>>
    BY <1>1 DEF StartReceivers
  <2>2. PICK bound \in SUBSET Receivers : receivers' = [r \in Receivers |-> IF r \in bound THEN "bound" ELSE "stopped"]
    BY <1>1 DEF StartReceivers
  <2>3. receivers' \in [Receivers -> {"absent", "bound", "stopped"}] /\ \A r \in Receivers : receivers'[r] # "absent"
    BY <2>2
  <2> QED
    BY <2>1, <2>3 DEF DatabaseInv
<1>2. CASE StartReturns
  BY <1>2 DEF StartReturns, DatabaseInv
<1>3. ASSUME NEW r \in Receivers, NEW parses \in BOOLEAN, receive(r, parses) PROVE DatabaseInv'
  <2>1. /\ datagrams' = [datagrams EXCEPT ![r] = datagrams[r] + 1]
        /\ \/ received' = [received EXCEPT ![r] = received[r] + 1]
           \/ r[2] # "metadata" /\ received' = received
        /\ UNCHANGED <<receivers, receiver_start>>
    BY <1>3 DEF receive
  <2>2. received \in [Receivers -> Nat] /\ datagrams \in [Receivers -> Nat]
    BY DEF DatabaseInv
  <2>3. received' \in [Receivers -> Nat] /\ datagrams' \in [Receivers -> Nat]
    BY <2>1, <2>2
  <2>4. ASSUME NEW q \in Receivers
        PROVE  received'[q] <= datagrams'[q] /\ (q[2] = "metadata" => received'[q] = datagrams'[q])
    <3>1. received[q] \in Nat /\ datagrams[q] \in Nat /\ received[q] <= datagrams[q]
          /\ (q[2] = "metadata" => received[q] = datagrams[q])
      BY <2>2 DEF DatabaseInv
    <3>2. CASE q = r
      <4>1. datagrams'[q] = datagrams[q] + 1
            /\ (received'[q] = received[q] + 1 \/ (q[2] # "metadata" /\ received'[q] = received[q]))
        BY <2>1, <2>2, <3>2
      <4> QED
        BY <3>1, <4>1
    <3>3. CASE q # r
      <4>1. datagrams'[q] = datagrams[q] /\ received'[q] = received[q]
        BY <2>1, <2>2, <3>3
      <4> QED
        BY <3>1, <4>1
    <3> QED
      BY <3>2, <3>3
  <2> QED
    BY <2>1, <2>3, <2>4 DEF DatabaseInv
<1>4. CASE UNCHANGED wvars
  BY <1>4 DEF wvars, DatabaseInv
<1> QED
  BY <1>1, <1>2, <1>3, <1>4 DEF DatabaseNext

\* What a receiver counts it has received, and metadata it counts unread.
LEMMA DatabaseTypes == DatabaseSpec => []DatabaseTypeOK
<1>1. DatabaseInit => DatabaseInv
  <2> SUFFICES ASSUME DatabaseInit PROVE DatabaseInv
    OBVIOUS
  <2>1. receivers = [r \in Receivers |-> "absent"] /\ receiver_start = "not called"
        /\ received = [r \in Receivers |-> 0] /\ datagrams = [r \in Receivers |-> 0]
    BY DEF DatabaseInit
  <2>2. receivers \in [Receivers -> {"absent", "bound", "stopped"}]
        /\ received \in [Receivers -> Nat] /\ datagrams \in [Receivers -> Nat]
    BY <2>1
  <2>3. \A r \in Receivers : received[r] <= datagrams[r] /\ received[r] = datagrams[r]
    <3>1. \A r \in Receivers : received[r] = 0 /\ datagrams[r] = 0
      BY <2>1
    <3> QED
      BY <3>1
  <2> QED
    BY <2>1, <2>2, <2>3 DEF DatabaseInv
<1>2. DatabaseInv => DatabaseTypeOK
  <2> SUFFICES ASSUME DatabaseInv, NEW r \in Receivers
               PROVE  /\ receivers[r] \in {"absent", "bound", "stopped"}
                      /\ received[r] \in 0 .. datagrams[r] /\ (r[2] = "metadata" => received[r] = datagrams[r])
                      /\ receiver_start = "waiting" => receivers[r] # "absent"
    BY DEF DatabaseTypeOK
  <2>1. received[r] \in Nat /\ datagrams[r] \in Nat /\ received[r] <= datagrams[r]
    BY DEF DatabaseInv
  <2> QED
    BY <2>1 DEF DatabaseInv
<1> QED
  BY <1>1, <1>2, DatabaseSteps, PTL DEF DatabaseSpec

\* The metrics of an exchange are those of entries logged, and the average latency stays
\* below the latencies.
Metric == [error_count : Nat, warn_count : Nat, avg_latency_ms : Nat, connection_drops : Nat]
MetricsWithin ==
    /\ Len(log_batch) < LogBatch
    /\ \A v \in DOMAIN metrics : /\ metrics[v] \in Metric
                                 /\ metrics[v].error_count + metrics[v].warn_count <= logged
                                 /\ metrics[v].avg_latency_ms < LatencyUnit

\* One more entry in the metrics of an exchange.
LEMMA MeasuredWithin ==
    ASSUME NEW old \in Metric, NEW level \in {"ERROR", "WARN", "INFO"}, NEW latency, NEW gone, NEW n \in Nat,
           old.error_count + old.warn_count <= n, old.avg_latency_ms < LatencyUnit
    PROVE  /\ Measured(old, level, latency, gone) \in Metric
           /\ Measured(old, level, latency, gone).error_count + Measured(old, level, latency, gone).warn_count <= n + 1
           /\ Measured(old, level, latency, gone).avg_latency_ms < LatencyUnit
<1>1. PICK e \in Nat, w \in Nat, a \in Nat, c \in Nat :
        /\ e = IF level = "ERROR" THEN old.error_count + 1 ELSE old.error_count
        /\ w = IF level = "WARN" THEN old.warn_count + 1 ELSE old.warn_count
        /\ a = IF latency = "none" THEN old.avg_latency_ms ELSE (old.avg_latency_ms + LatencyUnit) \div 2
        /\ c = IF gone THEN old.connection_drops + 1 ELSE old.connection_drops
  <2>1. old.error_count \in Nat /\ old.warn_count \in Nat /\ old.avg_latency_ms \in Nat /\ old.connection_drops \in Nat
    BY DEF Metric
  <2>2. (old.avg_latency_ms + LatencyUnit) \div 2 \in Nat
    BY <2>1 DEF LatencyUnit
  <2> QED
    BY <2>1, <2>2
<1>2. Measured(old, level, latency, gone) = [error_count |-> e, warn_count |-> w, avg_latency_ms |-> a, connection_drops |-> c]
  <2>1. Measured(old, level, latency, gone) =
          [old EXCEPT !.error_count = e, !.warn_count = w, !.avg_latency_ms = a, !.connection_drops = c]
    BY <1>1 DEF Measured, Metric
  <2> QED
    BY <2>1 DEF Metric
<1>3. e + w <= n + 1
  <2>1. old.error_count \in Nat /\ old.warn_count \in Nat
    BY DEF Metric
  <2>2. e + w <= old.error_count + old.warn_count + 1
    BY <1>1, <2>1
  <2> QED
    BY <2>1, <2>2
<1>4. a < LatencyUnit
  <2>1. old.avg_latency_ms \in 0 .. 7
    BY DEF Metric, LatencyUnit
  <2>2. a = old.avg_latency_ms \/ a = (old.avg_latency_ms + 8) \div 2
    BY <1>1 DEF LatencyUnit
  <2> QED
    BY <2>1, <2>2 DEF LatencyUnit
<1> QED
  BY <1>2, <1>3, <1>4 DEF Metric

\* Every step of the log writer and of the aggregator before it.
LEMMA MetricsSteps == WriterInv /\ MetricsWithin /\ [WriterNext]_gvars => MetricsWithin'
<1> SUFFICES ASSUME WriterInv, MetricsWithin, [WriterNext]_gvars PROVE MetricsWithin'
  OBVIOUS
<1>1. logged \in Nat /\ log_queue \in Seq(Nat) /\ log_batch \in Seq(Nat) /\ LogBatch \in Nat \ {0}
  BY StorageAssumption DEF WriterInv
<1>2. ASSUME NEW v \in LogVenues \cup {"none"}, NEW level \in {"ERROR", "WARN", "INFO"}, NEW latency, NEW gone,
             process_log(v, level, latency, gone)
      PROVE  MetricsWithin'
  <2>1. log_batch' = log_batch /\ logged' = logged + 1
    BY <1>2 DEF process_log
  <2>2. CASE metrics' = metrics
    <3>1. ASSUME NEW x \in DOMAIN metrics PROVE metrics[x].error_count + metrics[x].warn_count <= logged + 1
      <4>1. metrics[x].error_count \in Nat /\ metrics[x].warn_count \in Nat
            /\ metrics[x].error_count + metrics[x].warn_count <= logged
        BY DEF MetricsWithin, Metric
      <4> QED
        BY <1>1, <4>1
    <3> QED
      BY <2>1, <2>2, <3>1 DEF MetricsWithin
  <2>3. CASE metrics' = [x \in DOMAIN metrics \cup {v} |->
                         LET old == IF x \in DOMAIN metrics THEN metrics[x] ELSE NoMetrics IN
                           IF x = v THEN Measured(old, level, latency, gone) ELSE old]
    <3>1. ASSUME NEW x \in DOMAIN metrics'
          PROVE  /\ metrics'[x] \in Metric
                 /\ metrics'[x].error_count + metrics'[x].warn_count <= logged + 1
                 /\ metrics'[x].avg_latency_ms < LatencyUnit
      <4>1. PICK old \in Metric : /\ old = IF x \in DOMAIN metrics THEN metrics[x] ELSE NoMetrics
                                  /\ old.error_count + old.warn_count <= logged
                                  /\ old.avg_latency_ms < LatencyUnit
        <5>1. NoMetrics \in Metric /\ NoMetrics.error_count + NoMetrics.warn_count <= logged
              /\ NoMetrics.avg_latency_ms < LatencyUnit
          BY <1>1 DEF NoMetrics, Metric, LatencyUnit
        <5> QED
          BY <5>1 DEF MetricsWithin
      <4>2. metrics'[x] = IF x = v THEN Measured(old, level, latency, gone) ELSE old
        BY <2>3, <3>1, <4>1
      <4>3. old.error_count + old.warn_count <= logged + 1
        <5>1. old.error_count \in Nat /\ old.warn_count \in Nat
          BY DEF Metric
        <5> QED
          BY <1>1, <4>1, <5>1
      <4> QED
        BY <1>1, <4>1, <4>2, <4>3, MeasuredWithin
    <3> QED
      BY <2>1, <3>1 DEF MetricsWithin
  <2> QED
    BY <1>2, <2>2, <2>3 DEF process_log
<1>3. CASE TakeLog
  <2> DEFINE filling == Append(log_batch, Head(log_queue))
  <2>1. UNCHANGED <<metrics, logged>>
        /\ (log_batch' = <<>> \/ (~(Len(filling) >= LogBatch) /\ log_batch' = filling)) /\ log_queue # <<>>
    BY <1>3 DEF TakeLog
  <2>2. filling \in Seq(Nat)
    BY <1>1, <2>1
  <2> HIDE DEF filling
  <2>3. Len(log_batch') < LogBatch
    <3>1. Len(filling) \in Nat /\ Len(<<>>) = 0
      BY <2>2
    <3> QED
      BY <1>1, <2>1, <3>1
  <2> QED
    BY <2>1, <2>3 DEF MetricsWithin
<1>4. CASE LogTick
  BY <1>1, <1>4 DEF LogTick, MetricsWithin
<1>5. CASE flush_metrics \/ DropWriter
  <2>1. log_batch' = log_batch /\ DOMAIN metrics' = {}
    BY <1>5 DEF flush_metrics, DropWriter
  <2> QED
    BY <2>1 DEF MetricsWithin
<1>6. CASE UNCHANGED gvars
  BY <1>6 DEF gvars, MetricsWithin
<1> QED
  BY <1>2, <1>3, <1>4, <1>5, <1>6 DEF WriterNext

\* A batch is never full, and no exchange is charged with more than what was logged.
LEMMA WriterTypes == WriterSpec => []WriterTypeOK
<1>1. WriterInit => MetricsWithin
  BY StorageAssumption DEF WriterInit, MetricsWithin
<1>2. MetricsWithin => WriterTypeOK
  BY DEF MetricsWithin, WriterTypeOK
<1> QED
  BY <1>1, <1>2, MetricsSteps, WriterStarts, WriterSteps, PTL DEF WriterSpec

--------------------------------------------------------------------------------
(* The stock feeds and the operational log.                                *)

\* How often a feed may reconnect and how long a token lasts.
StockWithin ==
    /\ stock \in StockFeeds /\ stockAt \in Stages /\ wsStream \in BOOLEAN
    /\ left <= Lifetime
    /\ requested <= ToSend /\ (stockAt = "send" => requested < ToSend) /\ tooLate <= requested
    /\ reconnectCount <= reconnect_limit

\* Every step of a stock feed.
LEMMA StockWithinSteps == StockInv /\ StockWithin /\ [StockNext]_tvars => StockWithin'
<1> SUFFICES ASSUME StockInv, StockWithin, [StockNext]_tvars PROVE StockWithin'
  OBVIOUS
<1>1. PICK n \in Nat \ {0}, m \in Nat : n = ToSend /\ m = reconnect_limit
  BY StockAssumption DEF ToSend, create_subscription, create_enhanced_subscription, reconnect_limit
<1>2. /\ left \in Nat /\ requested \in Nat /\ tooLate \in Nat /\ reconnectCount \in Nat
      /\ stock \in StockFeeds /\ stockAt \in Stages /\ wsStream \in BOOLEAN
      /\ left <= Lifetime /\ requested <= n /\ (stockAt = "send" => requested < n) /\ tooLate <= requested
      /\ reconnectCount <= m
      /\ stockAt \in {"fetch", "subscribe"} => requested = 0 /\ tooLate = 0
      /\ Lifetime \in Nat
  BY <1>1, StockAssumption DEF StockInv, StockWithin
<1>3. ASSUME stock' = stock, stockAt' \in Stages, wsStream' \in BOOLEAN, left' <= Lifetime,
             requested' <= n, stockAt' = "send" => requested' < n, tooLate' <= requested', reconnectCount' <= m
      PROVE  StockWithin'
  <2>1. ToSend' = n /\ reconnect_limit' = m
    BY <1>1, <1>3 DEF ToSend, create_subscription, create_enhanced_subscription, reconnect_limit
  <2> QED
    BY <1>2, <1>3, <2>1 DEF StockWithin
<1>4. CASE authenticate
  BY <1>2, <1>3, <1>4 DEF authenticate, Stages
<1>5. CASE connect_websocket
  BY <1>1, <1>2, <1>3, <1>5 DEF connect_websocket, Stages
<1>6. CASE fetch_all_master_data
  BY <1>2, <1>3, <1>6 DEF fetch_all_master_data, check_token_validity, Stages
<1>7. CASE subscribe
  <2>1. stockAt = "subscribe" /\ left' \in {left, Lifetime} /\ wsStream' = FALSE /\ stockAt' = "send"
        /\ UNCHANGED <<stock, requested, tooLate, reconnectCount>>
    BY <1>7 DEF subscribe, check_token_validity
  <2>2. left' <= Lifetime /\ requested' = 0 /\ tooLate' = 0
    BY <1>2, <2>1
  <2>3. requested' <= n /\ requested' < n /\ tooLate' <= requested'
    BY <1>1, <2>2
  <2>4. stockAt' \in Stages /\ wsStream' \in BOOLEAN /\ reconnectCount' <= m
    BY <1>2, <2>1 DEF Stages
  <2> QED
    BY <1>3, <2>1, <2>2, <2>3, <2>4
<1>8. CASE SendRequest
  <2>1. stockAt = "send" /\ requested' = requested + 1 /\ stock' = stock
        /\ tooLate' = tooLate + (IF left = 0 THEN 1 ELSE 0) /\ left' = (IF left > 0 THEN left - 1 ELSE 0)
        /\ IF requested' = n
             THEN /\ stockAt' = "start" /\ wsStream' = TRUE
                  /\ reconnectCount' = IF stock = "LS_Enhanced" THEN 0 ELSE reconnectCount
             ELSE UNCHANGED <<stockAt, wsStream, reconnectCount>>
    BY <1>1, <1>8 DEF SendRequest
  <2>2. left' <= Lifetime /\ tooLate' <= requested' /\ requested' <= n
    BY <1>2, <2>1
  <2>3. stockAt' \in {"start", "send"} /\ wsStream' \in BOOLEAN
    BY <1>2, <2>1
  <2>4. requested' # n => requested' < n
    BY <1>1, <1>2, <2>1
  <2>5. stockAt' = "send" => requested' < n
    BY <2>1, <2>4
  <2>6. reconnectCount' <= m
    <3>1. reconnectCount' \in {0, reconnectCount}
      BY <2>1
    <3> QED
      BY <1>1, <1>2, <3>1
  <2> QED
    BY <1>3, <2>1, <2>2, <2>3, <2>5, <2>6 DEF Stages
<1>9. CASE CallFails
  BY <1>2, <1>3, <1>9 DEF CallFails, Stages
<1>10. CASE ls_start \/ SendFails \/ StreamLost
  BY <1>2, <1>3, <1>10 DEF ls_start, SendFails, StreamLost, Stages
<1>11. CASE TryAgain
  BY <1>1, <1>2, <1>3, <1>11 DEF TryAgain, Stages
<1>12. CASE TokenAges
  BY <1>2, <1>3, <1>12 DEF TokenAges
<1>13. ASSUME NEW code, HandleMessage(code) PROVE StockWithin'
  BY <1>2, <1>3, <1>13 DEF HandleMessage
<1>14. CASE UNCHANGED tvars
  BY <1>2, <1>3, <1>14 DEF tvars
<1> QED
  BY <1>4, <1>5, <1>6, <1>7, <1>8, <1>9, <1>10, <1>11, <1>12, <1>13, <1>14 DEF StockNext

\* No feed sends a request too many, and none reconnects more often than it may.
LEMMA StockTypes == StockSpec => []StockTypeOK
<1>1. StockInit => StockWithin
  <2> SUFFICES ASSUME StockInit PROVE StockWithin
    OBVIOUS
  <2>1. PICK n \in Nat \ {0}, m \in Nat : n = ToSend /\ m = reconnect_limit
    BY StockAssumption DEF ToSend, create_subscription, create_enhanced_subscription, reconnect_limit
  <2>2. stock \in StockFeeds /\ stockAt = "connect" /\ left = 0 /\ wsStream = FALSE /\ requested = 0 /\ tooLate = 0
        /\ reconnectCount = 0
    BY DEF StockInit
  <2>3. left <= Lifetime /\ requested <= n /\ requested < n /\ tooLate <= requested /\ reconnectCount <= m
    BY <2>1, <2>2, StockAssumption
  <2> QED
    BY <2>1, <2>2, <2>3 DEF StockWithin, Stages
<1>2. StockInv /\ StockWithin => StockTypeOK
  <2> SUFFICES ASSUME StockInv, StockWithin PROVE StockTypeOK
    OBVIOUS
  <2>1. PICK n \in Nat \ {0}, m \in Nat : n = ToSend /\ m = reconnect_limit
    BY StockAssumption DEF ToSend, create_subscription, create_enhanced_subscription, reconnect_limit
  <2>2. left \in 0 .. Lifetime
    BY StockAssumption DEF StockInv, StockWithin
  <2>3. requested \in 0 .. ToSend /\ tooLate \in 0 .. requested /\ reconnectCount \in 0 .. reconnect_limit
    BY <2>1 DEF StockInv, StockWithin
  <2> QED
    BY <2>2, <2>3 DEF StockInv, StockWithin, StockTypeOK
<1> QED
  BY <1>1, <1>2, StockWithinSteps, StockStarts, StockSteps, PTL DEF StockSpec

\* The elements of a sequence are those of a larger set.
LEMMA SeqOfMore == ASSUME NEW S, NEW T, S \subseteq T, NEW s \in Seq(S) PROVE s \in Seq(T)
OBVIOUS

\* No entry is anywhere before it was logged, and a buffer has no more than were.
LogWithin ==
    /\ entries <= MaxEntries
    /\ gate \in LogTasks \cup {"nobody"}
    /\ \A k \in LogKinds : Len(backlog[k]) <= entries /\ backlog[k] \in Seq(1 .. entries)
    /\ lines \subseteq 1 .. entries /\ delivered \subseteq 1 .. entries
    /\ \A t \in LogTasks : job[t].todo \in Seq(1 .. entries)

\* A step that logs nothing.
LEMMA NothingLogged ==
    ASSUME LogInv, LogWithin, entries' = entries, gate' \in LogTasks \cup {"nobody"},
           lines' \subseteq 1 .. entries, delivered' \subseteq 1 .. entries,
           \A k \in LogKinds : backlog'[k] \in {backlog[k], <<>>},
           \A t \in LogTasks : job'[t].todo \in Seq(1 .. entries)
    PROVE  LogWithin'
<1>1. <<>> \in Seq(1 .. entries) /\ Len(<<>>) = 0 /\ entries \in Nat
  BY DEF LogInv, LogShape
<1>2. ASSUME NEW k \in LogKinds PROVE Len(backlog'[k]) <= entries' /\ backlog'[k] \in Seq(1 .. entries')
  <2>1. CASE backlog'[k] = backlog[k]
    BY <2>1 DEF LogWithin
  <2>2. CASE backlog'[k] = <<>>
    <3>1. Len(backlog'[k]) <= entries
      BY <1>1, <2>2
    <3> QED
      BY <1>1, <2>2, <3>1
  <2> QED
    BY <2>1, <2>2
<1> QED
  BY <1>2 DEF LogWithin

\* The todo of a task that gets another job, and the others'.
LEMMA TodoOf ==
    ASSUME LogInv, LogWithin, NEW t \in LogTasks, NEW j, j.todo \in Seq(1 .. entries), job' = [job EXCEPT ![t] = j]
    PROVE  \A u \in LogTasks : job'[u].todo \in Seq(1 .. entries)
<1>1. job \in [LogTasks -> Job]
  BY DEF LogInv, LogShape
<1> QED
  BY <1>1 DEF LogWithin

\* After GoOn and GiveUp a task has no entry in hand.
LEMMA GoneOn ==
    ASSUME LogInv, LogWithin, NEW t \in LogTasks, GoOn(t) \/ GiveUp(t)
    PROVE  \A u \in LogTasks : job'[u].todo \in Seq(1 .. entries)
<1>1. job \in [LogTasks -> Job] /\ <<>> \in Seq(1 .. entries)
  BY DEF LogInv, LogShape
<1>2. PICK j : job' = [job EXCEPT ![t] = j] /\ j.todo = <<>>
  <2>1. Done.todo = <<>> /\ [Done EXCEPT !.step = "flush", !.kinds = Tail(job[t].kinds)].todo = <<>>
    BY DEF Done
  <2> QED
    BY <2>1, <1>1 DEF GoOn, GiveUp
<1> QED
  BY <1>1, <1>2, TodoOf

\* A new entry is the last one of its buffer.
LEMMA EntryWithin ==
    ASSUME LogInv, LogWithin, NEW t \in LogCallers,
           log_connection_event(t) \/ log_performance(t) \/ log_error(t) \/ log_processing_stats(t)
    PROVE  LogWithin'
<1>1. t \in LogTasks
  BY DEF LogTasks
<1>2. PICK k \in LogKinds :
        /\ Pushed(k)
        /\ \/ job' = [job EXCEPT ![t] = [Done EXCEPT !.step = "flush", !.kinds = <<k>>]]
           \/ job' = job
  <2>1. CASE log_connection_event(t)
    BY <2>1 DEF log_connection_event, LogKinds
  <2>2. ASSUME NEW k \in LogKinds, Buffered(t, k)
        PROVE  /\ Pushed(k)
               /\ \/ job' = [job EXCEPT ![t] = [Done EXCEPT !.step = "flush", !.kinds = <<k>>]]
                  \/ job' = job
    BY <2>2 DEF Buffered
  <2>3. (log_performance(t) \/ log_error(t) \/ log_processing_stats(t)) => \E k \in LogKinds : Buffered(t, k)
    BY DEF log_performance, log_error, log_processing_stats, LogKinds
  <2> QED
    BY <2>1, <2>2, <2>3
<1>3. entries \in Nat /\ entries < MaxEntries /\ entries' = entries + 1 /\ UNCHANGED <<gate, lines, delivered>>
      /\ backlog \in [LogKinds -> Seq(Nat)] /\ backlog' = [backlog EXCEPT ![k] = Append(backlog[k], entries')]
  BY <1>2 DEF Pushed, LogInv, LogShape
<1>4. entries' <= MaxEntries /\ 1 .. entries \subseteq 1 .. entries' /\ entries' \in 1 .. entries' /\ entries <= entries'
  BY <1>3, LogAssumption
<1>5. \A l \in LogKinds : Len(backlog'[l]) <= entries' /\ backlog'[l] \in Seq(1 .. entries')
  <2>1. ASSUME NEW l \in LogKinds
        PROVE  backlog[l] \in Seq(1 .. entries') /\ Len(backlog[l]) <= entries /\ Len(backlog[l]) \in Nat
    <3>1. backlog[l] \in Seq(1 .. entries) /\ Len(backlog[l]) <= entries
      BY DEF LogWithin
    <3>2. backlog[l] \in Seq(1 .. entries')
      BY <1>4, <3>1, SeqOfMore, Zenon
    <3> QED
      BY <3>1, <3>2
  <2>2. Append(backlog[k], entries') \in Seq(1 .. entries') /\ Len(Append(backlog[k], entries')) = Len(backlog[k]) + 1
    BY <1>4, <2>1, AppendProperties
  <2>3. \A l \in LogKinds : backlog'[l] = IF l = k THEN Append(backlog[k], entries') ELSE backlog[l]
    BY <1>3
  <2>4. Len(backlog[k]) + 1 <= entries' /\ \A l \in LogKinds : Len(backlog[l]) <= entries'
    BY <1>3, <2>1
  <2> QED
    BY <2>1, <2>2, <2>3, <2>4
<1>6. \A u \in LogTasks : job'[u].todo \in Seq(1 .. entries')
  <2>1. \A u \in LogTasks : job'[u].todo \in Seq(1 .. entries)
    <3>1. [Done EXCEPT !.step = "flush", !.kinds = <<k>>].todo = <<>> /\ <<>> \in Seq(1 .. entries)
      BY DEF Done
    <3>2. CASE job' = job
      BY <3>2 DEF LogWithin
    <3> QED
      BY <1>1, <1>2, <3>1, <3>2, TodoOf
  <2> QED
    BY <1>4, <2>1, SeqOfMore
<1> QED
  BY <1>3, <1>4, <1>5, <1>6 DEF LogWithin

\* Every step of the log.
LEMMA LogWithinSteps == LogInv /\ LogWithin /\ [LogNext]_lvars => LogWithin'
<1> SUFFICES ASSUME LogInv, LogWithin, [LogNext]_lvars PROVE LogWithin'
  OBVIOUS
<1>1. /\ entries \in Nat /\ job \in [LogTasks -> Job] /\ backlog \in [LogKinds -> Seq(Nat)]
      /\ \A t \in LogTasks : job[t].step # "idle" => Head(job[t].kinds) \in LogKinds
  <2>1. \A t \in LogTasks : job[t].step # "idle" => job[t].kinds \in Seq(LogKinds) /\ job[t].kinds # <<>>
    BY DEF LogInv, LogShape, Job
  <2> QED
    BY <2>1 DEF LogInv, LogShape
<1>2. CASE UNCHANGED lvars
  BY <1>2 DEF lvars, LogWithin
<1>3. CASE flush_all
  <2> DEFINE j == [Done EXCEPT !.step = "flush", !.kinds = <<"connection", "performance", "errors", "processing">>]
  <2>1. j.todo \in Seq(1 .. entries) /\ Periodic \in LogTasks
    BY DEF Done, LogTasks
  <2>2. job' = [job EXCEPT ![Periodic] = j] /\ UNCHANGED <<backlog, holder, gate, lines, entries, delivered>>
    BY <1>3 DEF flush_all
  <2> HIDE DEF j
  <2>3. \A u \in LogTasks : job'[u].todo \in Seq(1 .. entries)
    BY <2>1, <2>2, TodoOf
  <2> QED
    BY <2>2, <2>3, NothingLogged DEF LogWithin
<1>4. ASSUME NEW t \in LogTasks, LockBacklog(t) PROVE LogWithin'
  <2>1. UNCHANGED <<backlog, gate, lines, entries, delivered>>
        /\ (GoOn(t) \/ job' = [job EXCEPT ![t].step = "gate"])
    BY <1>4 DEF LockBacklog
  <2>2. \A u \in LogTasks : job'[u].todo \in Seq(1 .. entries)
    <3>1. CASE GoOn(t)
      BY <3>1, GoneOn
    <3>2. CASE job' = [job EXCEPT ![t].step = "gate"]
      <4>1. \A u \in LogTasks : job'[u].todo = job[u].todo
        BY <1>1, <3>2 DEF Job
      <4> QED
        BY <4>1 DEF LogWithin
    <3> QED
      BY <2>1, <3>1, <3>2
  <2> QED
    BY <2>1, <2>2, NothingLogged DEF LogWithin
<1>5. ASSUME NEW t \in LogTasks, LockClient(t) PROVE LogWithin'
  <2>1. /\ UNCHANGED <<backlog, lines, entries, delivered>> /\ gate' = t
        /\ job' = [job EXCEPT ![t].step = "write", ![t].todo = backlog[Head(job[t].kinds)]]
        /\ job[t].step # "idle"
    BY <1>5 DEF LockClient
  <2>2. \A u \in LogTasks : job'[u].todo = IF u = t THEN backlog[Head(job[t].kinds)] ELSE job[u].todo
    BY <1>1, <2>1 DEF Job
  <2>3. \A u \in LogTasks : job'[u].todo \in Seq(1 .. entries)
    BY <1>1, <2>1, <2>2 DEF LogWithin
  <2>4. \A k \in LogKinds : backlog'[k] \in {backlog[k], <<>>}
    BY <2>1
  <2>5. gate' \in LogTasks \cup {"nobody"} /\ lines' \subseteq 1 .. entries /\ delivered' \subseteq 1 .. entries
        /\ entries' = entries
    BY <2>1 DEF LogWithin
  <2> QED
    BY <2>3, <2>4, <2>5, NothingLogged
<1>6. ASSUME NEW t \in LogTasks, add_to_buffer(t) PROVE LogWithin'
  <2>1. /\ UNCHANGED <<backlog, entries>> /\ job[t].todo # <<>>
        /\ \/ job' = [job EXCEPT ![t].todo = Tail(@)] /\ gate' = gate
           \/ GiveUp(t) /\ gate' = "nobody"
        /\ lines' \subseteq lines \cup {Head(job[t].todo)}
        /\ delivered' \subseteq delivered \cup lines \cup {Head(job[t].todo)}
    BY <1>6 DEF add_to_buffer, flush_internal, Unlock
  <2>2. Head(job[t].todo) \in 1 .. entries /\ Tail(job[t].todo) \in Seq(1 .. entries)
    <3>1. job[t].todo \in Seq(1 .. entries)
      BY DEF LogWithin
    <3> QED
      BY <2>1, <3>1, HeadTailProperties
  <2>3. \A u \in LogTasks : job'[u].todo \in Seq(1 .. entries)
    <3>1. CASE GiveUp(t)
      BY <3>1, GoneOn
    <3>2. CASE job' = [job EXCEPT ![t].todo = Tail(@)]
      <4>1. \A u \in LogTasks : job'[u].todo = IF u = t THEN Tail(job[t].todo) ELSE job[u].todo
        BY <1>1, <3>2 DEF Job
      <4> QED
        BY <2>2, <4>1 DEF LogWithin
    <3> QED
      BY <2>1, <3>1, <3>2
  <2>4. lines' \subseteq 1 .. entries /\ delivered' \subseteq 1 .. entries
    BY <2>1, <2>2 DEF LogWithin
  <2> QED
    BY <2>1, <2>3, <2>4, NothingLogged DEF LogWithin
<1>7. ASSUME NEW t \in LogTasks, FlushEnd(t) PROVE LogWithin'
  <2>1. /\ entries' = entries /\ gate' = "nobody" /\ lines' = {} /\ delivered' \subseteq delivered \cup lines
        /\ GoOn(t) \/ GiveUp(t)
        /\ backlog' = backlog \/ backlog' = [backlog EXCEPT ![Head(job[t].kinds)] = <<>>]
    BY <1>7 DEF FlushEnd, flush_internal, Unlock
  <2>2. \A k \in LogKinds : backlog'[k] \in {backlog[k], <<>>}
    BY <1>1, <2>1
  <2>3. \A u \in LogTasks : job'[u].todo \in Seq(1 .. entries)
    BY <2>1, GoneOn
  <2> QED
    BY <2>1, <2>2, <2>3, NothingLogged DEF LogWithin
<1> QED
  BY <1>2, <1>3, <1>4, <1>5, <1>6, <1>7, EntryWithin DEF LogNext

\* Buffers, lines and what was delivered hold entries that were logged, and no more of
\* them than may be.
LEMMA LogTypes == LogSpec => []LogTypeOK
<1>1. LogInit => LogWithin
  <2> SUFFICES ASSUME LogInit PROVE LogWithin
    OBVIOUS
  <2>1. \A k \in LogKinds : backlog[k] = <<>>
    BY DEF LogInit
  <2>2. \A t \in LogTasks : job[t].todo = <<>>
    BY DEF LogInit, Done
  <2>3. entries = 0 /\ gate = "nobody" /\ lines = {} /\ delivered = {} /\ 0 <= MaxEntries
    BY LogAssumption DEF LogInit
  <2>4. <<>> \in Seq(1 .. entries)
    OBVIOUS
  <2>5. Len(<<>>) <= entries
    BY <2>3
  <2>6. \A k \in LogKinds : Len(backlog[k]) <= entries /\ backlog[k] \in Seq(1 .. entries)
    BY <2>1, <2>4, <2>5, Zenon
  <2>7. \A t \in LogTasks : job[t].todo \in Seq(1 .. entries)
    BY <2>2, <2>4, Zenon
  <2>8. entries <= MaxEntries /\ gate \in LogTasks \cup {"nobody"} /\ lines \subseteq 1 .. entries /\ delivered \subseteq 1 .. entries
    BY <2>3
  <2> QED
    BY <2>6, <2>7, <2>8 DEF LogWithin
<1>2. LogInv /\ LogWithin => LogTypeOK
  <2> SUFFICES ASSUME LogInv, LogWithin PROVE LogTypeOK
    OBVIOUS
  <2>1. entries \in Nat /\ entries <= MaxEntries /\ MaxEntries \in Nat
    BY LogAssumption DEF LogInv, LogShape, LogWithin
  <2>2. 1 .. entries \subseteq 1 .. MaxEntries
    BY <2>1
  <2>3. \A k \in LogKinds : holder[k] \in LogTasks \cup {"nobody"} /\ Len(backlog[k]) <= MaxEntries
    <3>1. \A k \in LogKinds : Len(backlog[k]) \in Nat /\ Len(backlog[k]) <= entries
      BY DEF LogInv, LogShape, LogWithin
    <3>2. \A k \in LogKinds : Len(backlog[k]) <= MaxEntries
      BY <2>1, <3>1
    <3> QED
      BY <3>2 DEF LogInv, LogShape
  <2>4. \A t \in LogTasks : job[t].step \in {"idle", "flush", "gate", "write"}
    BY DEF LogInv, LogShape, Job
  <2> QED
    BY <2>2, <2>3, <2>4 DEF LogTypeOK, LogWithin
<1> QED
  BY <1>1, <1>2, LogWithinSteps, LogStarts, LogSteps, PTL DEF LogSpec

--------------------------------------------------------------------------------
(* The order book manager.                                                 *)

\* The tasks that are about to make a builder, and those that hold one which is not in
\* the map yet.
Creating == {t \in ManagerTasks : where[t] = "create"}
Inserting == {t \in ManagerTasks : where[t] = "insert"}

\* As long as the map is empty, whoever has made a builder is about to put it there: no
\* task makes a second one.
ManagerWithin ==
    /\ Cardinality(Creating) + Len(builders) <= Cardinality(ManagerTasks)
    /\ entry = 0 => Len(builders) = Cardinality(Inserting)
    /\ \A b \in Made : Len(builders[b].inbox) <= UpdateCapacity
    /\ Len(books) <= BooksCapacity
    /\ consumer \in BOOLEAN /\ doubled \in BOOLEAN /\ stopped \in BOOLEAN

\* Tasks of two kinds are no more than there are.
LEMMA TwoKinds ==
    ASSUME NEW A, A \subseteq ManagerTasks, NEW B, B \subseteq ManagerTasks \ A
    PROVE  /\ Cardinality(A) \in Nat /\ Cardinality(B) \in Nat /\ Cardinality(ManagerTasks) \in Nat
           /\ Cardinality(A) + Cardinality(B) <= Cardinality(ManagerTasks)
           /\ IsFiniteSet(A) /\ IsFiniteSet(B)
<1>1. IsFiniteSet(ManagerTasks)
  BY ManagerAssumption
<1>2. IsFiniteSet(A) /\ IsFiniteSet(B) /\ IsFiniteSet(ManagerTasks \ A)
  BY <1>1, FS_Subset, FS_Difference
<1>3. Cardinality(B) <= Cardinality(ManagerTasks \ A)
  BY <1>2, FS_Subset
<1>4. ManagerTasks \cap A = A
  OBVIOUS
<1>5. Cardinality(ManagerTasks \ A) = Cardinality(ManagerTasks) - Cardinality(A)
  BY <1>1, <1>4, FS_Difference
<1>6. Cardinality(A) \in Nat /\ Cardinality(B) \in Nat /\ Cardinality(ManagerTasks) \in Nat
  BY <1>1, <1>2, FS_CardinalityType
<1> QED
  BY <1>2, <1>3, <1>5, <1>6

\* How many tasks there are of each kind.
LEMMA TasksOf ==
    ManagerInv => /\ Cardinality(Creating) \in Nat /\ Cardinality(Inserting) \in Nat /\ Cardinality(ManagerTasks) \in Nat
                  /\ Cardinality(Creating) + Cardinality(Inserting) <= Cardinality(ManagerTasks)
                  /\ IsFiniteSet(Creating) /\ IsFiniteSet(Inserting)
                  /\ Len(builders) \in Nat
<1> SUFFICES ASSUME ManagerInv
             PROVE /\ Cardinality(Creating) \in Nat /\ Cardinality(Inserting) \in Nat /\ Cardinality(ManagerTasks) \in Nat
                   /\ Cardinality(Creating) + Cardinality(Inserting) <= Cardinality(ManagerTasks)
                   /\ IsFiniteSet(Creating) /\ IsFiniteSet(Inserting)
                   /\ Len(builders) \in Nat
  OBVIOUS
<1>1. Creating \subseteq ManagerTasks /\ Inserting \subseteq ManagerTasks \ Creating
  BY DEF Creating, Inserting
<1>2. Len(builders) \in Nat
  BY DEF ManagerInv, ManagerShape
<1> QED
  BY <1>1, <1>2, TwoKinds

\* A step in which no task begins or stops to make a builder.
LEMMA ChannelsWithin ==
    ASSUME ManagerInv, ManagerWithin, UNCHANGED <<where, entry, doubled>>,
           Len(builders') = Len(builders),
           \A b \in Made' : Len(builders'[b].inbox) <= UpdateCapacity,
           Len(books') <= BooksCapacity, consumer' \in BOOLEAN, stopped' \in BOOLEAN
    PROVE  ManagerWithin'
<1>1. Creating' = Creating /\ Inserting' = Inserting
  BY DEF Creating, Inserting
<1> QED
  BY <1>1 DEF ManagerWithin

\* A task has looked up its builder.
LEMMA LookUpWithin ==
    ASSUME ManagerInv, ManagerWithin, NEW t \in ManagerTasks, LookUp(t) PROVE ManagerWithin'
<1>1. where[t] = "idle" /\ where \in [ManagerTasks -> {"idle", "create", "insert", "send"}]
      /\ UNCHANGED <<entry, builders, books, consumer, stopped>>
  BY DEF LookUp, ManagerInv, ManagerShape
<1>2. CASE entry # 0
  <2>1. Creating' = Creating /\ doubled' \in BOOLEAN
    BY <1>1, <1>2 DEF LookUp, Creating, ManagerWithin
  <2> QED
    BY <1>1, <1>2, <2>1 DEF ManagerWithin, Made
<1>3. CASE entry = 0
  <2>1. Inserting' = Inserting /\ doubled' \in BOOLEAN
    BY <1>1, <1>3 DEF LookUp, Inserting, ManagerWithin
  <2>2. Creating' \subseteq ManagerTasks /\ Inserting' \subseteq ManagerTasks \ Creating'
    BY DEF Creating, Inserting
  <2>3. Cardinality(Creating') + Cardinality(Inserting') <= Cardinality(ManagerTasks)
    BY <2>2, TwoKinds
  <2>4. Len(builders') = Cardinality(Inserting')
    BY <1>1, <1>3, <2>1 DEF ManagerWithin
  <2> QED
    BY <1>1, <2>1, <2>3, <2>4 DEF ManagerWithin, Made
<1> QED
  BY <1>2, <1>3

\* One task less that creates, one builder more.
LEMMA CreateWithin ==
    ASSUME ManagerInv, ManagerWithin, NEW t \in ManagerTasks, CreateBuilder(t) PROVE ManagerWithin'
<1> DEFINE made == [inbox |-> <<>>, runs |-> TRUE]
           Builder == [inbox : Seq(Nat), runs : BOOLEAN]
<1>1. where[t] = "create" /\ where' = [where EXCEPT ![t] = "insert"] /\ builders' = Append(builders, made)
      /\ where \in [ManagerTasks -> {"idle", "create", "insert", "send"}] /\ builders \in Seq(Builder)
      /\ UNCHANGED <<entry, books, consumer, doubled, stopped>>
  BY DEF CreateBuilder, ManagerInv, ManagerShape
<1>2. made \in Builder /\ Len(made.inbox) = 0 /\ UpdateCapacity \in Nat
  BY ManagerAssumption
<1> HIDE DEF made, Builder
<1>3. /\ Len(builders') = Len(builders) + 1 /\ Len(builders) \in Nat
      /\ DOMAIN builders' = 1 .. Len(builders) + 1 /\ DOMAIN builders = 1 .. Len(builders)
      /\ builders'[Len(builders) + 1] = made /\ \A b \in 1 .. Len(builders) : builders'[b] = builders[b]
  BY <1>1, <1>2
<1>4. \A b \in Made' : Len(builders'[b].inbox) <= UpdateCapacity
  <2> SUFFICES ASSUME NEW b \in Made' PROVE Len(builders'[b].inbox) <= UpdateCapacity
    OBVIOUS
  <2>1. b \in 1 .. Len(builders) \/ b = Len(builders) + 1
    BY <1>3 DEF Made
  <2>2. CASE b \in 1 .. Len(builders)
    BY <1>3, <2>2 DEF ManagerWithin, Made
  <2>3. CASE b = Len(builders) + 1
    BY <1>2, <1>3, <2>3
  <2> QED
    BY <2>1, <2>2, <2>3
<1>5. Creating' = Creating \ {t} /\ t \in Creating /\ Inserting' = Inserting \cup {t} /\ t \notin Inserting
  BY <1>1 DEF Creating, Inserting
<1>6. Cardinality(Creating') = Cardinality(Creating) - 1 /\ Cardinality(Inserting') = Cardinality(Inserting) + 1
  BY <1>5, TasksOf, FS_AddElement, FS_RemoveElement
<1>7. Cardinality(Creating') + Len(builders') <= Cardinality(ManagerTasks)
  BY <1>3, <1>6, TasksOf DEF ManagerWithin
<1>8. entry' = 0 => Len(builders') = Cardinality(Inserting')
  BY <1>1, <1>3, <1>6, TasksOf DEF ManagerWithin
<1> QED
  BY <1>1, <1>4, <1>7, <1>8 DEF ManagerWithin

\* A builder that a task has made gets into the map.
LEMMA InsertWithin ==
    ASSUME ManagerInv, ManagerWithin, NEW t \in ManagerTasks, InsertBuilder(t) PROVE ManagerWithin'
<1>1. where[t] = "insert" /\ where' = [where EXCEPT ![t] = "send"] /\ entry' = tx[t] /\ tx[t] \in 1 .. Len(builders)
      /\ where \in [ManagerTasks -> {"idle", "create", "insert", "send"}]
      /\ UNCHANGED <<builders, books, consumer, doubled, stopped>>
  BY DEF InsertBuilder, ManagerInv, ManagerShape
<1>2. Creating' = Creating
  BY <1>1 DEF Creating
<1>3. entry' # 0
  BY <1>1
<1> QED
  BY <1>1, <1>2, <1>3 DEF ManagerWithin, Made

\* A builder is replaced by one whose inbox has room.
LEMMA BuilderChanges ==
    ASSUME ManagerInv, ManagerWithin, NEW b \in Made, NEW new \in [inbox : Seq(Nat), runs : BOOLEAN],
           Len(new.inbox) <= UpdateCapacity, builders' = [builders EXCEPT ![b] = new]
    PROVE  Len(builders') = Len(builders) /\ \A c \in Made' : Len(builders'[c].inbox) <= UpdateCapacity
<1> DEFINE Builder == [inbox : Seq(Nat), runs : BOOLEAN]
<1>1. builders \in Seq(Builder) /\ b \in 1 .. Len(builders) /\ new \in Builder
  BY MadeOf
<1> HIDE DEF Builder
<1>2. DOMAIN builders' = DOMAIN builders /\ Len(builders') = Len(builders)
  BY <1>1
<1>3. \A c \in Made : builders'[c] = IF c = b THEN new ELSE builders[c]
  BY DEF Made
<1> QED
  BY <1>1, <1>2, <1>3 DEF ManagerWithin, Made

\* An update waits for room.
LEMMA SendWithin ==
    ASSUME ManagerInv, ManagerWithin, NEW t \in ManagerTasks, SendToBuilder(t) PROVE ManagerWithin'
<1> DEFINE b == tx[t]
           Builder == [inbox : Seq(Nat), runs : BOOLEAN]
<1>1. /\ where[t] = "send" /\ where' = [where EXCEPT ![t] = "idle"]
      /\ where \in [ManagerTasks -> {"idle", "create", "insert", "send"}] /\ builders \in Seq(Builder)
      /\ b \in 1 .. Len(builders) /\ offered \in Nat
      /\ UNCHANGED <<entry, books, consumer, doubled, stopped>>
      /\ \/ builders' = builders
         \/ Len(builders[b].inbox) < UpdateCapacity /\ builders' = [builders EXCEPT ![b].inbox = Append(@, offered + 1)]
  BY DEF SendToBuilder, ManagerInv, ManagerShape
<1> HIDE DEF b
<1>2. Creating' = Creating /\ Inserting' = Inserting
  BY <1>1 DEF Creating, Inserting
<1>3. Len(builders') = Len(builders) /\ \A c \in Made' : Len(builders'[c].inbox) <= UpdateCapacity
  <2>1. CASE builders' = builders
    BY <2>1 DEF ManagerWithin, Made
  <2>2. CASE Len(builders[b].inbox) < UpdateCapacity /\ builders' = [builders EXCEPT ![b].inbox = Append(@, offered + 1)]
    <3>1. b \in Made /\ builders[b] \in Builder
      <4> HIDE DEF Builder
      <4> QED
        BY <1>1 DEF Made
    <3>2. builders[b].inbox \in Seq(Nat) /\ offered + 1 \in Nat
      BY <1>1, <3>1
    <3>3. Len(Append(builders[b].inbox, offered + 1)) <= UpdateCapacity
      <4>1. Len(Append(builders[b].inbox, offered + 1)) = Len(builders[b].inbox) + 1 /\ Len(builders[b].inbox) \in Nat
        BY <3>2, AppendProperties
      <4> QED
        BY <2>2, <4>1, ManagerAssumption
    <3>4. PICK q \in Seq(Nat) : q = Append(builders[b].inbox, offered + 1) /\ Len(q) <= UpdateCapacity
      BY <3>2, <3>3, AppendProperties
    <3>5. [builders[b] EXCEPT !.inbox = q] \in Builder /\ [builders[b] EXCEPT !.inbox = q].inbox = q
      BY <3>1
    <3>6. builders' = [builders EXCEPT ![b] = [builders[b] EXCEPT !.inbox = q]]
      BY <2>2, <3>4
    <3> QED
      BY <3>1, <3>4, <3>5, <3>6, BuilderChanges
  <2> QED
    BY <1>1, <2>1, <2>2
<1> QED
  BY <1>1, <1>2, <1>3 DEF ManagerWithin

\* Every step of the manager.
LEMMA ManagerWithinSteps == ManagerInv /\ ManagerWithin /\ [ManagerNext]_bvars => ManagerWithin'
<1> SUFFICES ASSUME ManagerInv, ManagerWithin, [ManagerNext]_bvars PROVE ManagerWithin'
  OBVIOUS
<1> DEFINE Builder == [inbox : Seq(Nat), runs : BOOLEAN]
<1>1. /\ consumer \in BOOLEAN /\ stopped \in BOOLEAN /\ Len(books) <= BooksCapacity /\ books \in Seq(Nat)
      /\ UpdateCapacity \in Nat /\ BooksCapacity \in Nat
      /\ \A b \in Made : Len(builders[b].inbox) <= UpdateCapacity
  BY ManagerAssumption DEF ManagerInv, ManagerShape, ManagerWithin
<1>2. ASSUME NEW b \in Made, BuildBook(b) PROVE ManagerWithin'
  <2> DEFINE first == Head(builders[b].inbox)
             after == Tail(builders[b].inbox)
  <2>1. /\ builders[b].inbox # <<>> /\ Len(books) < BooksCapacity
        /\ books' = Append(books, first) /\ builders' = [builders EXCEPT ![b].inbox = after]
        /\ UNCHANGED <<where, entry, doubled, consumer, stopped>>
    BY <1>2 DEF BuildBook
  <2>2. builders[b] \in Builder /\ builders[b].inbox \in Seq(Nat)
    BY MadeOf
  <2>3. first \in Nat /\ after \in Seq(Nat) /\ Len(after) = Len(builders[b].inbox) - 1 /\ Len(builders[b].inbox) \in Nat
    BY <2>1, <2>2, HeadTailProperties, LenProperties
  <2> HIDE DEF first, after
  <2>4. Len(books') <= BooksCapacity
    <3>1. Len(books') = Len(books) + 1 /\ Len(books) \in Nat
      BY <1>1, <2>1, <2>3, AppendProperties
    <3> QED
      BY <1>1, <2>1, <3>1
  <2>5. Len(after) <= UpdateCapacity
    BY <1>1, <2>3
  <2>6. [builders[b] EXCEPT !.inbox = after] \in Builder /\ [builders[b] EXCEPT !.inbox = after].inbox = after
        /\ builders' = [builders EXCEPT ![b] = [builders[b] EXCEPT !.inbox = after]]
    BY <2>1, <2>2, <2>3
  <2>7. Len(builders') = Len(builders) /\ \A c \in Made' : Len(builders'[c].inbox) <= UpdateCapacity
    BY <2>5, <2>6, BuilderChanges
  <2> QED
    BY <1>1, <2>1, <2>4, <2>7, ChannelsWithin
<1>3. ASSUME NEW b \in Made, EndBuilder(b) PROVE ManagerWithin'
  <2>1. builders' = [builders EXCEPT ![b] = [builders[b] EXCEPT !.runs = FALSE]]
        /\ UNCHANGED <<where, entry, doubled, books, consumer, stopped>>
    BY <1>3 DEF EndBuilder
  <2>2. builders[b] \in Builder
    BY MadeOf
  <2>3. [builders[b] EXCEPT !.runs = FALSE] \in Builder
        /\ Len([builders[b] EXCEPT !.runs = FALSE].inbox) <= UpdateCapacity
    BY <1>1, <2>2
  <2>4. Len(builders') = Len(builders) /\ \A c \in Made' : Len(builders'[c].inbox) <= UpdateCapacity
    BY <2>1, <2>3, BuilderChanges
  <2> QED
    BY <1>1, <2>1, <2>4, ChannelsWithin
<1>4. CASE start_consumer
  BY <1>1, <1>4, ChannelsWithin DEF start_consumer, Made
<1>5. CASE ConsumeBook
  <2>1. books # <<>> /\ books' = Tail(books) /\ UNCHANGED <<where, entry, doubled, builders, consumer, stopped>>
    BY <1>5 DEF ConsumeBook
  <2>2. Len(books') <= BooksCapacity
    <3>1. Len(books') = Len(books) - 1 /\ Len(books) \in Nat
      BY <1>1, <2>1, HeadTailProperties, LenProperties
    <3> QED
      BY <1>1, <3>1
  <2> QED
    BY <1>1, <2>1, <2>2, ChannelsWithin DEF Made
<1>6. CASE shutdown
  <2>1. stopped' = TRUE /\ UNCHANGED <<where, entry, doubled, books, consumer>>
        /\ builders' = IF entry = 0 THEN builders ELSE [builders EXCEPT ![entry] = [inbox |-> <<>>, runs |-> FALSE]]
    BY <1>6 DEF shutdown
  <2>2. Len(builders') = Len(builders) /\ \A c \in Made' : Len(builders'[c].inbox) <= UpdateCapacity
    <3>1. CASE entry = 0
      BY <1>1, <2>1, <3>1 DEF Made
    <3>2. CASE entry # 0
      <4>1. entry \in Made
        <5>1. builders \in Seq(Builder) /\ entry \in 1 .. Len(builders)
          BY <3>2 DEF ManagerInv, ManagerShape
        <5> HIDE DEF Builder
        <5> QED
          BY <5>1 DEF Made
      <4>2. [inbox |-> <<>>, runs |-> FALSE] \in Builder /\ Len([inbox |-> <<>>, runs |-> FALSE].inbox) <= UpdateCapacity
        BY <1>1
      <4> QED
        BY <2>1, <3>2, <4>1, <4>2, BuilderChanges
    <3> QED
      BY <3>1, <3>2
  <2> QED
    BY <1>1, <2>1, <2>2, ChannelsWithin
<1>7. CASE UNCHANGED bvars
  BY <1>1, <1>7, ChannelsWithin DEF bvars, Made
<1> QED
  BY <1>2, <1>3, <1>4, <1>5, <1>6, <1>7, LookUpWithin, CreateWithin, InsertWithin, SendWithin DEF ManagerNext

\* No task makes a second builder, and no channel holds more than it has room for.
LEMMA ManagerTypes == ManagerSpec => []ManagerTypeOK
<1>1. ManagerInit => ManagerWithin
  <2> SUFFICES ASSUME ManagerInit PROVE ManagerWithin
    OBVIOUS
  <2>1. Creating = {} /\ Inserting = {}
    BY DEF ManagerInit, Creating, Inserting
  <2>2. Cardinality({}) = 0 /\ Cardinality(ManagerTasks) \in Nat
    BY FS_EmptySet, FS_CardinalityType, ManagerAssumption
  <2>3. builders = <<>> /\ books = <<>> /\ consumer = FALSE /\ doubled = FALSE /\ stopped = FALSE
    BY DEF ManagerInit
  <2>4. Len(builders) = 0 /\ Len(books) = 0 /\ Made = {}
    BY <2>3 DEF Made
  <2>5. Cardinality(Creating) + Len(builders) <= Cardinality(ManagerTasks) /\ Len(builders) = Cardinality(Inserting)
    BY <2>1, <2>2, <2>4
  <2>6. Len(books) <= BooksCapacity
    BY <2>4, ManagerAssumption
  <2> QED
    BY <2>3, <2>4, <2>5, <2>6 DEF ManagerWithin
<1>2. ManagerInv /\ ManagerWithin => ManagerTypeOK
  <2> SUFFICES ASSUME ManagerInv, ManagerWithin PROVE ManagerTypeOK
    OBVIOUS
  <2>1. Len(builders) <= Cardinality(ManagerTasks)
    BY TasksOf DEF ManagerWithin
  <2>2. entry \in 0 .. Len(builders) /\ tx \in [ManagerTasks -> 0 .. Len(builders)]
    <3>1. PICK n \in Nat : n = Len(builders)
      BY TasksOf
    <3>2. entry \in 0 .. n
      BY <3>1 DEF ManagerInv, ManagerShape
    <3>3. \A t \in ManagerTasks : tx[t] \in 0 .. n
      BY <3>1 DEF ManagerInv, ManagerShape
    <3> QED
      BY <3>1, <3>2, <3>3 DEF ManagerInv, ManagerShape
  <2> QED
    BY <2>1, <2>2 DEF ManagerInv, ManagerShape, ManagerWithin, ManagerTypeOK
<1> QED
  BY <1>1, <1>2, ManagerWithinSteps, ManagerStarts, ManagerSteps, PTL DEF ManagerSpec

--------------------------------------------------------------------------------
(* Persistence.                                                            *)

\* No book and no file is of an update that was not made, no file from before the first
\* write, and a recovery finds no other book.
PersistWithin ==
    /\ sequence <= MaxSequence
    /\ step \in {"idle", "write", "torn", "rename", "cleanup", "buffer", "down"}
    /\ \A f \in files : f.book <= MaxSequence /\ f.time >= 1
    /\ recovered.book <= MaxSequence

\* Every step of persistence.
LEMMA PersistWithinSteps == PersistInv /\ PersistWithin /\ [PersistNext]_pvars => PersistWithin'
<1> SUFFICES ASSUME PersistInv, PersistWithin, [PersistNext]_pvars PROVE PersistWithin'
  OBVIOUS
<1>1. sequence \in Nat /\ clock \in Nat /\ MaxSequence \in Nat /\ files \subseteq SnapshotFile
  BY PersistAssumption DEF PersistInv, PersistShape
<1>2. ASSUME NEW n \in 0 .. 1, NEW updates \in 0 .. 1, checkpoint(n, updates) PROVE PersistWithin'
  <2>1. sequence' = sequence + n /\ sequence + n + updates <= MaxSequence /\ UNCHANGED <<files, recovered>>
        /\ step' \in {"buffer", "write"}
    BY <1>2 DEF checkpoint
  <2>2. sequence' <= MaxSequence
    BY <1>1, <2>1
  <2> QED
    BY <2>1, <2>2 DEF PersistWithin
<1>3. ASSUME NEW whole \in BOOLEAN, WriteTemporary(whole) PROVE PersistWithin'
  <2>1. /\ UNCHANGED <<sequence, recovered>> /\ step' \in {"rename", "torn"} /\ clock' = clock + 1
        /\ files' \subseteq files \cup {[book |-> sequence, suffix |-> "tmp", whole |-> whole, time |-> clock']}
    BY <1>3 DEF WriteTemporary, Steady
  <2>2. \A f \in files' : f.book <= MaxSequence /\ f.time >= 1
    BY <1>1, <2>1 DEF PersistWithin
  <2> QED
    BY <2>1, <2>2 DEF PersistWithin
<1>4. CASE RenameTemporary
  <2>1. PICK t \in files : files' = {f \in files : f.book # sequence} \cup {[t EXCEPT !.suffix = "json"]}
    BY <1>4 DEF RenameTemporary
  <2>2. UNCHANGED <<sequence, recovered>> /\ step' = "cleanup"
    BY <1>4 DEF RenameTemporary, Steady
  <2>3. [t EXCEPT !.suffix = "json"].book = t.book /\ [t EXCEPT !.suffix = "json"].time = t.time
    BY <1>1 DEF SnapshotFile
  <2>4. \A f \in files' : f.book <= MaxSequence /\ f.time >= 1
    BY <2>1, <2>3 DEF PersistWithin
  <2> QED
    BY <2>2, <2>4 DEF PersistWithin
<1>5. CASE cleanup_old_snapshots
  <2>1. UNCHANGED <<sequence, recovered>> /\ files' \subseteq files /\ step' \in {step, "buffer"}
    BY <1>5 DEF cleanup_old_snapshots, Steady
  <2> QED
    BY <2>1 DEF PersistWithin
<1>6. ASSUME NEW whole \in BOOLEAN, save_buffer(whole) PROVE PersistWithin'
  BY <1>6 DEF save_buffer, Steady, PersistWithin
<1>7. CASE Fail \/ Crash
  BY <1>7 DEF Fail, Crash, Steady, PersistWithin
<1>8. CASE recover
  <2>1. sequence' = load_latest_state /\ files' = files /\ step' = "idle"
    BY <1>8 DEF recover
  <2>2. load_latest_state <= MaxSequence
    <3>1. CASE {f \in files : f.whole} = {}
      BY <1>1, <3>1 DEF load_latest_state
    <3>2. CASE {f \in files : f.whole} # {}
      <4>1. PICK g \in files : g.book = load_latest_state
        BY <3>2, LatestIsNewest
      <4> QED
        BY <4>1 DEF PersistWithin
    <3> QED
      BY <3>1, <3>2
  <2>3. recovered'.book = load_latest_state
    BY <1>8 DEF recover, Nobody
  <2> QED
    BY <2>1, <2>2, <2>3 DEF PersistWithin
<1>9. CASE UNCHANGED pvars
  BY <1>9 DEF pvars, PersistWithin
<1> QED
  BY <1>2, <1>3, <1>4, <1>5, <1>6, <1>7, <1>8, <1>9 DEF PersistNext

\* Files and books are of updates that were made.
LEMMA PersistTypes == PersistSpec => []PersistTypeOK
<1>1. PersistInit => PersistWithin
  BY PersistAssumption DEF PersistInit, PersistWithin, Nobody
<1>2. PersistInv /\ PersistWithin => PersistTypeOK
  <2> SUFFICES ASSUME PersistInv, PersistWithin PROVE PersistTypeOK
    OBVIOUS
  <2>1. sequence \in 0 .. MaxSequence /\ recovered.book \in 0 .. MaxSequence /\ since \in Nat
    BY PersistAssumption DEF PersistInv, PersistShape, PersistWithin
  <2>2. ASSUME NEW f \in files PROVE f.book \in 0 .. MaxSequence /\ f.suffix \in {"tmp", "json"} /\ f.time \in 1 .. clock
    <3>1. f.book \in Nat /\ f.time \in Nat /\ f.suffix \in {"tmp", "json"} /\ f.time <= clock /\ clock \in Nat
      BY DEF PersistInv, PersistShape, SnapshotFile
    <3>2. f.book <= MaxSequence /\ f.time >= 1 /\ MaxSequence \in Nat
      BY PersistAssumption DEF PersistWithin
    <3> QED
      BY <3>1, <3>2
  <2> QED
    BY <2>1, <2>2 DEF PersistTypeOK, PersistWithin
<1> QED
  BY <1>1, <1>2, PersistWithinSteps, PersistStarts, PersistSteps, PTL DEF PersistSpec

--------------------------------------------------------------------------------
(* The processes.                                                          *)

\* A sequence is a suffix of another if it agrees with the end of it.
LEMMA EndIsSuffix ==
    ASSUME NEW S, NEW p \in Seq(S), NEW s \in Seq(S), NEW d \in Nat, Len(p) = Len(s) + d,
           \A i \in 1 .. Len(s) : s[i] = p[i + d]
    PROVE  IsSuffix(s, p)
<1> DEFINE n == Len(s)
           m == Len(p)
           x == [i \in 1 .. n |-> s[(n - i) + 1]]
           y == [i \in 1 .. m |-> p[(m - i) + 1]]
<1>1. n \in Nat /\ m \in Nat /\ m = n + d
  OBVIOUS
<1>2. \A i \in 1 .. n : s[i] \in S
  OBVIOUS
<1>3. \A i \in 1 .. m : p[i] \in S
  OBVIOUS
<1>4. \A i \in 1 .. n : s[i] = p[i + d]
  OBVIOUS
<1>5. Reverse(s) = x /\ Reverse(p) = y
  BY DEF Reverse
<1> HIDE DEF n, m
<1>6. x \in Seq(S) /\ Len(x) = n
  <2>1. \A i \in 1 .. n : (n - i) + 1 \in 1 .. n
    BY <1>1
  <2> QED
    BY <1>1, <1>2, <2>1
<1>7. y \in Seq(S) /\ Len(y) = m
  <2>1. \A i \in 1 .. m : (m - i) + 1 \in 1 .. m
    BY <1>1
  <2> QED
    BY <1>1, <1>3, <2>1
<1>8. \A i \in 1 .. n : x[i] = y[i]
  <2> SUFFICES ASSUME NEW i \in 1 .. n PROVE x[i] = y[i]
    OBVIOUS
  <2>1. (n - i) + 1 \in 1 .. n /\ ((n - i) + 1) + d = (m - i) + 1 /\ i \in 1 .. m
    BY <1>1
  <2>2. s[(n - i) + 1] = p[((n - i) + 1) + d]
    BY <1>4, <2>1
  <2> QED
    BY <2>1, <2>2
<1> HIDE DEF x, y
<1>9. SubSeq(x, 1, n) = SubSeq(y, 1, n)
  <2>1. SubSeq(x, 1, n) = [i \in 1 .. n |-> x[i]]
    BY <1>1, <1>6
  <2>2. SubSeq(y, 1, n) = [i \in 1 .. n |-> y[i]]
    BY <1>1, <1>7
  <2> QED
    BY <1>8, <2>1, <2>2
<1>10. IsPrefix(x, y)
  BY <1>1, <1>6, <1>7, <1>9 DEF IsPrefix
<1> QED
  BY <1>5, <1>10 DEF IsSuffix

\* The program that runs, what it has filled and registered, and the rounds of its feeds.
ProcessWithin ==
    /\ binary \in Binaries
    /\ globals \subseteq Global /\ registered \subseteq Selected
    /\ rounds \in [Selected -> 0 .. MaxRounds]

\* Every step of a process.
LEMMA ProcessWithinSteps == ProcessInv /\ ProcessWithin /\ [ProcessNext]_hvars => ProcessWithin'
<1> SUFFICES ASSUME ProcessInv, ProcessWithin, [ProcessNext]_hvars PROVE ProcessWithin'
  OBVIOUS
<1>1. ASSUME NEW s, FillGlobal(s) \/ Continue(s) \/ StepFails(s) PROVE ProcessWithin'
  BY <1>1 DEF FillGlobal, Continue, StepFails, ProcessWithin
<1>2. CASE init \/ init_with_questdb
  BY <1>2 DEF init, init_with_questdb, InitLogger, ProcessWithin
<1>3. ASSUME NEW e \in Selected, SpawnFeed(e) PROVE ProcessWithin'
  BY <1>3 DEF SpawnFeed, ProcessWithin
<1>4. ASSUME NEW e \in Selected, start(e) PROVE ProcessWithin'
  <2>1. rounds[e] < MaxRounds /\ rounds' = [rounds EXCEPT ![e] = rounds[e] + 1] /\ rounds[e] \in Nat
        /\ rounds \in [Selected -> 0 .. MaxRounds] /\ UNCHANGED <<binary, globals, registered>>
    BY <1>4 DEF start, ProcessWithin
  <2>2. rounds[e] + 1 \in 0 .. MaxRounds
    BY <2>1, ProcessAssumption DEF ProcessAssumption
  <2> QED
    BY <2>1, <2>2 DEF ProcessWithin
<1>5. ASSUME NEW e \in Selected, RoundEnds(e) PROVE ProcessWithin'
  BY <1>5 DEF RoundEnds, ProcessWithin
<1>6. ASSUME NEW e, NEW kind, NEW via, PublishTo(e, kind, via) PROVE ProcessWithin'
  BY <1>6 DEF PublishTo, ProcessWithin
<1>7. ASSUME NEW e \in Selected, NEW kind, Publish(e, kind) PROVE ProcessWithin'
  BY <1>6, <1>7 DEF Publish
<1>8. ASSUME NEW e \in Selected, process_orderbook_update(e) PROVE ProcessWithin'
  BY <1>6, <1>8 DEF process_orderbook_update
<1>9. CASE MonitorTick
  BY <1>6, <1>9 DEF MonitorTick
<1>10. CASE TriggerShutdown \/ End
  BY <1>10 DEF TriggerShutdown, End, ProcessWithin
<1>11. CASE UNCHANGED hvars
  BY <1>11 DEF hvars, ProcessWithin
<1> QED
  BY <1>1, <1>2, <1>3, <1>4, <1>5, <1>7, <1>8, <1>9, <1>10, <1>11 DEF ProcessNext

\* What is left of the set-up is an end of the program, and no feed has more rounds
\* than it may.
LEMMA ProcessTypes == ProcessSpec => []ProcessTypeOK
<1>1. ProcessInit => ProcessWithin
  <2> SUFFICES ASSUME ProcessInit PROVE ProcessWithin
    OBVIOUS
  <2>1. 0 \in 0 .. MaxRounds
    BY ProcessAssumption DEF ProcessAssumption
  <2> QED
    BY <2>1 DEF ProcessInit, ProcessWithin
<1>2. ProcessInv /\ ProcessWithin => ProcessTypeOK
  <2> SUFFICES ASSUME ProcessInv, ProcessWithin PROVE ProcessTypeOK
    OBVIOUS
  <2>1. /\ binary \in {"feeder_direct", "feeder_buffered"} /\ setup \in Seq(Steps) /\ Behind \in Nat
        /\ \A i \in 1 .. Len(setup) : setup[i] = Course[i + Behind]
    BY DEF ProcessInv, ProcessShape
  <2>2. Course \in Seq(Steps) /\ Len(Course) \in Nat /\ Len(setup) \in Nat
    BY <2>1, ProgramSteps
  <2>3. Len(Course) = Len(setup) + Behind
    BY <2>1, <2>2 DEF Behind
  <2> HIDE DEF Behind, Course
  <2>4. IsSuffix(setup, Course)
    BY <2>1, <2>2, <2>3, EndIsSuffix
  <2> QED
    BY <2>4 DEF ProcessInv, ProcessShape, ProcessWithin, ProcessTypeOK, Course
<1> QED
  BY <1>1, <1>2, ProcessWithinSteps, ProcessStarts, ProcessKeeps, PTL DEF ProcessSpec

--------------------------------------------------------------------------------
(* Order management.                                                       *)

\* No more orders than may be, each with its reports, and no trade that is won and lost.
OmsWithin ==
    /\ Len(orders) <= MaxOrders
    /\ reports \in Seq(Nat) /\ Len(reports) = Len(orders)
    /\ performance.trades \in Nat /\ performance.wins \in Nat /\ performance.losses \in Nat
    /\ performance.wins + performance.losses <= performance.trades

\* A fill is at most one trade, which is won, or lost, or neither.
LEMMA TradeCounted ==
    ASSUME OmsInv, OmsWithin, NEW k \in Instruments, NEW s \in Int, NEW p \in Nat, update_position(k, s, p)
    PROVE  /\ performance'.trades \in Nat /\ performance'.wins \in Nat /\ performance'.losses \in Nat
           /\ performance'.wins + performance'.losses <= performance'.trades
<1> DEFINE pos == position[k]
           profit == Profit(pos, p)
<1>1. /\ performance.trades \in Nat /\ performance.wins \in Nat /\ performance.losses \in Nat
      /\ performance.wins + performance.losses <= performance.trades
  BY DEF OmsWithin
<1>2. performance' = performance \/ update_performance_metrics(profit)
  BY DEF update_position
<1>3. profit \in Int
  <2>1. pos \in Holding
    BY DEF OmsInv, OmsShape
  <2>2. pos.quantity \in Int /\ pos.cost \in Nat
    BY <2>1 DEF Holding
  <2>3. Abs(pos.quantity) * p \in Nat /\ Signum(pos.quantity) \in {1, -1}
    BY <2>2, SignTimesSize
  <2>4. \A x \in Int, sign \in {1, -1} : x * sign \in Int
    OBVIOUS
  <2>5. Abs(pos.quantity) * p - pos.cost \in Int
    BY <2>2, <2>3
  <2> QED
    BY <2>3, <2>4, <2>5 DEF Profit
<1> HIDE DEF profit
<1>4. CASE performance' = performance
  BY <1>1, <1>4
<1>5. CASE update_performance_metrics(profit)
  <2>1. /\ performance'.trades = performance.trades + 1
        /\ performance'.wins = performance.wins + (IF profit > 0 THEN 1 ELSE 0)
        /\ performance'.losses = performance.losses + (IF profit < 0 THEN 1 ELSE 0)
    BY <1>5 DEF update_performance_metrics
  <2> QED
    BY <1>1, <1>3, <2>1
<1> QED
  BY <1>2, <1>4, <1>5

\* Every step of order management.
LEMMA OmsWithinSteps == OmsInv /\ OmsWithin /\ [OmsNext]_ovars => OmsWithin'
<1> SUFFICES ASSUME OmsInv, OmsWithin, [OmsNext]_ovars PROVE OmsWithin'
  OBVIOUS
<1>1. orders \in Seq(Orders) /\ reports \in Seq(Nat) /\ Len(reports) = Len(orders) /\ Len(orders) \in Nat
      /\ MaxOrders \in Nat
  BY OmsAssumption DEF OmsInv, OmsShape, OmsWithin
<1>2. ASSUME NEW k \in Instruments, NEW side \in {"Buy", "Sell"}, NEW quantity \in OrderSizes,
             submit_order(k, side, quantity)
      PROVE  OmsWithin'
  <2> DEFINE o == [instrument |-> k, side |-> side, quantity |-> quantity, status |-> "New"]
  <2>1. o \in Orders
    BY OmsAssumption DEF Orders
  <2>2. orders' = Append(orders, o) /\ reports' = Append(reports, 0) /\ performance' = performance
        /\ Len(orders) < MaxOrders
    BY <1>2 DEF submit_order
  <2> HIDE DEF o
  <2>3. Len(orders') = Len(orders) + 1 /\ Len(reports') = Len(reports) + 1 /\ reports' \in Seq(Nat)
    BY <1>1, <2>1, <2>2, AppendProperties
  <2>4. Len(orders') <= MaxOrders /\ Len(reports') = Len(orders')
    BY <1>1, <2>2, <2>3
  <2> QED
    BY <2>2, <2>3, <2>4 DEF OmsWithin
<1>3. ASSUME NEW id \in DOMAIN orders, NEW order, orders' = [orders EXCEPT ![id] = order]
      PROVE  Len(orders') = Len(orders)
  BY <1>1, <1>3
<1>4. ASSUME NEW id \in DOMAIN orders, cancel_order(id) PROVE OmsWithin'
  <2>1. Len(orders') = Len(orders) /\ UNCHANGED <<reports, performance>>
    BY <1>3, <1>4 DEF cancel_order
  <2> QED
    BY <2>1 DEF OmsWithin
<1>5. ASSUME NEW id \in DOMAIN orders, NEW status, NoteStatus(id, status) PROVE OmsWithin'
  <2>1. Len(orders') = Len(orders) /\ UNCHANGED <<reports, performance>>
    BY <1>3, <1>5 DEF NoteStatus
  <2> QED
    BY <2>1 DEF OmsWithin
<1>6. ASSUME NEW id \in DOMAIN orders, NEW quantity \in OrderSizes, NEW price \in FillPrices,
             NoteFilled(id, quantity, price)
      PROVE  OmsWithin'
  <2> DEFINE k == orders[id].instrument
             s == Signed(orders[id].side, quantity)
  <2>1. /\ orders' = [orders EXCEPT ![id].status = "Filled"] /\ reports' = [reports EXCEPT ![id] = reports[id] + 1]
        /\ update_position(k, s, price)
    BY <1>6 DEF NoteFilled
  <2>2. k \in Instruments
    BY OrdersOf
  <2>3. s \in Int /\ price \in Nat
    BY OmsAssumption DEF Signed
  <2> HIDE DEF k, s
  <2>4. /\ performance'.trades \in Nat /\ performance'.wins \in Nat /\ performance'.losses \in Nat
        /\ performance'.wins + performance'.losses <= performance'.trades
    BY <2>1, <2>2, <2>3, TradeCounted
  <2>5. Len(orders') = Len(orders)
    BY <1>3, <2>1
  <2>6. reports' \in Seq(Nat) /\ Len(reports') = Len(reports)
    <3>1. id \in 1 .. Len(reports)
      BY <1>1
    <3>2. reports[id] + 1 \in Nat
      BY <1>1, <3>1
    <3> QED
      BY <1>1, <2>1, <3>1, <3>2
  <2> QED
    BY <1>1, <2>4, <2>5, <2>6 DEF OmsWithin
<1>7. ASSUME reset_daily_pnl \/ UNCHANGED ovars PROVE OmsWithin'
  BY <1>7 DEF reset_daily_pnl, ovars, OmsWithin
<1> QED
  BY <1>2, <1>4, <1>5, <1>6, <1>7 DEF OmsNext, update_order_status

\* The orders, the positions and the count of trades.
LEMMA OmsTypes == OmsSpec => []OmsTypeOK
<1>1. OmsInit => OmsWithin
  <2> SUFFICES ASSUME OmsInit PROVE OmsWithin
    OBVIOUS
  <2>1. orders = <<>> /\ reports = <<>> /\ performance = [trades |-> 0, wins |-> 0, losses |-> 0, pnl |-> 0, drawdown |-> 0]
    BY DEF OmsInit
  <2>2. Len(orders) = 0 /\ Len(reports) = 0 /\ reports \in Seq(Nat)
    BY <2>1
  <2> QED
    BY <2>1, <2>2, OmsAssumption DEF OmsWithin
<1>2. OmsInv /\ OmsWithin => OmsTypeOK
  <2> SUFFICES ASSUME OmsInv, OmsWithin PROVE OmsTypeOK
    OBVIOUS
  <2>1. DOMAIN reports = DOMAIN orders
    <3>1. orders \in Seq(Orders) /\ reports \in Seq(Nat) /\ Len(reports) = Len(orders)
      BY DEF OmsInv, OmsShape, OmsWithin
    <3> QED
      BY <3>1
  <2>2. \A id \in DOMAIN orders : orders[id] \in Orders
    BY OrdersOf
  <2> QED
    BY <2>1, <2>2 DEF OmsInv, OmsShape, OmsWithin, OmsTypeOK, Orders, Holding
<1> QED
  BY <1>1, <1>2, OmsWithinSteps, OmsStarts, OmsSteps, PTL DEF OmsSpec

--------------------------------------------------------------------------------
(* The market maker.                                                       *)

\* There is room at the exchange for what an operation still sends.
MakerWithin ==
    /\ Len(placed) <= MaxPlaced
    /\ running \in {"pair", "batch"} => Len(placed) + Len(todo) <= MaxPlaced
    /\ running = "cleanup" /\ stage # "verify" => Len(placed) < MaxPlaced

\* A request makes one order, or none.
LEMMA SentIsOne ==
    ASSUME MakerInv, NEW o \in ExchangeOrders, NEW answered, send_order(o, answered)
    PROVE  Len(placed) \in Nat /\ Len(placed') \in {Len(placed), Len(placed) + 1}
<1>1. placed \in Seq(ExchangeOrders)
  BY DEF MakerInv, MakerShape
<1>2. Len(Append(placed, o)) = Len(placed) + 1 /\ Len(placed) \in Nat
  BY <1>1, AppendProperties, LenProperties
<1> QED
  BY <1>2 DEF send_order

\* One request less.
LEMMA RemovedIsOne ==
    ASSUME NEW S, NEW q \in Seq(S), NEW i \in DOMAIN q PROVE Len(q) \in Nat /\ Len(RemoveAt(q, i)) = Len(q) - 1
<1> DEFINE n == Len(q)
           a == SubSeq(q, 1, i - 1)
           b == SubSeq(q, i + 1, n)
<1>1. n \in Nat /\ i \in 1 .. n
  OBVIOUS
<1>2. a \in Seq(S) /\ Len(a) = i - 1
  <2>1. 1 \in 1 .. n + 1 /\ i - 1 \in 0 .. n
    BY <1>1
  <2> QED
    BY <1>1, <2>1, SubSeqProperties
<1>3. b \in Seq(S) /\ Len(b) = n - i
  <2>1. i + 1 \in 1 .. n + 1 /\ n \in i .. n
    BY <1>1
  <2> QED
    BY <1>1, <2>1, SubSeqProperties
<1>4. RemoveAt(q, i) = a \o b
  BY DEF RemoveAt
<1> HIDE DEF a, b, n
<1>5. Len(a \o b) = Len(a) + Len(b)
  BY <1>2, <1>3, ConcatProperties
<1>6. (i - 1) + (n - i) = n - 1
  BY <1>1
<1> QED
  BY <1>1, <1>2, <1>3, <1>4, <1>5, <1>6 DEF n

\* Every step of the market maker.
LEMMA MakerWithinSteps == MakerInv /\ MakerWithin /\ [MakerNext]_kvars => MakerWithin'
<1> SUFFICES ASSUME MakerInv, MakerWithin, [MakerNext]_kvars PROVE MakerWithin'
  OBVIOUS
<1>1. placed \in Seq(ExchangeOrders) /\ Len(placed) \in Nat /\ Len(placed) <= MaxPlaced /\ MaxPlaced \in Nat
  BY MakerAssumption DEF MakerInv, MakerShape, MakerWithin
<1>2. ASSUME Len(placed') <= MaxPlaced, running' \in {"none", "check"} PROVE MakerWithin'
  BY <1>2 DEF MakerWithin
<1>3. ASSUME NEW i \in DOMAIN placed, Fill(i) PROVE MakerWithin'
  <2>1. placed' = [placed EXCEPT ![i].status = "filled"] /\ UNCHANGED <<running, stage, todo>>
    BY <1>3 DEF Fill
  <2>2. Len(placed') = Len(placed)
    BY <1>1, <2>1
  <2> QED
    BY <2>1, <2>2 DEF MakerWithin
<1>4. CASE place_orders
  <2>1. Len(placed) + 2 <= MaxPlaced /\ running' = "pair" /\ todo' = <<Limit("Buy"), Limit("Sell")>> /\ placed' = placed
    BY <1>4 DEF place_orders, Begin
  <2>2. Len(todo') = 2
    BY <2>1
  <2> QED
    BY <1>1, <2>1, <2>2 DEF MakerWithin
<1>5. ASSUME NEW answered \in BOOLEAN, SendOfPair(answered) PROVE MakerWithin'
  <2>1. running = "pair" /\ send_order(Head(todo), answered)
        /\ (running' = "none" \/ (running' = running /\ todo' = Tail(todo)))
    <3>1. running = "pair" /\ send_order(Head(todo), answered)
      BY <1>5 DEF SendOfPair
    <3>2. CASE ~answered
      <4>1. Finish
        BY <1>5, <3>2 DEF SendOfPair, ReturnError
      <4>2. running' = "none"
        BY <4>1 DEF Finish
      <4> HIDE <3>2
      <4> QED
        BY <3>1, <4>2, Zenon
    <3>3. CASE answered /\ Len(todo) = 1
      <4>1. Finish
        BY <1>5, <3>3 DEF SendOfPair
      <4>2. running' = "none"
        BY <4>1 DEF Finish
      <4> HIDE <3>3
      <4> QED
        BY <3>1, <4>2, Zenon
    <3>4. CASE answered /\ Len(todo) # 1
      BY <1>5, <3>1, <3>4 DEF SendOfPair
    <3> QED
      BY <3>2, <3>3, <3>4
  <2>2. todo \in Seq(ExchangeOrders) /\ todo # <<>> /\ Len(placed) + Len(todo) <= MaxPlaced
    BY <2>1 DEF MakerInv, MakerShape, MakerTodo, MakerWithin
  <2>3. Head(todo) \in ExchangeOrders /\ Len(todo) \in Nat /\ Len(todo) > 0 /\ Len(Tail(todo)) = Len(todo) - 1
    BY <2>2, HeadTailProperties, LenProperties, EmptySeq
  <2>4. Len(placed') \in {Len(placed), Len(placed) + 1}
    BY <2>1, <2>3, SentIsOne
  <2>5. Len(placed') <= MaxPlaced /\ Len(placed') + (Len(todo) - 1) <= MaxPlaced
    BY <1>1, <2>2, <2>3, <2>4
  <2>6. CASE running' = "none"
    BY <1>2, <2>5, <2>6
  <2>7. CASE running' = running /\ todo' = Tail(todo)
    BY <2>1, <2>3, <2>5, <2>7 DEF MakerWithin
  <2> QED
    BY <2>1, <2>6, <2>7
<1>6. ASSUME NEW bids \in 0 .. OrderLevels, NEW asks \in 0 .. OrderLevels, PlaceBatch(bids, asks) PROVE MakerWithin'
  <2> DEFINE n == bids + asks
             items == [i \in 1 .. n |-> Limit(IF i <= bids THEN "Buy" ELSE "Sell")]
  <2>1. Len(placed) + bids + asks <= MaxPlaced /\ running' = "batch" /\ todo' = items /\ placed' = placed
    BY <1>6 DEF PlaceBatch, Begin
  <2>2. n \in Nat /\ bids \in Nat /\ asks \in Nat
    BY MakerAssumption
  <2>3. Len(items) = n
    <3> HIDE DEF n
    <3> QED
      BY <2>2
  <2>4. Len(placed) + n <= MaxPlaced
    BY <1>1, <2>1, <2>2
  <2> HIDE DEF items, n
  <2> QED
    BY <1>1, <2>1, <2>3, <2>4 DEF MakerWithin
<1>7. ASSUME NEW answered \in BOOLEAN, NEW i, SendOfBatch(i, answered) PROVE MakerWithin'
  <2>1. running = "batch" /\ i \in DOMAIN todo /\ send_order(todo[i], answered) /\ todo' = RemoveAt(todo, i)
        /\ running' = running
    BY <1>7 DEF SendOfBatch
  <2>2. todo \in Seq(ExchangeOrders) /\ Len(placed) + Len(todo) <= MaxPlaced
    BY <2>1 DEF MakerInv, MakerShape, MakerTodo, MakerWithin
  <2>3. todo[i] \in ExchangeOrders /\ Len(todo) \in Nat /\ Len(todo') = Len(todo) - 1 /\ Len(todo) > 0
    <3>1. Len(todo') = Len(todo) - 1
      BY <2>1, <2>2, RemovedIsOne
    <3> QED
      BY <2>1, <2>2, <3>1
  <2>4. Len(placed') \in {Len(placed), Len(placed) + 1}
    BY <2>1, <2>3, SentIsOne
  <2>5. Len(placed') <= MaxPlaced /\ Len(placed') + (Len(todo) - 1) <= MaxPlaced
    BY <1>1, <2>2, <2>3, <2>4
  <2> QED
    BY <2>1, <2>3, <2>5 DEF MakerWithin
<1>8. CASE send_multiple_orders \/ check_order_status
  <2>1. placed' = placed /\ running' \in {"none", "check"}
    BY <1>8 DEF send_multiple_orders, check_order_status, ReturnError, Finish, Begin
  <2> QED
    BY <1>1, <1>2, <2>1
<1>9. ASSUME NEW answered \in BOOLEAN, QueryNext(answered) PROVE MakerWithin'
  <2>1. placed' = placed /\ running' \in {"none", "check"}
    BY <1>9 DEF QueryNext, ReturnError, Finish
  <2> QED
    BY <1>1, <1>2, <2>1
<1>10. CASE cleanup
  <2>1. Len(placed) < MaxPlaced /\ running' = "cleanup" /\ placed' = placed
    BY <1>10 DEF cleanup, Begin
  <2> QED
    BY <1>1, <2>1 DEF MakerWithin
<1>11. ASSUME running = "cleanup", stage # "verify", Len(placed') = Len(placed), running' \in {"none", "cleanup"}
       PROVE  MakerWithin'
  <2>1. Len(placed) < MaxPlaced
    BY <1>11 DEF MakerWithin
  <2> QED
    BY <1>1, <1>11, <2>1 DEF MakerWithin
<1>12. ASSUME NEW answered \in BOOLEAN, get_open_orders(answered) \/ get_positions(answered) PROVE MakerWithin'
  <2>1. running = "cleanup" /\ stage # "verify" /\ placed' = placed /\ running' \in {"none", "cleanup"}
    BY <1>12 DEF get_open_orders, get_positions, ReturnError, Finish
  <2> QED
    BY <1>11, <2>1
<1>13. ASSUME NEW answered \in BOOLEAN, NEW listed \in BOOLEAN, cancel_all_orders(answered, listed) PROVE MakerWithin'
  <2> DEFINE cancelled == [i \in DOMAIN placed |->
                             IF placed[i].status = "open" THEN [placed[i] EXCEPT !.status = "cancelled"] ELSE placed[i]]
  <2>1. running = "cleanup" /\ stage # "verify" /\ placed' \in {placed, cancelled} /\ running' \in {"none", "cleanup"}
    BY <1>13 DEF cancel_all_orders, ReturnError, Finish
  <2>2. Len(cancelled) = Len(placed)
    BY <1>1
  <2> HIDE DEF cancelled
  <2> QED
    BY <1>11, <2>1, <2>2
<1>14. ASSUME NEW answered \in BOOLEAN, close_all_positions(answered) PROVE MakerWithin'
  <2>1. running = "cleanup" /\ stage = "close" /\ send_order(Head(todo), answered)
        /\ running' = "cleanup" /\ stage' = "verify"
    BY <1>14 DEF close_all_positions
  <2>2. Len(placed) < MaxPlaced
    BY <2>1 DEF MakerWithin
  <2>3. Head(todo) \in ExchangeOrders
    <3> DEFINE o == Market(IF Net > 0 THEN "Sell" ELSE "Buy", Size(Net))
    <3>1. todo = <<o>>
      BY <2>1 DEF MakerInv, MakerShape, MakerTodo
    <3>2. Net \in Int
      BY <2>1, CleanupKnows
    <3>3. o \in ExchangeOrders
      BY <3>2 DEF Market, Size, ExchangeOrders
    <3> HIDE DEF o
    <3> QED
      BY <3>1, <3>3
  <2>4. Len(placed') \in {Len(placed), Len(placed) + 1}
    BY <2>1, <2>3, SentIsOne
  <2>5. Len(placed') <= MaxPlaced
    BY <1>1, <2>2, <2>4
  <2> QED
    BY <2>1, <2>5 DEF MakerWithin
<1>15. ASSUME NEW answered \in BOOLEAN, VerifyClosed(answered) PROVE MakerWithin'
  <2>1. placed' = placed /\ running' = "none"
    BY <1>15 DEF VerifyClosed, ReturnError, Finish
  <2> QED
    BY <1>1, <1>2, <2>1
<1>16. CASE UNCHANGED kvars
  BY <1>16 DEF kvars, MakerWithin
<1> QED
  BY <1>3, <1>4, <1>5, <1>6, <1>7, <1>8, <1>9, <1>10, <1>12, <1>13, <1>14, <1>15, <1>16 DEF MakerNext

\* Every order that is tracked was placed, and no more are than may be.
LEMMA MakerTypes == MakerSpec => []MakerTypeOK
<1>1. MakerInit => MakerWithin
  <2> SUFFICES ASSUME MakerInit PROVE MakerWithin
    OBVIOUS
  <2>1. placed = <<>> /\ running = "none"
    BY DEF MakerInit
  <2>2. Len(placed) = 0
    BY <2>1
  <2> QED
    BY <2>1, <2>2, MakerAssumption DEF MakerWithin
<1>2. MakerInv /\ MakerWithin => MakerTypeOK
  <2> SUFFICES ASSUME MakerInv, MakerWithin PROVE MakerTypeOK
    OBVIOUS
  <2>1. \A i \in DOMAIN placed : placed[i] \in ExchangeOrders
    BY DEF MakerInv, MakerShape
  <2>2. \A i \in DOMAIN placed : placed[i].status \in {"open", "filled", "cancelled"}
    BY <2>1 DEF ExchangeOrders
  <2>3. running \in {"none", "pair", "batch", "check", "cleanup"}
    BY DEF MakerInv, MakerShape, MakerTodo
  <2>4. \A i \in DOMAIN tracked : tracked[i].id \in DOMAIN placed
    BY DEF MakerInv, Known
  <2> QED
    BY <2>2, <2>3, <2>4 DEF MakerInv, MakerShape, MakerWithin, MakerTypeOK
<1> QED
  BY <1>1, <1>2, MakerWithinSteps, MakerStarts, MakerSteps, PTL DEF MakerSpec

--------------------------------------------------------------------------------
(* The senders.                                                            *)

\* The kind of sender, how many packets it was handed, and how many a batch may hold.
SenderWithin ==
    /\ sender \in Senders /\ closed \in BOOLEAN /\ ended \in BOOLEAN
    /\ Len(handed) <= MaxPackets /\ now <= MaxTime
    /\ sender = "binary" => Len(batch) < BatchSize

\* Packets of rising ids in front of those handed over: no more wait than there are.
LEMMA FewWait == ASSUME SenderInv, sender # "buffered" PROVE Len(batch) <= Len(handed) /\ Len(handed) \in Nat
<1> DEFINE q == batch \o inbox
           n == Len(q)
           h == Len(handed)
<1>1. batch \in Seq(Packet) /\ inbox \in Seq(Packet) /\ handed \in Seq(Packet) /\ h \in Nat
      /\ \A i \in 1 .. h : handed[i].id = i
  BY LenProperties DEF SenderInv, SenderShape
<1>2. q \in Seq(Packet) /\ n = Len(batch) + Len(inbox) /\ Len(batch) \in Nat /\ Len(inbox) \in Nat
  BY <1>1, ConcatProperties, LenProperties
<1>3. Ordered(q, ById) /\ ToSet(q) \subseteq ToSet(handed)
  BY DEF SenderInv, QueueGood
<1> HIDE DEF q, n
<1>4. n \in Nat /\ DOMAIN q = 1 .. n /\ \A i \in 1 .. n : q[i] \in Packet
  BY <1>2 DEF n
<1>5. \A i \in 1 .. n : q[i].id \in 1 .. h
  <2> SUFFICES ASSUME NEW i \in 1 .. n PROVE q[i].id \in 1 .. h
    OBVIOUS
  <2>1. q[i] \in ToSet(handed)
    BY <1>3, <1>4 DEF ToSet
  <2>2. PICK k \in 1 .. h : q[i] = handed[k]
    BY <1>1, <2>1 DEF ToSet
  <2> QED
    BY <1>1, <2>2
<1>6. \A i, j \in 1 .. n : i < j => q[i].id < q[j].id
  BY <1>3, <1>4 DEF Ordered, ById, n
<1>7. \A i \in 1 .. n : i <= q[i].id
  <2> DEFINE Bad == {i \in 1 .. n : ~(i <= q[i].id)}
  <2> SUFFICES ASSUME Bad # {} PROVE FALSE
    OBVIOUS
  <2>1. Bad \subseteq Nat
    BY <1>4
  <2>2. PICK i \in Bad : \A m \in Bad : i <= m
    <3> HIDE DEF Bad
    <3> QED
      BY <2>1, LeastCounterexample
  <2>3. i \in 1 .. n /\ q[i].id \in Nat /\ q[i].id >= 1 /\ ~(i <= q[i].id)
    BY <1>5, <2>2
  <2>4. i - 1 \in 1 .. n /\ i - 1 < i /\ ~(i <= i - 1)
    BY <1>4, <2>3
  <2>5. i - 1 <= q[i - 1].id
    BY <2>2, <2>4
  <2>6. q[i - 1].id < q[i].id /\ q[i - 1].id \in Nat
    BY <1>5, <1>6, <2>3, <2>4
  <2> QED
    BY <1>4, <2>3, <2>5, <2>6
<1>8. n <= h
  <2>1. CASE n = 0
    BY <1>1, <2>1
  <2>2. CASE n # 0
    <3>1. n \in 1 .. n
      BY <1>4, <2>2
    <3>2. n <= q[n].id /\ q[n].id \in 1 .. h
      BY <1>5, <1>7, <3>1
    <3> QED
      BY <1>1, <1>4, <3>2
  <2> QED
    BY <2>1, <2>2
<1> QED
  BY <1>1, <1>2, <1>8

\* Every step of the senders.
LEMMA SenderWithinSteps == SenderInv /\ SenderWithin /\ [SenderNext]_svars => SenderWithin'
<1> SUFFICES ASSUME SenderInv, SenderWithin, [SenderNext]_svars PROVE SenderWithin'
  OBVIOUS
<1>1. /\ sender \in Senders /\ closed \in BOOLEAN /\ ended \in BOOLEAN /\ handed \in Seq(Packet) /\ Len(handed) \in Nat
      /\ Len(handed) <= MaxPackets /\ now <= MaxTime /\ now \in Nat /\ MaxTime \in Nat /\ MaxPackets \in Nat
      /\ BatchSize \in Nat \ {0}
  BY SendersAssumption, LenProperties DEF SenderInv, SenderShape, SenderWithin
<1>2. ASSUME UNCHANGED <<sender, handed, now>>, closed' \in BOOLEAN, ended' \in BOOLEAN,
             sender = "binary" => Len(batch') < BatchSize
      PROVE  SenderWithin'
  BY <1>1, <1>2 DEF SenderWithin
<1>3. Len(<<>>) < BatchSize
  BY <1>1
<1>4. CASE Receive
  <2>1. UNCHANGED <<sender, handed, closed, ended, now>>
    BY <1>4 DEF Receive
  <2>2. ASSUME sender = "binary" PROVE Len(batch') < BatchSize
    <3>1. \/ Len(Append(batch, Head(inbox))) < BatchSize /\ batch' = Append(batch, Head(inbox))
          \/ batch' = <<>>
      BY <1>4, <2>2 DEF Receive
    <3> QED
      BY <1>3, <3>1
  <2> QED
    BY <1>1, <1>2, <2>1, <2>2
<1>5. CASE BinaryTimeout \/ OptimizedFlush
  <2>1. batch' = <<>> /\ UNCHANGED <<sender, handed, closed, ended, now>>
    BY <1>5 DEF BinaryTimeout, OptimizedFlush
  <2> QED
    BY <1>1, <1>2, <1>3, <2>1
<1>6. CASE OrderedFlush
  <2>1. sender = "ordered" /\ UNCHANGED <<sender, handed, closed, ended, now>>
    BY <1>6 DEF OrderedFlush
  <2> QED
    BY <1>1, <1>2, <2>1
<1>7. CASE Exit
  <2>1. batch' = <<>> /\ ended' = TRUE /\ UNCHANGED <<sender, handed, closed, now>>
    BY <1>7 DEF Exit
  <2> QED
    BY <1>1, <1>2, <1>3, <2>1
<1>8. CASE TimePasses
  <2>1. now < MaxTime /\ now' = now + 1 /\ UNCHANGED <<sender, handed, batch, closed, ended>>
    BY <1>8 DEF TimePasses
  <2>2. now' <= MaxTime
    BY <1>1, <2>1
  <2> QED
    BY <2>1, <2>2 DEF SenderWithin
<1>9. ASSUME NEW t \in SenderTasks, send_chunked(t) \/ send_orderbook_data(t) PROVE SenderWithin'
  <2>1. UNCHANGED <<sender, handed, batch, closed, ended, now>>
    BY <1>9 DEF send_chunked, send_orderbook_data
  <2> QED
    BY <2>1 DEF SenderWithin
<1>10. CASE CloseChannel
  BY <1>10 DEF CloseChannel, SenderWithin
<1>11. ASSUME NEW t \in SenderTasks, NEW symbol \in 0 .. 1, NEW parts \in 1 .. 2, NEW ts \in 1 .. 2,
              Hand(t, symbol, parts, ts)
       PROVE  SenderWithin'
  <2> DEFINE p == [id |-> Len(handed) + 1, task |-> t, symbol |-> symbol, parts |-> parts, ts |-> ts, at |-> now]
  <2>1. Len(handed) < MaxPackets /\ handed' = Append(handed, p) /\ UNCHANGED <<sender, batch, closed, ended, now>>
    BY <1>11 DEF Hand
  <2>2. p \in Packet
    BY <1>1 DEF Packet
  <2> HIDE DEF p
  <2>3. Len(handed') = Len(handed) + 1
    BY <1>1, <2>1, <2>2, AppendProperties
  <2>4. Len(handed') <= MaxPackets
    BY <1>1, <2>1, <2>3
  <2> QED
    BY <2>1, <2>4 DEF SenderWithin
<1>12. CASE UNCHANGED svars
  BY <1>12 DEF svars, SenderWithin
<1>13. CASE \E t \in Some({"buffered", "multi_port"}, SenderTasks), symbol \in Some({"multi_port"}, 0 .. 1),
               parts \in 1 .. 2, ts \in Some({"ordered"}, 1 .. 2) : Hand(t, symbol, parts, ts)
  <2>1. Some({"buffered", "multi_port"}, SenderTasks) \subseteq SenderTasks
        /\ Some({"multi_port"}, 0 .. 1) \subseteq 0 .. 1 /\ Some({"ordered"}, 1 .. 2) \subseteq 1 .. 2
    <3>1. (CHOOSE x \in SenderTasks : TRUE) \in SenderTasks /\ (CHOOSE x \in 0 .. 1 : TRUE) \in 0 .. 1
          /\ (CHOOSE x \in 1 .. 2 : TRUE) \in 1 .. 2
      BY SendersAssumption
    <3> QED
      BY <3>1 DEF Some
  <2> QED
    BY <1>11, <1>13, <2>1
<1> QED
  BY <1>4, <1>5, <1>6, <1>7, <1>8, <1>9, <1>10, <1>12, <1>13 DEF SenderNext, SenderStep

\* A batch that is not sent yet is not full, and only parts that were handed over are lost.
LEMMA SenderTypes == SenderSpec => []SenderTypeOK
<1>1. SenderInit => SenderWithin
  <2> SUFFICES ASSUME SenderInit PROVE SenderWithin
    OBVIOUS
  <2>1. sender \in Senders /\ closed = FALSE /\ ended = FALSE /\ handed = <<>> /\ batch = <<>> /\ now = 0
    BY DEF SenderInit
  <2>2. Len(handed) = 0 /\ Len(batch) = 0
    BY <2>1
  <2>3. 0 <= MaxPackets /\ 0 <= MaxTime /\ 0 < BatchSize
    BY SendersAssumption DEF SendersAssumption
  <2> QED
    BY <2>1, <2>2, <2>3 DEF SenderWithin
<1>2. SenderInv /\ SenderWithin => SenderTypeOK
  <2> SUFFICES ASSUME SenderInv, SenderWithin PROVE SenderTypeOK
    OBVIOUS
  <2>1. handed \in Seq(Packet) /\ now \in 0 .. MaxTime /\ BatchSize \in Nat \ {0} /\ MaxPackets \in Nat
    BY SendersAssumption DEF SenderInv, SenderShape, SenderWithin
  <2>2. dropped \cup late \subseteq ToSet(AllParts(handed))
    BY <2>1, AllPartsProperties DEF SenderInv, Flow, Lost
  <2>3. Len(batch) <= (IF sender = "binary" THEN BatchSize - 1 ELSE MaxPackets)
    <3>1. Len(batch) \in Nat
      <4>1. batch = <<>> \/ batch \in Seq(Packet)
        BY DEF SenderInv, SenderShape
      <4>2. <<>> \in Seq(Packet)
        OBVIOUS
      <4> QED
        BY <4>1, <4>2, LenProperties
    <3>2. CASE sender = "binary"
      BY <2>1, <3>1, <3>2 DEF SenderWithin
    <3>3. CASE sender = "buffered"
      <4>1. batch = <<>>
        BY <3>3 DEF SenderInv, SenderShape
      <4>2. Len(batch) = 0
        BY <4>1
      <4> QED
        BY <2>1, <3>3, <4>2
    <3>4. CASE sender \notin {"binary", "buffered"}
      <4>1. Len(batch) <= Len(handed) /\ Len(handed) \in Nat /\ Len(handed) <= MaxPackets
        BY <3>4, FewWait DEF SenderWithin
      <4> QED
        BY <2>1, <3>1, <3>4, <4>1
    <3> QED
      BY <3>2, <3>3, <3>4
  <2> QED
    BY <2>1, <2>2, <2>3 DEF SenderWithin, SenderTypeOK
<1> QED
  BY <1>1, <1>2, SenderWithinSteps, SenderStarts, SenderSteps, PTL DEF SenderSpec

--------------------------------------------------------------------------------
(* The components as MCPlatform runs them.                                 *)

\* The variables of a component that does not run stay as they are.
LEMMA OthersStay ==
    ASSUME NEW p, Only(p)
    PROVE  /\ p # "manager" => UNCHANGED bvars
           /\ p # "persistence" => UNCHANGED pvars
           /\ p # "log" => UNCHANGED lvars
           /\ p # "process" => UNCHANGED hvars
           /\ p # "stock" => UNCHANGED tvars
           /\ p # "kdb" => UNCHANGED dvars
           /\ p # "writer" => UNCHANGED gvars
           /\ p # "oms" => UNCHANGED ovars
           /\ p # "maker" => UNCHANGED kvars
           /\ p # "receivers" => UNCHANGED rvars
           /\ p # "senders" => UNCHANGED svars
           /\ p # "tracing" => UNCHANGED avars
           /\ p # "binary" => UNCHANGED yvars
           /\ p # "feed" => UNCHANGED fvars
           /\ p # "messages" => UNCHANGED mvars
           /\ p # "router" => UNCHANGED xvars
           /\ p # "database" => UNCHANGED wvars
BY Zenon DEF Only

\* A step of the platform is one of a component, or leaves that as it is.
LEMMA StepsOfParts ==
    ASSUME [Next]_vars
    PROVE  /\ [ManagerNext]_bvars
           /\ [PersistNext]_pvars
           /\ [LogNext]_lvars
           /\ [ProcessNext]_hvars
           /\ [StockNext]_tvars
           /\ [KdbNext]_dvars
           /\ [WriterNext]_gvars
           /\ [OmsNext]_ovars
           /\ [MakerNext]_kvars
           /\ [RxNext]_rvars
           /\ [SenderNext]_svars
           /\ [TraceNext]_avars
           /\ [BinaryNext]_yvars
           /\ [FeedNext]_fvars
           /\ [MsgNext]_mvars
           /\ [RouterNext]_xvars
           /\ [DatabaseNext]_wvars
<1>1. CASE UNCHANGED vars
  <2>1. UNCHANGED <<bvars, pvars, lvars, hvars, tvars, dvars, gvars, ovars, kvars, rvars, svars,
                  avars, yvars, fvars, mvars, xvars, wvars>>
    BY <1>1, Zenon DEF vars
  <2> QED
    BY <2>1, Zenon
<1>2. ASSUME NEW p, Only(p), p = "manager" => ManagerNext,
                   p = "persistence" => PersistNext,
                   p = "log" => LogNext,
                   p = "process" => ProcessNext,
                   p = "stock" => StockNext,
                   p = "kdb" => KdbNext,
                   p = "writer" => WriterNext,
                   p = "oms" => OmsNext,
                   p = "maker" => MakerNext,
                   p = "receivers" => RxNext,
                   p = "senders" => SenderNext,
                   p = "tracing" => TraceNext,
                   p = "binary" => BinaryNext,
                   p = "feed" => FeedNext,
                   p = "messages" => MsgNext,
                   p = "router" => RouterNext,
                   p = "database" => DatabaseNext
      PROVE  /\ [ManagerNext]_bvars
             /\ [PersistNext]_pvars
             /\ [LogNext]_lvars
             /\ [ProcessNext]_hvars
             /\ [StockNext]_tvars
             /\ [KdbNext]_dvars
             /\ [WriterNext]_gvars
             /\ [OmsNext]_ovars
             /\ [MakerNext]_kvars
             /\ [RxNext]_rvars
             /\ [SenderNext]_svars
             /\ [TraceNext]_avars
             /\ [BinaryNext]_yvars
             /\ [FeedNext]_fvars
             /\ [MsgNext]_mvars
             /\ [RouterNext]_xvars
             /\ [DatabaseNext]_wvars
  <2>1. [ManagerNext]_bvars /\ [PersistNext]_pvars /\ [LogNext]_lvars /\ [ProcessNext]_hvars /\ [StockNext]_tvars
        /\ [KdbNext]_dvars
    BY <1>2, OthersStay, Zenon
  <2>2. [WriterNext]_gvars /\ [OmsNext]_ovars /\ [MakerNext]_kvars /\ [RxNext]_rvars /\ [SenderNext]_svars
        /\ [TraceNext]_avars
    BY <1>2, OthersStay, Zenon
  <2>3. [BinaryNext]_yvars /\ [FeedNext]_fvars /\ [MsgNext]_mvars /\ [RouterNext]_xvars /\ [DatabaseNext]_wvars
    BY <1>2, OthersStay, Zenon
  <2> QED
    BY <2>1, <2>2, <2>3, Zenon
<1> QED
  BY <1>1, <1>2 DEF Next

\* So a behaviour of the platform is one of each component.
LEMMA BehavioursOfParts ==
    Spec => ManagerSpec /\ PersistSpec /\ LogSpec /\ ProcessSpec /\ StockSpec /\ KdbSpec /\ WriterSpec
            /\ OmsSpec /\ MakerSpec /\ RxSpec /\ SenderSpec /\ TraceSpec /\ BinarySpec
            /\ FeedSpec /\ MsgSpec /\ RouterSpec /\ DatabaseSpec
<1>1. Init => ManagerInit /\ PersistInit /\ LogInit /\ ProcessInit /\ StockInit /\ KdbInit /\ WriterInit
             /\ OmsInit /\ MakerInit /\ RxInit /\ SenderInit /\ TraceInit /\ BinaryInit
             /\ FeedInit /\ MsgInit /\ RouterInit /\ DatabaseInit
  BY DEF Init
<1>2. [Next]_vars => [ManagerNext]_bvars
  BY StepsOfParts
<1>3. [Next]_vars => [PersistNext]_pvars
  BY StepsOfParts
<1>4. [Next]_vars => [LogNext]_lvars
  BY StepsOfParts
<1>5. [Next]_vars => [ProcessNext]_hvars
  BY StepsOfParts
<1>6. [Next]_vars => [StockNext]_tvars
  BY StepsOfParts
<1>7. [Next]_vars => [KdbNext]_dvars
  BY StepsOfParts
<1>8. [Next]_vars => [WriterNext]_gvars
  BY StepsOfParts
<1>9. [Next]_vars => [OmsNext]_ovars
  BY StepsOfParts
<1>10. [Next]_vars => [MakerNext]_kvars
  BY StepsOfParts
<1>11. [Next]_vars => [RxNext]_rvars
  BY StepsOfParts
<1>12. [Next]_vars => [SenderNext]_svars
  BY StepsOfParts
<1>13. [Next]_vars => [TraceNext]_avars
  BY StepsOfParts
<1>14. [Next]_vars => [BinaryNext]_yvars
  BY StepsOfParts
<1>15. [Next]_vars => [FeedNext]_fvars
  BY StepsOfParts
<1>16. [Next]_vars => [MsgNext]_mvars
  BY StepsOfParts
<1>17. [Next]_vars => [RouterNext]_xvars
  BY StepsOfParts
<1>18. [Next]_vars => [DatabaseNext]_wvars
  BY StepsOfParts
<1> QED
  BY <1>1, <1>2, <1>3, <1>4, <1>5, <1>6, <1>7, <1>8, <1>9, <1>10, <1>11, <1>12, <1>13, <1>14, <1>15, <1>16,
     <1>17, <1>18, PTL
     DEF Spec, ManagerSpec, PersistSpec, LogSpec, ProcessSpec, StockSpec, KdbSpec, WriterSpec, OmsSpec, MakerSpec, RxSpec,
         SenderSpec, TraceSpec, BinarySpec, FeedSpec, MsgSpec, RouterSpec, DatabaseSpec

\* Nothing is lost on its way into storage: an entry of the operational log stays in its
\* buffer until a flush has written it, a row of the kdb client until a statement has
\* taken it, and the QuestDB log writer hands everything over once and in order; for any
\* number of callers, entries and rows and any sizes of the batches.
THEOREM NothingLost == Spec => []KeptUntilTaken
<1>1. LogInv /\ KdbInv /\ WriterInv => KeptUntilTaken
  BY KdbInvImplies DEF LogInv, WriterInv, KeptUntilTaken
<1> QED
  BY <1>1, BehavioursOfParts, LogStarts, LogSteps, KdbStarts, KdbSteps, WriterStarts, WriterSteps, PTL
     DEF LogSpec, KdbSpec, WriterSpec

\* What the platform believes of its money and its orders is so: what the order manager has
\* realized is in the cash and the positions of its fills, and the market maker knows the
\* orders it has at the exchange; for any instruments, sizes and prices, any number of
\* orders and fills, and whichever requests fail.
THEOREM AccountsAlwaysAgree == Spec => []AccountsAgree
<1>1. OmsSpec => []LedgerBalances
  BY LedgersAlwaysBalance
<1>2. MakerSpec => []OrdersKnown
  BY OrdersAlwaysKnown
<1>3. LedgerBalances /\ OrdersKnown => AccountsAgree
  BY DEF AccountsAgree
<1> QED
  BY <1>1, <1>2, <1>3, BehavioursOfParts, PTL

\* What the receiving side says of its packets is so: the validator blames the network only
\* for what it did, the tools that look for inversions count the same ones, and udp_monitor
\* reads of a binary packet what was put into it; for any datagrams, any number of them and
\* whatever the network loses and reorders.
THEOREM ReceiversAlwaysAgree == Spec => []ReceiversAgree
<1>1. RxSpec => []BlameIsDeserved
  BY BlameAlwaysDeserved
<1>2. TraceSpec => []TracesAgree
  BY TracesAlwaysAgree
<1>3. BinarySpec => []BinaryReadsBack
  BY BinaryAlwaysReadsBack
<1>4. BlameIsDeserved /\ TracesAgree /\ BinaryReadsBack => ReceiversAgree
  BY DEF ReceiversAgree
<1> QED
  BY <1>1, <1>2, <1>3, <1>4, BehavioursOfParts, PTL

\* The parts keep what they promise when MCPlatform runs any one of them: the stores and the
\* log, the books and their snapshots, the stock feeds and the programs' ways out, the money
\* and the orders, the packets that leave in order and what is made of them where they
\* arrive; a full buffer of the log is never touched again, and a tick of the
\* ordered sender sends the latest first.
THEOREM PlatformHolds ==
    Spec => /\ [](/\ OneBuilder /\ NeverBack /\ KeptUntilTaken /\ ReadIsSubscribed /\ WaysOut
                  /\ AccountsAgree /\ ReceiversAgree /\ InOrderOnce)
            /\ LimitIsFatal /\ LatestFirst
<1>1. Spec => [](OneBuilder /\ NeverBack /\ ReadIsSubscribed /\ WaysOut)
  <2>1. ManagerSpec => []OneBuilder
    BY OneBuilderHolds
  <2>2. PersistSpec => []NeverBack
    BY SnapshotsNeverBack
  <2>3. StockSpec => []ReadIsSubscribed
    BY OnlySubscribedRead
  <2>4. ProcessSpec => []WaysOut
    BY EveryWayOutRight
  <2> QED
    BY <2>1, <2>2, <2>3, <2>4, BehavioursOfParts, PTL
<1>2. Spec => [](KeptUntilTaken /\ AccountsAgree)
  BY NothingLost, AccountsAlwaysAgree, PTL
<1>3. Spec => [](ReceiversAgree /\ InOrderOnce)
  <2>1. Spec => []ReceiversAgree
    BY ReceiversAlwaysAgree
  <2>2. SenderSpec => []InOrderOnce
    BY PartsAlwaysInOrder
  <2> QED
    BY <2>1, <2>2, BehavioursOfParts, PTL
<1>4. Spec => LimitIsFatal /\ LatestFirst
  <2>1. LogSpec => LimitIsFatal
    BY LimitsAreFatal
  <2>2. SenderSpec => LatestFirst
    BY TicksAlwaysLatestFirst
  <2> QED
    BY <2>1, <2>2, BehavioursOfParts
<1> QED
  BY <1>1, <1>2, <1>3, <1>4, PTL

\* Whichever component the platform runs keeps its types: no queue, buffer or channel holds
\* more than its bound, no stream is tried more often than allowed, every row, snapshot, order
\* and datagram is one that was made, the database receiver never sees a trade, and the
\* counters of what was sent, read and stored fit together.  The assumptions on the constants
\* are those of the components.
THEOREM PlatformTypesHold == Spec => []PlatformTypeOK
<1>1. Spec => [](part \in Parts)
  <2>1. Init => part \in Parts
    BY Zenon DEF Init
  <2>2. part \in Parts /\ [Next]_vars => (part \in Parts)'
    <3>1. ASSUME NEW p, Only(p) PROVE part' = part
      BY <3>1, Zenon DEF Only
    <3>2. UNCHANGED vars => part' = part
      BY Zenon DEF vars
    <3> QED
      BY <3>1, <3>2 DEF Next
  <2> QED
    BY <2>1, <2>2, PTL DEF Spec
<1>2. FeedTypeOK /\ MsgTypeOK /\ SenderTypeOK /\ RxTypeOK /\ ManagerTypeOK /\ PersistTypeOK /\ OmsTypeOK /\ MakerTypeOK
      /\ LogTypeOK /\ ProcessTypeOK /\ StockTypeOK /\ KdbTypeOK /\ RouterTypeOK /\ DatabaseTypeOK /\ WriterTypeOK
      /\ TraceTypeOK /\ BinaryTypeOK /\ part \in Parts
      => PlatformTypeOK
  BY DEF PlatformTypeOK
<1>3. Spec => []FeedTypeOK /\ []MsgTypeOK /\ []SenderTypeOK /\ []RxTypeOK /\ []TraceTypeOK /\ []BinaryTypeOK
  BY BehavioursOfParts, FeedTypes, MsgTypes, SenderTypes, RxTypes, TraceTypes, BinaryTypes, PTL
<1>4. Spec => []ManagerTypeOK /\ []PersistTypeOK /\ []OmsTypeOK /\ []MakerTypeOK /\ []LogTypeOK /\ []ProcessTypeOK
  BY BehavioursOfParts, ManagerTypes, PersistTypes, OmsTypes, MakerTypes, LogTypes, ProcessTypes, PTL
<1>5. Spec => []StockTypeOK /\ []KdbTypeOK /\ []RouterTypeOK /\ []DatabaseTypeOK /\ []WriterTypeOK
  BY BehavioursOfParts, StockTypes, KdbTypes, RouterTypes, DatabaseTypes, WriterTypes, PTL
<1> QED
  BY <1>1, <1>2, <1>3, <1>4, <1>5, PTL

================================================================================
