----------------------- MODULE OrderBookBuilderProofs -----------------------
(***************************************************************************)
(* Proofs about the order book builder: whatever arrives, in any number    *)
(* and order and with channels and buffers of any size, a live book and    *)
(* every published book reflect a prefix of the exchange's events.         *)
(***************************************************************************)
EXTENDS OrderBookBuilder, SequenceTheorems, TLAPS

StateRecord ==
    [pc : States, buffer : Seq(Messages), attempt : 0 .. 1, last_seq : 0 .. MaxId, since_sync : Nat]

\* TypeOK alone says too little of the fetching state, whose head it looks at,
\* and LiveMirrors holds only because a builder leaves the live state whenever
\* it refuses an update: together they are inductive.
IInv ==
    /\ TypeOK
    /\ state.pc = "fetching" => state.buffer # <<>>
    /\ LiveMirrors
    /\ PublishedMirrors

-----------------------------------------------------------------------------

\* The head of a sequence and what is behind it.
LEMMA HeadTail == ASSUME NEW S, NEW s \in Seq(S), s # <<>>
                  PROVE  /\ Head(s) \in S
                         /\ Tail(s) \in Seq(S)
                         /\ Len(Tail(s)) = Len(s) - 1
                         /\ \A i \in 1 .. Len(Tail(s)) : Tail(s)[i] = s[i + 1]
  OBVIOUS

\* The states of the machine, field by field.
LEMMA StateForms ==
    /\ \A b : Buffering(b) = [pc |-> "buffering", buffer |-> b, attempt |-> 0, last_seq |-> 0, since_sync |-> 0]
    /\ \A b : FetchingSnapshot(b) = [pc |-> "fetching", buffer |-> b, attempt |-> 1, last_seq |-> 0, since_sync |-> 0]
    /\ Resyncing = [pc |-> "resyncing", buffer |-> <<>>, attempt |-> 1, last_seq |-> 0, since_sync |-> 0]
    /\ ErrorState = [pc |-> "error", buffer |-> <<>>, attempt |-> 0, last_seq |-> 0, since_sync |-> 0]
    /\ \A q, n : Live(q, n) = [pc |-> "live", buffer |-> <<>>, attempt |-> 0, last_seq |-> q, since_sync |-> n]
  BY DEF Buffering, FetchingSnapshot, Resyncing, ErrorState, Live, StateOf

\* Buffering one more update keeps the buffer within its bound.
LEMMA BufferBound ==
    ASSUME NEW b \in Seq(Messages), Len(b) <= MAX_BUFFER_SIZE, NEW u \in Messages
    PROVE  LET kept == IF Len(b) >= MAX_BUFFER_SIZE THEN SubSeq(b, DrainSize + 1, Len(b)) ELSE b
           IN  /\ Append(kept, u) \in Seq(Messages)
               /\ Append(kept, u) # <<>>
               /\ Len(Append(kept, u)) <= MAX_BUFFER_SIZE
<1> DEFINE kept == IF Len(b) >= MAX_BUFFER_SIZE THEN SubSeq(b, DrainSize + 1, Len(b)) ELSE b
<1>1. kept \in Seq(Messages) /\ Len(kept) < MAX_BUFFER_SIZE
  <2>1. CASE Len(b) >= MAX_BUFFER_SIZE
    <3>1. Len(b) = MAX_BUFFER_SIZE /\ DrainSize \in 1 .. Len(b)
      BY <2>1, BuilderAssumption
    <3>2. SubSeq(b, DrainSize + 1, Len(b)) \in Seq(Messages)
      BY <3>1
    <3>3. Len(SubSeq(b, DrainSize + 1, Len(b))) = Len(b) - DrainSize
      BY <3>1
    <3> QED BY <2>1, <3>1, <3>2, <3>3, BuilderAssumption
  <2>2. CASE Len(b) < MAX_BUFFER_SIZE
    BY <2>2, BuilderAssumption
  <2> QED BY <2>1, <2>2, BuilderAssumption
<1> HIDE DEF kept
<1>2. /\ Append(kept, u) \in Seq(Messages)
      /\ Append(kept, u) # <<>>
      /\ Len(Append(kept, u)) = Len(kept) + 1
  BY <1>1
<1>3. Len(Append(kept, u)) <= MAX_BUFFER_SIZE
  BY <1>1, <1>2, BuilderAssumption
<1> QED BY <1>2, <1>3 DEF kept

\* What an update does to a book: its type, and when the book stays a prefix.
LEMMA AppliedPrefix ==
    ASSUME NEW u \in Messages, book \in Books
    PROVE  /\ Applied(u) \in Books
           /\ Applied(u).last_update_id = u.id
           /\ u.snapshot => Applied(u).events = 1 .. u.id
           /\ \A n \in 0 .. MaxId :
                /\ book.events = 1 .. n
                /\ u.id = n + 1 \/ (u.first > 0 /\ u.first = n + 1)
                => Applied(u).events = 1 .. u.id
<1>1. u \in Update /\ u.first <= u.id
  BY BuilderAssumption
<1>2. /\ u.id \in 1 .. MaxId /\ u.first \in 0 .. MaxId /\ u.snapshot \in BOOLEAN
      /\ MaxId \in Nat
  BY <1>1, BuilderAssumption DEF Update
<1>3. Applied(u).last_update_id = u.id
  BY DEF Applied
<1>4. u.snapshot => Applied(u).events = 1 .. u.id
  BY DEF Applied
<1>5. ~u.snapshot => Applied(u).events = book.events \cup (IF u.first = 0 THEN {u.id} ELSE u.first .. u.id)
  BY DEF Applied
<1>6. book.events \subseteq 1 .. MaxId
  BY DEF Books
<1>7. Applied(u).events \subseteq 1 .. MaxId
  BY <1>1, <1>2, <1>4, <1>5, <1>6
<1>8. Applied(u) \in Books
  BY <1>2, <1>3, <1>7 DEF Applied, Books
<1>9. ASSUME NEW n \in 0 .. MaxId, book.events = 1 .. n,
             u.id = n + 1 \/ (u.first > 0 /\ u.first = n + 1)
      PROVE  Applied(u).events = 1 .. u.id
  <2>1. CASE u.snapshot
    BY <2>1, <1>4
  <2>2. CASE ~u.snapshot /\ u.first = 0
    <3>1. u.id = n + 1 /\ Applied(u).events = (1 .. n) \cup {u.id}
      BY <1>2, <1>5, <1>9, <2>2
    <3> QED BY <3>1, <1>2
  <2>3. CASE ~u.snapshot /\ u.first # 0
    <3>1. Applied(u).events = (1 .. n) \cup (u.first .. u.id)
      BY <1>5, <1>9, <2>3
    <3>2. u.first >= 1 /\ u.first <= n + 1 /\ u.id >= n
      BY <1>1, <1>2, <1>9, <2>3
    <3> QED BY <3>1, <3>2, <1>1, <1>2
  <2> QED BY <2>1, <2>2, <2>3, <1>2
<1> QED BY <1>3, <1>4, <1>8, <1>9

-----------------------------------------------------------------------------

\* The builder starts without a snapshot.
LEMMA InvInit == Init => IInv
<1> SUFFICES ASSUME Init PROVE IInv
  OBVIOUS
<1>1. state = [pc |-> "buffering", buffer |-> <<>>, attempt |-> 0, last_seq |-> 0, since_sync |-> 0]
  BY StateForms DEF Init
<1>2. state \in StateRecord /\ Len(state.buffer) <= MAX_BUFFER_SIZE /\ state.pc = "buffering"
  BY <1>1, BuilderAssumption DEF StateRecord, States
<1>3. updates = <<>> /\ open = TRUE /\ built = <<>> /\ book \in Books
  BY BuilderAssumption DEF Init, Books
<1>4. TypeOK
  BY <1>2, <1>3, BuilderAssumption DEF TypeOK, StateRecord
<1> QED BY <1>2, <1>3, <1>4 DEF IInv, LiveMirrors, PublishedMirrors

\* Every action of the builder, the feed and the forwarder preserves it.
LEMMA InvStep == IInv /\ [Next]_vars => IInv'
<1> SUFFICES ASSUME IInv, [Next]_vars PROVE IInv'
  OBVIOUS
<1> USE DEF StateRecord
<1>a. /\ updates \in Seq(Messages) /\ Len(updates) <= UpdateCapacity
      /\ open \in BOOLEAN
      /\ state \in StateRecord /\ Len(state.buffer) <= MAX_BUFFER_SIZE
      /\ book \in Books
      /\ built \in Seq(Books) /\ Len(built) <= SnapshotCapacity
  BY DEF IInv, TypeOK
<1>b. /\ state.pc = "fetching" => state.buffer # <<>>
      /\ LiveMirrors
      /\ PublishedMirrors
  BY DEF IInv
<1>c. MAX_BUFFER_SIZE \in Nat \ {0} /\ MAX_RESYNC_ATTEMPTS \in Nat \ {0} /\ MaxId \in Nat
      /\ UpdateCapacity \in Nat \ {0} /\ SnapshotCapacity \in Nat \ {0} /\ PublishEvery \in Nat \ {0}
  BY BuilderAssumption
<1>0. <<>> \in Seq(Messages) /\ Len(<<>>) <= MAX_BUFFER_SIZE
  BY <1>c
\* What remains to be shown of the actions that only change one part.
<1>d. ASSUME updates' \in Seq(Messages), Len(updates') <= UpdateCapacity,
             open' \in BOOLEAN,
             state' \in StateRecord, Len(state'.buffer) <= MAX_BUFFER_SIZE,
             state'.pc # "live", state'.pc # "sending",
             state'.pc = "fetching" => state'.buffer # <<>>,
             UNCHANGED <<book, built>>
      PROVE  IInv'
  <2>1. TypeOK'
    BY <1>a, <1>d DEF TypeOK
  <2>2. LiveMirrors' /\ PublishedMirrors'
    BY <1>b, <1>d DEF LiveMirrors, PublishedMirrors
  <2> QED BY <2>1, <2>2, <1>d DEF IInv
<1>1. ASSUME NEW u \in Messages, Send(u) PROVE IInv'
  <2>1. updates' \in Seq(Messages) /\ Len(updates') <= UpdateCapacity
    BY <1>1, <1>a, <1>c DEF Send
  <2> QED BY <1>1, <1>a, <1>b, <2>1 DEF Send, IInv, TypeOK, LiveMirrors, PublishedMirrors
<1>2. CASE Close
  BY <1>2, <1>a, <1>b DEF Close, IInv, TypeOK, LiveMirrors, PublishedMirrors
<1>3. CASE Forward
  <2>1. /\ built' \in Seq(Books) /\ Len(built') <= SnapshotCapacity
        /\ \A i \in 1 .. Len(built') : built'[i] = built[i + 1] /\ i + 1 \in 1 .. Len(built)
    BY <1>3, <1>a, <1>c, HeadTail DEF Forward
  <2>2. PublishedMirrors'
    BY <2>1, <1>b DEF PublishedMirrors
  <2> QED BY <1>3, <1>a, <1>b, <2>1, <2>2 DEF Forward, IInv, TypeOK, LiveMirrors
<1>4. CASE Closed
  <2>1. state' \in StateRecord /\ state'.buffer = state.buffer /\ state'.pc = "ended"
    BY <1>4, <1>a DEF Closed, States
  <2>9. /\ updates' \in Seq(Messages) /\ Len(updates') <= UpdateCapacity
        /\ open' \in BOOLEAN
        /\ Len(state'.buffer) <= MAX_BUFFER_SIZE
        /\ UNCHANGED <<book, built>>
    BY <1>4, <1>a, <2>1 DEF Closed
  <2> QED BY <1>d, <2>1, <2>9
<1>5. CASE BufferingTimeout
  <2>1. state' \in StateRecord /\ state'.buffer = <<>> /\ state'.pc = "resyncing"
    <3>1. state' = [pc |-> "resyncing", buffer |-> <<>>, attempt |-> 1, last_seq |-> 0, since_sync |-> 0]
      BY <1>5, StateForms DEF BufferingTimeout
    <3> QED BY <3>1, <1>0, <1>c DEF States
  <2>9. /\ updates' \in Seq(Messages) /\ Len(updates') <= UpdateCapacity
        /\ open' \in BOOLEAN
        /\ Len(state'.buffer) <= MAX_BUFFER_SIZE
        /\ UNCHANGED <<book, built>>
    BY <1>5, <1>0, <1>a, <2>1 DEF BufferingTimeout
  <2> QED BY <1>d, <2>1, <2>9
<1>6. CASE ReceiveBuffering
  <2> DEFINE u == Head(updates)
             kept == IF Len(state.buffer) >= MAX_BUFFER_SIZE
                     THEN SubSeq(state.buffer, DrainSize + 1, Len(state.buffer)) ELSE state.buffer
             b == Append(kept, u)
  <2>1. u \in Messages /\ updates' \in Seq(Messages) /\ Len(updates') <= UpdateCapacity
    BY <1>6, <1>a, <1>c, HeadTail DEF ReceiveBuffering
  <2>2. b \in Seq(Messages) /\ b # <<>> /\ Len(b) <= MAX_BUFFER_SIZE
    BY <2>1, <1>a, BufferBound
  <2>3. state' = FetchingSnapshot(b) \/ state' = [state EXCEPT !.buffer = b]
    BY <1>6 DEF ReceiveBuffering
  <2> HIDE DEF u, kept, b
  <2>4. CASE state' = FetchingSnapshot(b)
    <3>1. state' \in StateRecord /\ state'.buffer = b /\ state'.pc = "fetching"
      BY <2>2, <2>4, <1>0, <1>c, StateForms DEF States
    <3> QED BY <1>6, <1>a, <1>d, <2>1, <2>2, <3>1 DEF ReceiveBuffering
  <2>5. CASE state' = [state EXCEPT !.buffer = b]
    <3>1. state' \in StateRecord /\ state'.buffer = b /\ state'.pc = "buffering"
      BY <1>6, <2>2, <2>5, <1>a DEF States, ReceiveBuffering
    <3> QED BY <1>6, <1>a, <1>d, <2>1, <2>2, <3>1 DEF ReceiveBuffering
  <2> QED BY <2>3, <2>4, <2>5
<1>7. CASE BufferingQuiet
  <2>1. state' \in StateRecord /\ state'.buffer = state.buffer /\ state'.pc = "fetching"
    BY <1>7, <1>a, <1>0, <1>c, StateForms DEF BufferingQuiet, States
  <2> QED BY <1>7, <1>a, <1>d, <2>1 DEF BufferingQuiet
<1>8. CASE Fetch
  <2>1. state.attempt <= MAX_RESYNC_ATTEMPTS /\ ~(state.attempt > MAX_RESYNC_ATTEMPTS)
    BY <1>a, <1>c
  <2>2. Head(state.buffer) \in Messages
    BY <1>8, <1>a, <1>b, HeadTail DEF Fetch
  <2>3. CASE ~Head(state.buffer).snapshot
    BY <1>8, <1>a, <1>b, <2>1, <2>3 DEF Fetch, IInv, TypeOK, LiveMirrors, PublishedMirrors
  <2>4. CASE Head(state.buffer).snapshot
    <3> DEFINE u == Head(state.buffer)
    <3>1. state' = Live(u.id, 1) /\ book' = Applied(u)
      BY <1>8, <2>1, <2>4 DEF Fetch
    <3>2. u.id \in 1 .. MaxId /\ u \in Messages
      BY <2>2, BuilderAssumption DEF Update
    <3>3. book' \in Books /\ book'.last_update_id = u.id /\ book'.events = 1 .. u.id
      BY <3>1, <3>2, <2>4, <1>a, AppliedPrefix
    <3> HIDE DEF u
    <3>4. state' \in StateRecord /\ state'.buffer = <<>> /\ state'.pc = "live" /\ state'.last_seq = u.id
      <4>1. state' = [pc |-> "live", buffer |-> <<>>, attempt |-> 0, last_seq |-> u.id, since_sync |-> 1]
        BY <3>1, StateForms
      <4> QED BY <4>1, <3>2, <1>0, <1>c DEF States
    <3>5. LiveMirrors'
      BY <3>3, <3>4 DEF LiveMirrors
    <3> QED BY <1>8, <1>0, <1>a, <1>b, <3>3, <3>4, <3>5 DEF Fetch, IInv, TypeOK, PublishedMirrors
  <2> QED BY <2>3, <2>4
<1>9. CASE LiveGap
  <2>1. state' \in StateRecord /\ state'.buffer = <<>> /\ state'.pc = "resyncing"
    <3>1. state' = [pc |-> "resyncing", buffer |-> <<>>, attempt |-> 1, last_seq |-> 0, since_sync |-> 0]
      BY <1>9, StateForms DEF LiveGap
    <3> QED BY <3>1, <1>0, <1>c DEF States
  <2>2. updates' \in Seq(Messages) /\ Len(updates') <= UpdateCapacity
    BY <1>9, <1>a, <1>c, HeadTail DEF LiveGap
  <2>9. /\ updates' \in Seq(Messages) /\ Len(updates') <= UpdateCapacity
        /\ open' \in BOOLEAN
        /\ Len(state'.buffer) <= MAX_BUFFER_SIZE
        /\ UNCHANGED <<book, built>>
    BY <1>9, <1>0, <1>a, <2>1, <2>2 DEF LiveGap
  <2> QED BY <1>d, <2>1, <2>9
<1>10. CASE LiveUpdate
  <2> DEFINE u == Head(updates)
             n == (state.since_sync + 1) % PublishEvery
             pc == IF state.since_sync % PublishEvery = 0 THEN "sending" ELSE "live"
  <2>1. u \in Messages /\ updates' \in Seq(Messages) /\ Len(updates') <= UpdateCapacity
    BY <1>10, <1>a, <1>c, HeadTail DEF LiveUpdate
  <2>2. u.id \in 1 .. MaxId /\ u.first \in 0 .. MaxId
    BY <2>1, BuilderAssumption DEF Update
  <2>3. state' = [Live(u.id, n) EXCEPT !.pc = pc] /\ book' = Applied(u)
    BY <1>10 DEF LiveUpdate
  <2>4. n \in Nat /\ pc \in {"live", "sending"}
    BY <1>a, <1>c
  <2>5. /\ state.last_seq \in 0 .. MaxId /\ book.events = 1 .. state.last_seq
        /\ u.snapshot \/ u.id = state.last_seq + 1 \/ (u.first > 0 /\ u.first = state.last_seq + 1)
    BY <1>10, <1>a, <1>b DEF LiveUpdate, LiveMirrors, Gap
  <2>6. book' \in Books /\ book'.last_update_id = u.id /\ book'.events = 1 .. u.id
    BY <2>1, <2>3, <2>5, <1>a, AppliedPrefix
  <2> HIDE DEF u, n, pc
  <2>7. /\ state' \in StateRecord /\ state'.buffer = <<>>
        /\ state'.pc \in {"live", "sending"} /\ state'.last_seq = u.id
    <3>1. state' = [pc |-> pc, buffer |-> <<>>, attempt |-> 0, last_seq |-> u.id, since_sync |-> n]
      BY <2>3, StateForms
    <3> QED BY <3>1, <2>2, <2>4, <1>0, <1>c DEF States
  <2>8. LiveMirrors'
    BY <2>6, <2>7 DEF LiveMirrors
  <2> QED BY <1>10, <1>0, <1>a, <1>b, <2>1, <2>6, <2>7, <2>8 DEF LiveUpdate, IInv, TypeOK, PublishedMirrors
<1>11. CASE Publish
  <2>1. /\ built' \in Seq(Books) /\ Len(built') <= SnapshotCapacity
        /\ \A i \in 1 .. Len(built') : built'[i] = IF i <= Len(built) THEN built[i] ELSE book
    BY <1>11, <1>a, <1>c DEF Publish
  <2>2. book.events = 1 .. book.last_update_id
    BY <1>11, <1>b DEF Publish, LiveMirrors
  <2>3. \A i \in 1 .. Len(built') : i \in 1 .. Len(built) \/ built'[i] = book
    BY <2>1, <1>a
  <2>4. PublishedMirrors'
    BY <2>1, <2>2, <2>3, <1>b DEF PublishedMirrors
  <2>5. state' \in StateRecord /\ state'.pc = "live" /\ state'.last_seq = state.last_seq
        /\ state'.buffer = state.buffer
    BY <1>11, <1>a DEF Publish, States
  <2>6. LiveMirrors'
    BY <1>11, <1>b, <2>5 DEF Publish, LiveMirrors
  <2> QED BY <1>11, <1>a, <2>1, <2>4, <2>5, <2>6 DEF Publish, IInv, TypeOK
<1>12. CASE Resync
  <2>1. ~(state.attempt > MAX_RESYNC_ATTEMPTS)
    BY <1>a, <1>c
  <2>2. state' \in StateRecord /\ state'.buffer = <<>> /\ state'.pc = "buffering"
    <3>1. state' = [pc |-> "buffering", buffer |-> <<>>, attempt |-> 0, last_seq |-> 0, since_sync |-> 0]
      BY <1>12, <2>1, StateForms DEF Resync
    <3> QED BY <3>1, <1>0, <1>c DEF States
  <2>9. /\ updates' \in Seq(Messages) /\ Len(updates') <= UpdateCapacity
        /\ open' \in BOOLEAN
        /\ Len(state'.buffer) <= MAX_BUFFER_SIZE
        /\ UNCHANGED <<book, built>>
    BY <1>12, <1>0, <1>a, <2>2 DEF Resync
  <2> QED BY <1>d, <2>2, <2>9
<1>13. CASE UNCHANGED vars
  BY <1>13, <1>a, <1>b DEF vars, IInv, TypeOK, LiveMirrors, PublishedMirrors
<1> QED BY <1>1, <1>2, <1>3, <1>4, <1>5, <1>6, <1>7, <1>8, <1>9, <1>10, <1>11, <1>12, <1>13 DEF Next, Run

\* The builder never reaches a state outside its types: buffer and channels keep
\* their bounds, whatever their sizes.
THEOREM TypeCorrect == Spec => []TypeOK
<1>1. IInv => TypeOK
  BY DEF IInv
<1> QED BY <1>1, InvInit, InvStep, PTL DEF Spec

\* A live book reflects exactly the exchange's events up to its sequence number:
\* the gap check of the live state lets no update with a hole before it through.
THEOREM LiveBookMirrors == Spec => []LiveMirrors
<1>1. IInv => LiveMirrors
  BY DEF IInv
<1> QED BY <1>1, InvInit, InvStep, PTL DEF Spec

\* Every book on the way to the receivers reflects a prefix of the exchange's
\* events.
THEOREM PublishedBooksMirror == Spec => []PublishedMirrors
<1>1. IInv => PublishedMirrors
  BY DEF IInv
<1> QED BY <1>1, InvInit, InvStep, PTL DEF Spec

=============================================================================
