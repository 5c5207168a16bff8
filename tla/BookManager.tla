----------------------------- MODULE BookManager -----------------------------
(***************************************************************************)
(* OrderBookManager (feeder/src/core/orderbook_manager.rs) for one symbol: *)
(* the map of builders behind its lock, the tasks that look their builder  *)
(* up, or make one, for every update they send, the consumer of the built  *)
(* books and shutdown.  What a builder does with an update is the subject  *)
(* of OrderBookBuilder; here it takes it and publishes a book.             *)
(*                                                                         *)
(* The map is read under one lock and written under another, later one.    *)
(***************************************************************************)
EXTENDS Naturals, Sequences, FiniteSets, SequencesExt

CONSTANTS
    ManagerTasks,
    UpdateCapacity,    \* mpsc::channel(1000) of get_or_create_builder
    BooksCapacity,     \* mpsc::channel(1000) of new
    MaxUpdates         \* bound: updates sent in a behaviour

ASSUME ManagerAssumption == IsFiniteSet(ManagerTasks) /\ {UpdateCapacity, BooksCapacity} \subseteq Nat

VARIABLES
    where,      \* per task: where it is in send_update
    tx,         \* per task: the builder whose sender it holds, 0 for none
    entry,      \* the builder in the map, 0 for none
    builders,   \* per builder: its channel, and whether its task runs
    books,      \* the channel of built books: the updates they reflect
    consumer,   \* start_consumer was called: it holds the receiver
    published,  \* history: the books given to the UDP sender
    accepted,   \* history: the updates that a channel took, per builder
    doubled,    \* history: two tasks were making a builder at the same time
    offered,    \* history: updates sent, taken by a channel or refused
    stopped     \* shutdown was called

bvars == <<where, tx, entry, builders, books, consumer, published, accepted, doubled, offered, stopped>>

Made == DOMAIN builders

ManagerInit ==
    /\ where = [t \in ManagerTasks |-> "idle"]
    /\ tx = [t \in ManagerTasks |-> 0]
    /\ entry = 0
    /\ builders = <<>> /\ accepted = <<>>
    /\ books = <<>> /\ published = <<>>
    /\ consumer = FALSE
    /\ doubled = FALSE /\ offered = 0
    /\ stopped = FALSE

-----------------------------------------------------------------------------
(* send_update and try_send_update.                                        *)

\* The map is read: the builder is there, or the task goes on without the lock.
LookUp(t) ==
    /\ where[t] = "idle" /\ offered < MaxUpdates
    /\ IF entry /= 0
         THEN tx' = [tx EXCEPT ![t] = entry] /\ where' = [where EXCEPT ![t] = "send"] /\ doubled' = doubled
         ELSE /\ where' = [where EXCEPT ![t] = "create"] /\ tx' = tx
              /\ doubled' = (doubled \/ \E u \in ManagerTasks : where[u] \in {"create", "insert"})
    /\ UNCHANGED <<entry, builders, books, consumer, published, accepted, offered, stopped>>

\* It makes a channel, a builder and their tasks.
CreateBuilder(t) ==
    /\ where[t] = "create"
    /\ builders' = Append(builders, [inbox |-> <<>>, runs |-> TRUE])
    /\ accepted' = Append(accepted, <<>>)
    /\ tx' = [tx EXCEPT ![t] = Len(builders')]
    /\ where' = [where EXCEPT ![t] = "insert"]
    /\ UNCHANGED <<entry, books, consumer, published, doubled, offered, stopped>>

\* Mutant: the builder is not put into the map.
ForgetBuilder(t) ==
    /\ where[t] = "insert"
    /\ where' = [where EXCEPT ![t] = "send"]
    /\ UNCHANGED <<entry, tx, builders, books, consumer, published, accepted, doubled, offered, stopped>>

\* It writes the map, over what is there by now.
InsertBuilder(t) ==
    /\ where[t] = "insert"
    /\ entry' = tx[t]
    /\ where' = [where EXCEPT ![t] = "send"]
    /\ UNCHANGED <<tx, builders, books, consumer, published, accepted, doubled, offered, stopped>>

\* It sends, waiting for room; without a receiver the send fails.
SendToBuilder(t) ==
    /\ where[t] = "send"
    /\ LET b == tx[t] IN
         IF builders[b].runs
           THEN /\ Len(builders[b].inbox) < UpdateCapacity
                /\ builders' = [builders EXCEPT ![b].inbox = Append(@, offered + 1)]
                /\ accepted' = [accepted EXCEPT ![b] = Append(@, offered + 1)]
           ELSE UNCHANGED <<builders, accepted>>
    /\ offered' = offered + 1
    /\ tx' = [tx EXCEPT ![t] = 0]
    /\ where' = [where EXCEPT ![t] = "idle"]
    /\ UNCHANGED <<entry, books, consumer, published, doubled, stopped>>

-----------------------------------------------------------------------------
(* The tasks of a builder, the consumer, and shutdown.                     *)

\* An update is applied and the book goes through the forwarder to the manager.
BuildBook(b) ==
    /\ builders[b].runs /\ builders[b].inbox /= <<>>
    /\ Len(books) < BooksCapacity
    /\ books' = Append(books, Head(builders[b].inbox))
    /\ builders' = [builders EXCEPT ![b].inbox = Tail(@)]
    /\ UNCHANGED <<where, tx, entry, consumer, published, accepted, doubled, offered, stopped>>

\* Nobody holds a sender of its channel any more, and the channel is empty.
EndBuilder(b) ==
    /\ builders[b].runs /\ builders[b].inbox = <<>>
    /\ entry /= b /\ \A t \in ManagerTasks : tx[t] /= b
    /\ builders' = [builders EXCEPT ![b].runs = FALSE]
    /\ UNCHANGED <<where, tx, entry, books, consumer, published, accepted, doubled, offered, stopped>>

\* The first call takes the receiver, a second one finds it gone.
start_consumer ==
    /\ ~consumer
    /\ consumer' = TRUE
    /\ UNCHANGED <<where, tx, entry, builders, books, published, accepted, doubled, offered, stopped>>

ConsumeBook ==
    /\ consumer /\ books /= <<>>
    /\ published' = Append(published, Head(books))
    /\ books' = Tail(books)
    /\ UNCHANGED <<where, tx, entry, builders, consumer, accepted, doubled, offered, stopped>>

\* The builder in the map is aborted: its channel is dropped, the map is left.
shutdown ==
    /\ ~stopped
    /\ stopped' = TRUE
    /\ builders' = IF entry = 0 THEN builders ELSE [builders EXCEPT ![entry] = [inbox |-> <<>>, runs |-> FALSE]]
    /\ UNCHANGED <<where, tx, entry, books, consumer, published, accepted, doubled, offered>>

ManagerNext ==
    \/ \E t \in ManagerTasks : LookUp(t) \/ CreateBuilder(t) \/ InsertBuilder(t) \/ SendToBuilder(t)
    \/ \E b \in Made : BuildBook(b) \/ EndBuilder(b)
    \/ start_consumer \/ ConsumeBook \/ shutdown

-----------------------------------------------------------------------------
(* What holds of it.                                                       *)

ManagerTypeOK ==
    /\ where \in [ManagerTasks -> {"idle", "create", "insert", "send"}]
    /\ tx \in [ManagerTasks -> 0 .. Len(builders)] /\ entry \in 0 .. Len(builders)
    /\ Len(builders) <= Cardinality(ManagerTasks)
    /\ \A b \in Made : Len(builders[b].inbox) <= UpdateCapacity
    /\ Len(books) <= BooksCapacity
    /\ offered \in Nat /\ consumer \in BOOLEAN /\ doubled \in BOOLEAN /\ stopped \in BOOLEAN

\* Unless two tasks found the map empty at the same time, one builder gets every
\* update of the symbol, in the order of the sends, and its books are published
\* in that order.
OneBuilder ==
    ~doubled => /\ Len(builders) <= 1
              /\ \A b \in Made : IsPrefix(published \o books \o builders[b].inbox, accepted[b])
              /\ (Len(builders) = 1 /\ ~stopped) => published \o books \o builders[1].inbox = accepted[1]

=============================================================================
