-------------------------------- MODULE Nbbo --------------------------------
(***************************************************************************)
(* NBBOManager (matching-engine/src/nbbo/mod.rs) for one symbol: the books *)
(* of its exchanges, each behind a lock, and the best bid and offer in a   *)
(* cache.  Feeds call update_order_book from tasks of their own; no lock   *)
(* spans the update of a book, the walk over all books and the write to    *)
(* the cache, nor the two halves of cleanup_stale.                         *)
(*                                                                         *)
(* A book is its best bid and its best ask, 0 for an empty side.  Times    *)
(* are milliseconds.  The map's order is left open.                        *)
(***************************************************************************)
EXTENDS Integers, FiniteSets, FiniteSetsExt

CONSTANTS
    NbboTasks, Venues,
    BidPrices, AskPrices,  \* without 0
    QuoteTimes,            \* timestamps of updates
    MaxStale,              \* max_stale_ms
    MaxNbboCalls           \* bound: calls in a behaviour

ASSUME NbboAssumption ==
    /\ IsFiniteSet(NbboTasks) /\ IsFiniteSet(Venues) /\ BidPrices \subseteq Nat /\ AskPrices \subseteq Nat
    /\ QuoteTimes \subseteq Nat /\ MaxStale \in Nat

VARIABLES
    venue_books,   \* order_books: a function on the exchanges that have one
    nbbo_cache,    \* the cached NBBO, NoNbbo if there is none
    caller,        \* per task: its call, what is left of the walk, what it found
    crossed,       \* crossed_markets
    nbbo_calls,    \* history: calls begun
    settled        \* history: the time of the last call, an update that met no other, else -1

nvars == <<venue_books, nbbo_cache, caller, crossed, nbbo_calls, settled>>

NoNbbo == [bid |-> 0, bid_exchange |-> "none", ask |-> 0, ask_exchange |-> "none", exchanges |-> 0, at |-> 0]
Free == [doing |-> "nothing", left |-> {}, found |-> NoNbbo]
Alone(t) == \A u \in NbboTasks \ {t} : caller[u] = Free

IsStale(instant, e) == instant - venue_books[e].at > MaxStale

NbboInit ==
    /\ venue_books = [e \in {} |-> NoNbbo]
    /\ nbbo_cache = NoNbbo
    /\ caller = [t \in NbboTasks |-> Free]
    /\ crossed = 0 /\ nbbo_calls = 0
    /\ settled = -1

-----------------------------------------------------------------------------
(* update_order_book and compute_nbbo.                                     *)

Begins(t) ==
    /\ caller[t] = Free /\ nbbo_calls < MaxNbboCalls
    /\ nbbo_calls' = nbbo_calls + 1

\* An empty book is refused, one without a side is not.
update_order_book(t, e, bid, ask, ts) ==
    /\ Begins(t) /\ (bid > 0 \/ ask > 0)
    /\ venue_books' = [x \in DOMAIN venue_books \cup {e} |->
         IF x = e THEN [bid |-> bid, ask |-> ask, at |-> ts] ELSE venue_books[x]]
    /\ caller' = [caller EXCEPT ![t] = [doing |-> "compute", left |-> Venues, found |-> [NoNbbo EXCEPT !.at = ts]]]
    /\ settled' = IF Alone(t) THEN ts ELSE -1
    /\ UNCHANGED <<nbbo_cache, crossed>>

\* Mutant: a stale book is not counted, but quotes.
BetterOfAll(found, e) ==
    LET b == venue_books[e]
        bids == b.bid > found.bid
        asks == b.ask > 0 /\ (found.ask = 0 \/ b.ask <= found.ask) IN
      [found EXCEPT !.bid = IF bids THEN b.bid ELSE @, !.bid_exchange = IF bids THEN e ELSE @,
                    !.ask = IF asks THEN b.ask ELSE @, !.ask_exchange = IF asks THEN e ELSE @,
                    !.exchanges = IF IsStale(found.at, e) THEN @ ELSE @ + 1]

\* One entry of the walk.
Better(found, e) ==
    LET b == venue_books[e]
        bids == b.bid > found.bid
        asks == b.ask > 0 /\ (found.ask = 0 \/ b.ask < found.ask) IN
      IF IsStale(found.at, e) THEN found
      ELSE [found EXCEPT !.bid = IF bids THEN b.bid ELSE @, !.bid_exchange = IF bids THEN e ELSE @,
                         !.ask = IF asks THEN b.ask ELSE @, !.ask_exchange = IF asks THEN e ELSE @,
                         !.exchanges = @ + 1]

LookAt(t, e) ==
    /\ caller[t].doing = "compute" /\ e \in caller[t].left
    /\ caller' = [caller EXCEPT ![t].left = @ \ {e},
                                ![t].found = IF e \in DOMAIN venue_books THEN Better(@, e) ELSE @]
    /\ UNCHANGED <<venue_books, nbbo_cache, crossed, nbbo_calls, settled>>

\* Without a bid or an ask the call ends and the cache keeps what it has.
CacheNbbo(t) ==
    /\ caller[t].doing = "compute" /\ caller[t].left = {}
    /\ LET n == caller[t].found IN
         IF n.bid = 0 \/ n.ask = 0 THEN UNCHANGED <<nbbo_cache, crossed>>
         ELSE nbbo_cache' = n /\ crossed' = crossed + (IF n.ask < n.bid THEN 1 ELSE 0)
    /\ caller' = [caller EXCEPT ![t] = Free]
    /\ UNCHANGED <<venue_books, nbbo_calls, settled>>

-----------------------------------------------------------------------------
(* cleanup_stale: the walk collects, the removal does not look again.      *)

cleanup_stale(t, instant) ==
    /\ Begins(t)
    /\ caller' = [caller EXCEPT ![t] =
         [Free EXCEPT !.doing = "cleanup", !.left = {e \in DOMAIN venue_books : IsStale(instant, e)}]]
    /\ settled' = -1
    /\ UNCHANGED <<venue_books, nbbo_cache, crossed>>

RemoveBooks(t) ==
    /\ caller[t].doing = "cleanup"
    /\ venue_books' = [e \in DOMAIN venue_books \ caller[t].left |-> venue_books[e]]
    /\ caller' = [caller EXCEPT ![t] = Free]
    /\ settled' = -1
    /\ UNCHANGED <<nbbo_cache, crossed, nbbo_calls>>

NbboNext ==
    \E t \in NbboTasks :
      \/ \E e \in Venues, bid \in BidPrices \cup {0}, ask \in AskPrices \cup {0}, ts \in QuoteTimes :
           update_order_book(t, e, bid, ask, ts)
      \/ \E e \in Venues : LookAt(t, e)
      \/ CacheNbbo(t)
      \/ \E instant \in QuoteTimes : cleanup_stale(t, instant)
      \/ RemoveBooks(t)

-----------------------------------------------------------------------------
(* What holds of it.                                                       *)

NbboTypeOK ==
    /\ DOMAIN venue_books \subseteq Venues
    /\ \A e \in DOMAIN venue_books : venue_books[e].bid \in Nat /\ venue_books[e].ask \in Nat
    /\ nbbo_cache.exchanges <= Cardinality(Venues) /\ crossed <= nbbo_calls
    /\ \A t \in NbboTasks : caller[t].doing \in {"nothing", "compute", "cleanup"} /\ caller[t].left \subseteq Venues

\* What an update leaves in the cache when no other call ran beside it, whatever
\* was raced before: the best of the books that are not stale at its time, counted,
\* and quoted by the exchanges that it names.  Of two updates that overlap the slower
\* may put an older NBBO over a newer one; after one that finds no bid or no ask an
\* older NBBO stays.
CachedIsBest ==
    LET fresh == {e \in DOMAIN venue_books : ~IsStale(settled, e)}
        bids == {venue_books[e].bid : e \in fresh} \ {0}
        asks == {venue_books[e].ask : e \in fresh} \ {0} IN
      (settled >= 0 /\ (\A t \in NbboTasks : caller[t] = Free) /\ bids /= {} /\ asks /= {}) =>
        /\ nbbo_cache.bid = Max(bids) /\ nbbo_cache.ask = Min(asks)
        /\ nbbo_cache.exchanges = Cardinality(fresh) /\ nbbo_cache.at = settled
        /\ nbbo_cache.bid_exchange \in fresh /\ venue_books[nbbo_cache.bid_exchange].bid = nbbo_cache.bid
        /\ nbbo_cache.ask_exchange \in fresh /\ venue_books[nbbo_cache.ask_exchange].ask = nbbo_cache.ask

=============================================================================
