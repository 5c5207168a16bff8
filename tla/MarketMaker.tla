----------------------------- MODULE MarketMaker -----------------------------
(***************************************************************************)
(* The market maker of the feeder (feeder/src/eda/market_maker.rs), the    *)
(* OrderManager it tracks its orders in (core/order_manager.rs), and the   *)
(* requests it makes (crypto/order/binance_order.rs,                       *)
(* binance_order_status.rs).                                               *)
(*                                                                         *)
(* One task calls one operation after the other; each awaited request is a *)
(* step.  A request is answered, or rejected, or carried out although its  *)
(* answer is an error.  The exchange is external: it fills an open order   *)
(* at any time and a market order at once.  Orders are of one size, prices *)
(* are left out; a closing order is of the size of the position.           *)
(***************************************************************************)
EXTENDS Integers, Sequences, FiniteSets, SequencesExt, Sums

CONSTANTS
    OrderLevels,       \* levels asked for by the caller
    SkewUnit,          \* max_position of place_skewed_orders, in orders
    MaxPlaced          \* bound: orders that reach the exchange

ASSUME MakerAssumption == {OrderLevels, MaxPlaced} \subseteq Nat /\ SkewUnit \in Nat \ {0}

VARIABLES
    placed,     \* external: the orders at the exchange: side, size, status
    tracked,    \* the orders of ORDER_MANAGER: id and the status last heard
    running,    \* the operation under way
    stage,      \* where it is
    todo,       \* the requests, or ids, it has left
    answers,    \* the ids it was answered with
    failed,     \* one of its requests failed
    failures,   \* history: an operation has returned an error since the start
    swept       \* history: cleanup has returned well and nothing was placed since

kvars == <<placed, tracked, running, stage, todo, answers, failed, failures, swept>>

OpenAt(list) == {i \in DOMAIN list : list[i].status = "open"}
\* What an order adds to the position.
Bought(o) == IF o.status /= "filled" THEN 0 ELSE IF o.side = "Buy" THEN o.size ELSE -o.size
Net == SumOf([i \in DOMAIN placed |-> Bought(placed[i])])
Size(n) == IF n < 0 THEN -n ELSE n

MakerInit ==
    /\ placed = <<>> /\ tracked = <<>>
    /\ running = "none" /\ stage = "done" /\ todo = <<>> /\ answers = <<>> /\ failed = FALSE
    /\ failures = FALSE /\ swept = FALSE

-----------------------------------------------------------------------------
(* Steps of every operation.                                               *)

Begin(op, first, items) ==
    /\ running = "none"
    /\ running' = op /\ stage' = first /\ todo' = items
    /\ answers' = <<>> /\ failed' = FALSE

Finish == running' = "none" /\ stage' = "done" /\ todo' = <<>> /\ answers' = <<>> /\ failed' = FALSE
ReturnError == Finish /\ failures' = TRUE

\* OrderManager: orders are added at the end, one by one; an update goes to the
\* first order of its id.
track_orders(list, ids) == list \o [i \in DOMAIN ids |-> [id |-> ids[i], status |-> "NEW"]]
track_order(list, id) == track_orders(list, <<id>>)
\* Mutant: an update goes to the first order of the list.
UpdateFirst(list, id, status) == IF list = <<>> THEN list ELSE [list EXCEPT ![1].status = status]

update_orders(list, ids, status) ==
    [i \in DOMAIN list |->
       IF list[i].id \in ids /\ \A j \in 1 .. i - 1 : list[j].id /= list[i].id
         THEN [list[i] EXCEPT !.status = status] ELSE list[i]]
update_order(list, id, status) == update_orders(list, {id}, status)

\* send_order: what the exchange makes of the request, and whether it is answered.
send_order(request, answered) ==
    \/ placed' = Append(placed, request)
    \/ ~answered /\ placed' = placed

\* query_order_status: the statuses are mapped.
query_order_status(id) ==
    CASE placed[id].status = "open" -> "OPEN"
      [] placed[id].status = "filled" -> "FILLED"
      [] placed[id].status = "cancelled" -> "CANCELED"

Limit(side) == [side |-> side, size |-> 1, status |-> "open"]
Market(side, size) == [side |-> side, size |-> size, status |-> "filled"]

\* The exchange fills an open order.
Fill(i) ==
    /\ placed[i].status = "open"
    /\ placed' = [placed EXCEPT ![i].status = "filled"]
    /\ UNCHANGED <<tracked, running, stage, todo, answers, failed, failures, swept>>

-----------------------------------------------------------------------------
(* place_orders: a bid, then an ask; the first error ends it.              *)

place_orders ==
    /\ Len(placed) + 2 <= MaxPlaced
    /\ Begin("pair", "send", <<Limit("Buy"), Limit("Sell")>>)
    /\ swept' = FALSE
    /\ UNCHANGED <<placed, tracked, failures>>

SendOfPair(answered) ==
    /\ running = "pair"
    /\ send_order(Head(todo), answered)
    /\ IF ~answered THEN ReturnError /\ tracked' = tracked
       ELSE /\ tracked' = track_order(tracked, Len(placed'))
            /\ IF Len(todo) = 1 THEN Finish
               ELSE todo' = Tail(todo) /\ UNCHANGED <<running, stage, answers, failed>>
            /\ failures' = failures
    /\ UNCHANGED swept

-----------------------------------------------------------------------------
(* place_multiple_orders, place_balanced_orders and place_skewed_orders:   *)
(* how many bids and asks, then send_multiple_orders.                      *)

\* Orders below the minimum notional are skipped; without any it is an error.
place_multiple_orders(bids, asks) == bids \in 0 .. OrderLevels /\ asks \in 0 .. OrderLevels

\* calculate_max_orders halved, at most the levels asked for.
place_balanced_orders(bids, asks) == bids \in 0 .. OrderLevels /\ asks = bids

\* The more the position is to one side, the fewer orders on that side, down to
\* half: round(levels * ((1 - |skew|) / 2 + 1 / 2)).
SkewedLevels(levels, net) ==
    LET skew == IF Size(net) > SkewUnit THEN SkewUnit ELSE Size(net) IN
    (levels * (2 * SkewUnit - skew) * 2 + 2 * SkewUnit) \div (4 * SkewUnit)
place_skewed_orders(bids, asks) ==
    \E levels \in 0 .. OrderLevels :
      /\ bids = (IF Net > 0 THEN SkewedLevels(levels, Net) ELSE levels)
      /\ asks = (IF Net < 0 THEN SkewedLevels(levels, Net) ELSE levels)

PlaceBatch(bids, asks) ==
    /\ Len(placed) + bids + asks <= MaxPlaced
    /\ \/ place_multiple_orders(bids, asks)
       \/ place_balanced_orders(bids, asks)
       \/ place_skewed_orders(bids, asks)
    /\ Begin("batch", "send", [i \in 1 .. bids + asks |-> Limit(IF i <= bids THEN "Buy" ELSE "Sell")])
    /\ swept' = FALSE
    /\ UNCHANGED <<placed, tracked, failures>>

\* The requests of a batch are under way together.
SendOfBatch(i, answered) ==
    /\ running = "batch" /\ i \in DOMAIN todo
    /\ send_order(todo[i], answered)
    /\ todo' = RemoveAt(todo, i)
    /\ answers' = IF answered THEN Append(answers, Len(placed')) ELSE answers
    /\ failed' = (failed \/ ~answered)
    /\ UNCHANGED <<tracked, running, stage, failures, swept>>

\* One error makes the whole batch an error: what was placed is not tracked.
send_multiple_orders ==
    /\ running = "batch" /\ todo = <<>>
    /\ IF failed THEN ReturnError /\ tracked' = tracked
       ELSE tracked' = track_orders(tracked, answers) /\ Finish /\ failures' = failures
    /\ UNCHANGED <<placed, swept>>

-----------------------------------------------------------------------------
(* check_order_status asks for every order there ever was.                 *)

check_order_status ==
    /\ tracked /= <<>>
    /\ Begin("check", "query", [i \in 1 .. Len(tracked) |-> tracked[i].id])
    /\ UNCHANGED <<placed, tracked, failures, swept>>

QueryNext(answered) ==
    /\ running = "check"
    /\ IF ~answered THEN ReturnError /\ tracked' = tracked
       ELSE /\ tracked' = update_order(tracked, Head(todo), query_order_status(Head(todo)))
            /\ IF Len(todo) = 1 THEN Finish
               ELSE todo' = Tail(todo) /\ UNCHANGED <<running, stage, answers, failed>>
            /\ failures' = failures
    /\ UNCHANGED <<placed, swept>>

-----------------------------------------------------------------------------
(* cleanup: cancel_all_orders, then close_all_positions.                   *)

\* Mutant: the positions are closed and the open orders left.
CleanupPositions ==
    /\ Len(placed) < MaxPlaced
    /\ Begin("cleanup", "positions", <<>>)
    /\ UNCHANGED <<placed, tracked, failures, swept>>

cleanup ==
    /\ Len(placed) < MaxPlaced
    /\ Begin("cleanup", "open", <<>>)
    /\ UNCHANGED <<placed, tracked, failures, swept>>

\* get_open_orders: with none there is nothing to cancel.
get_open_orders(answered) ==
    /\ running = "cleanup" /\ stage = "open"
    /\ IF ~answered THEN ReturnError
       ELSE stage' = (IF OpenAt(placed) = {} THEN "positions" ELSE "cancel")
            /\ UNCHANGED <<running, todo, answers, failed, failures>>
    /\ UNCHANGED <<placed, tracked, swept>>

\* The answer lists the orders or, in the form of /fapi/v1/allOpenOrders, none.
cancel_all_orders(answered, listed) ==
    /\ running = "cleanup" /\ stage = "cancel"
    /\ LET cancelled == [i \in DOMAIN placed |->
                           IF placed[i].status = "open" THEN [placed[i] EXCEPT !.status = "cancelled"] ELSE placed[i]] IN
         \/ placed' = cancelled
         \/ ~answered /\ placed' = placed
    /\ tracked' = IF answered /\ listed
                    THEN update_orders(tracked, OpenAt(placed), "CANCELED") ELSE tracked
    /\ IF answered THEN stage' = "positions" /\ UNCHANGED <<running, todo, answers, failed, failures>>
       ELSE ReturnError
    /\ UNCHANGED swept

\* get_positions: a position of 0 is left out.
get_positions(answered) ==
    /\ running = "cleanup" /\ stage = "positions"
    /\ IF ~answered THEN ReturnError /\ swept' = swept
       ELSE IF Net = 0 THEN Finish /\ swept' = TRUE /\ failures' = failures
       ELSE /\ stage' = "close"
            /\ todo' = <<Market(IF Net > 0 THEN "Sell" ELSE "Buy", Size(Net))>>
            /\ UNCHANGED <<running, answers, failed, failures, swept>>
    /\ UNCHANGED <<placed, tracked>>

\* An error is printed and forgotten.
close_all_positions(answered) ==
    /\ running = "cleanup" /\ stage = "close"
    /\ send_order(Head(todo), answered)
    /\ tracked' = IF answered THEN track_order(tracked, Len(placed')) ELSE tracked
    /\ failed' = ~answered
    /\ stage' = "verify" /\ todo' = <<>>
    /\ UNCHANGED <<running, answers, failures, swept>>

\* get_positions again, whose answer only makes a difference to what is printed.
VerifyClosed(answered) ==
    /\ running = "cleanup" /\ stage = "verify"
    /\ IF ~answered THEN ReturnError /\ swept' = swept
       ELSE Finish /\ swept' = ~failed /\ failures' = (failures \/ failed)
    /\ UNCHANGED <<placed, tracked>>

MakerNext ==
    \/ \E i \in DOMAIN placed : Fill(i)
    \/ place_orders \/ send_multiple_orders \/ check_order_status \/ cleanup
    \/ \E bids, asks \in 0 .. OrderLevels : PlaceBatch(bids, asks)
    \/ \E answered \in BOOLEAN :
         \/ SendOfPair(answered)
         \/ \E i \in 1 .. 2 * OrderLevels : SendOfBatch(i, answered)
         \/ QueryNext(answered)
         \/ get_open_orders(answered)
         \/ \E listed \in BOOLEAN : cancel_all_orders(answered, listed)
         \/ get_positions(answered) \/ close_all_positions(answered) \/ VerifyClosed(answered)

-----------------------------------------------------------------------------
(* What holds of it.                                                       *)

MakerTypeOK ==
    /\ Len(placed) <= MaxPlaced
    /\ \A i \in DOMAIN placed : placed[i].status \in {"open", "filled", "cancelled"}
    /\ \A i \in DOMAIN tracked : tracked[i].id \in DOMAIN placed
    /\ running \in {"none", "pair", "batch", "check", "cleanup"}
    /\ failed \in BOOLEAN /\ failures \in BOOLEAN /\ swept \in BOOLEAN

\* ORDER_MANAGER knows the orders: none twice, none that was not placed, all of
\* them as long as every request was answered (a failed one makes it forget even
\* orders that were confirmed), and what it takes for closed is closed like that.
\* A cleanup that found no error leaves neither an open order nor a position
\* behind, whichever orders were filled while it ran and whether or not they are
\* tracked: no order can be filled between the look at the positions and the end.
OrdersKnown ==
    /\ \A i, j \in DOMAIN tracked : i /= j => tracked[i].id /= tracked[j].id
    /\ (running = "none" /\ ~failures) => {tracked[i].id : i \in DOMAIN tracked} = DOMAIN placed
    /\ \A i \in DOMAIN tracked :
         tracked[i].status \in {"FILLED", "CANCELED"} =>
           query_order_status(tracked[i].id) = tracked[i].status
    /\ swept => Net = 0 /\ OpenAt(placed) = {}

=============================================================================
