--------------------------- MODULE OrderManagement ---------------------------
(***************************************************************************)
(* OrderManagementSystem (matching-engine/src/oms/mod.rs): risk checks     *)
(* before an order, the reports of the exchange, positions and profit.     *)
(*                                                                         *)
(* Quantities and prices are integers.  A position keeps what it cost,     *)
(* |quantity| * avg_entry_price, in place of the average, so that nothing  *)
(* is divided.  A position that is not in the map is one of quantity 0:    *)
(* no check tells them apart.                                              *)
(*                                                                         *)
(* Each operation takes its effect at one moment: submit_order reads       *)
(* positions and never other orders, a report works under the lock of its  *)
(* order and of the position.                                              *)
(***************************************************************************)
EXTENDS Integers, Sequences, FiniteSets, Sums

CONSTANTS
    Instruments,       \* symbol and exchange
    OrderSizes, FillPrices,
    MaxPosition, MaxDailyLoss, MaxExposure,    \* the limits of new
    MaxOrders, MaxReports                      \* bounds: orders, Filled reports

ASSUME OmsAssumption == IsFiniteSet(Instruments) /\ OrderSizes \subseteq Nat /\ FillPrices \subseteq Nat /\ MaxOrders \in Nat

VARIABLES
    orders,     \* the orders by id: instrument, side, quantity, status
    position,   \* per instrument: quantity, cost, realized_pnl
    performance,\* total_trades, winning_trades, losing_trades, total_pnl, max_drawdown
    daily_pnl,
    cash,       \* history: per instrument, what its fills paid and received
    reports,    \* history: per order, the Filled reports it got
    skewed      \* history: instruments with a fill that reduced, or closed, without pnl

ovars == <<orders, position, performance, daily_pnl, cash, reports, skewed>>

Abs(n) == IF n < 0 THEN -n ELSE n
\* f64::signum: the sign of 0.0 is 1.
Signum(n) == IF n < 0 THEN -1 ELSE 1
Signed(side, quantity) == IF side = "Buy" THEN quantity ELSE -quantity

OmsInit ==
    /\ orders = <<>> /\ reports = <<>>
    /\ position = [k \in Instruments |-> [quantity |-> 0, cost |-> 0, realized |-> 0]]
    /\ performance = [trades |-> 0, wins |-> 0, losses |-> 0, pnl |-> 0, drawdown |-> 0]
    /\ daily_pnl = 0
    /\ cash = [k \in Instruments |-> 0]
    /\ skewed = {}

-----------------------------------------------------------------------------
(* Orders in.                                                              *)

calculate_total_exposure ==
    TotalOf(Instruments, [k \in Instruments |-> position[k].cost])

check_risk_limits(k, side, quantity) ==
    /\ daily_pnl >= -MaxDailyLoss
    /\ Abs(position[k].quantity + Signed(side, quantity)) <= MaxPosition
    /\ calculate_total_exposure <= MaxExposure

submit_order(k, side, quantity) ==
    /\ Len(orders) < MaxOrders
    /\ check_risk_limits(k, side, quantity)
    /\ orders' = Append(orders, [instrument |-> k, side |-> side, quantity |-> quantity, status |-> "New"])
    /\ reports' = Append(reports, 0)
    /\ UNCHANGED <<position, performance, daily_pnl, cash, skewed>>

cancel_order(id) ==
    /\ orders[id].status \in {"New", "Pending"}
    /\ orders' = [orders EXCEPT ![id].status = "Cancelled"]
    /\ UNCHANGED <<position, performance, daily_pnl, cash, reports, skewed>>

-----------------------------------------------------------------------------
(* Reports out.                                                            *)

\* Profit is realized only when the sign changes, and then of the whole position.
Crosses(old, new) == old /= 0 /\ Signum(old) /= Signum(new)
\* Mutant: the profit of a short position has the sign of a long one.
ProfitOfLong(pos, price) == Abs(pos.quantity) * price - pos.cost

Profit(pos, price) ==
    (Abs(pos.quantity) * price - pos.cost) * Signum(pos.quantity)

\* Everything else is taken for adding, at the price of the fill.
CostAfter(pos, new, price) ==
    CASE new = 0 -> 0
      [] new /= 0 /\ Signum(pos.quantity) = Signum(new) -> pos.cost + price * Abs(new - pos.quantity)
      [] OTHER -> price * Abs(new)

\* Mutant: a trade that earns nothing is a winning and a losing one.
CountEvenTwice(pnl) ==
    LET total == performance.pnl + pnl IN
    performance' = [trades |-> performance.trades + 1, pnl |-> total,
                    wins |-> performance.wins + (IF pnl >= 0 THEN 1 ELSE 0),
                    losses |-> performance.losses + (IF pnl <= 0 THEN 1 ELSE 0),
                    drawdown |-> IF total < performance.drawdown THEN total ELSE performance.drawdown]

update_performance_metrics(pnl) ==
    LET total == performance.pnl + pnl IN
    performance' = [trades |-> performance.trades + 1, pnl |-> total,
                    wins |-> performance.wins + (IF pnl > 0 THEN 1 ELSE 0),
                    losses |-> performance.losses + (IF pnl < 0 THEN 1 ELSE 0),
                    drawdown |-> IF total < performance.drawdown THEN total ELSE performance.drawdown]

update_position(k, signed, price) ==
    LET pos == position[k]
        new == pos.quantity + signed
        crosses == Crosses(pos.quantity, new)
        pnl == IF crosses THEN Profit(pos, price) ELSE 0 IN
    /\ position' = [position EXCEPT ![k] = [quantity |-> new, cost |-> CostAfter(pos, new, price),
                                            realized |-> pos.realized + pnl]]
    /\ daily_pnl' = daily_pnl + pnl
    /\ IF crosses THEN update_performance_metrics(pnl) ELSE performance' = performance
    /\ cash' = [cash EXCEPT ![k] = @ - signed * price]
    /\ skewed' = IF pos.quantity * signed < 0 /\ ~crosses THEN skewed \cup {k} ELSE skewed

\* A report of another status is only noted, also that of a partial fill.
NoteStatus(id, status) ==
    /\ orders' = [orders EXCEPT ![id].status = status]
    /\ UNCHANGED <<position, performance, daily_pnl, cash, reports, skewed>>

\* A Filled report is booked whatever the order's status was.
NoteFilled(id, quantity, price) ==
    LET order == orders[id] IN
    /\ reports[id] < MaxReports
    /\ orders' = [orders EXCEPT ![id].status = "Filled"]
    /\ reports' = [reports EXCEPT ![id] = @ + 1]
    /\ update_position(order.instrument, Signed(order.side, quantity), price)

update_order_status(id) ==
    \/ \E status \in {"Pending", "PartiallyFilled", "Cancelled", "Rejected"} : NoteStatus(id, status)
    \/ \E quantity \in OrderSizes, price \in FillPrices :
         quantity <= orders[id].quantity /\ NoteFilled(id, quantity, price)

reset_daily_pnl ==
    /\ daily_pnl' = 0
    /\ UNCHANGED <<orders, position, performance, cash, reports, skewed>>

OmsNext ==
    \/ \E k \in Instruments, side \in {"Buy", "Sell"}, quantity \in OrderSizes : submit_order(k, side, quantity)
    \/ \E id \in DOMAIN orders : cancel_order(id) \/ update_order_status(id)
    \/ reset_daily_pnl

-----------------------------------------------------------------------------
(* What holds of it.                                                       *)

OmsTypeOK ==
    /\ Len(orders) <= MaxOrders /\ DOMAIN reports = DOMAIN orders
    /\ \A id \in DOMAIN orders :
         /\ orders[id].instrument \in Instruments
         /\ orders[id].status \in {"New", "Pending", "PartiallyFilled", "Filled", "Cancelled", "Rejected"}
    /\ \A k \in Instruments : position[k] \in [quantity : Int, cost : Nat, realized : Int]
    /\ performance.wins + performance.losses <= performance.trades

\* The books balance: what an instrument has earned is what its fills brought in
\* and what is still in the position, and the total is what the metrics report,
\* for every sequence of fills that opens, adds to and reverses positions or closes
\* shorts.  Reducing a position, or closing a long, is taken for adding to it, and
\* nothing balances after that.
LedgerBalances ==
    /\ \A k \in Instruments \ skewed :
         position[k].realized = cash[k] + Signum(position[k].quantity) * position[k].cost
    /\ performance.pnl = TotalOf(Instruments, [k \in Instruments |-> position[k].realized])

=============================================================================
