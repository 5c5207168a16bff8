---------------------------- MODULE FeedMessages ----------------------------
(***************************************************************************)
(* What becomes of an exchange's messages: process_<exchange>_message of   *)
(* feeder/src/crypto/feed, run by the task that reads the WebSocket, the   *)
(* order book builders of Bybit, Coinbase and Deribit behind their         *)
(* channels, and the buffers TRADES and ORDERBOOKS.  The senders are       *)
(* initialized before the feeds start, as feeder_direct does.              *)
(*                                                                         *)
(* A book is a function from Levels (a side with a price) to quantities, 0 *)
(* for a level that is not there; that builders sort is left out.  The     *)
(* exchange is external: its book changes, it sends a snapshot to a new    *)
(* subscriber and each change, or the whole book, after that.              *)
(***************************************************************************)
EXTENDS Naturals, Sequences, SequencesExt

CONSTANTS
    MsgExchanges,      \* the exchanges considered
    Levels, Quantities,
    ChannelCapacity,   \* mpsc::channel(1000) of spawn_orderbook_builder
    BufferCapacity,    \* MAX_TRADES, MAX_ORDERBOOKS
    MaxChanges, MaxTrades, MaxReconnects,  \* bounds on what the exchange does,
    MaxWire                                \*   and on what is under way

\* A level of quantity 0 is none.
ASSUME MessagesAssumption ==
    /\ Levels /= {} /\ Quantities \subseteq Nat /\ 0 \in Quantities
    /\ ChannelCapacity \in Nat /\ BufferCapacity \in Nat \ {0}
    /\ MsgExchanges \subseteq {"binance", "bybit", "okx", "upbit", "coinbase", "bithumb", "deribit"}

VARIABLES
    msgOf,      \* the exchange
    venue,      \* external: its book
    wire,       \* external: messages on the connection
    chan,       \* the channel to the builder
    book,       \* the builder's orderbook
    buffers,    \* TRADES and ORDERBOOKS
    sent,       \* history: what was handed to the UDP sender
    trades, changes, reconnects,   \* counters of the exchange
    lost,       \* history: try_send has failed since the last snapshot it passed on
    mirrored    \* history: the exchange's book after the last update the builder took,
                \*   NoBook if one before it was lost

mvars == <<msgOf, venue, wire, chan, book, buffers, sent, trades, changes, reconnects, lost, mirrored>>

NoBook == [l \in {} |-> 0]
NoEntry == [type |-> "none"]
Empty == [l \in Levels |-> 0]
Deltas == {"bybit", "coinbase", "deribit"}

-----------------------------------------------------------------------------
(* Circular buffers and publication.                                       *)

\* Mutant: one more than the capacity is kept.
PushOneMore(buf, item) == Append(IF Len(buf) > BufferCapacity THEN Tail(buf) ELSE buf, item)

push(buf, item) == Append(IF Len(buf) >= BufferCapacity THEN Tail(buf) ELSE buf, item)

PublishTrades(items) ==
    /\ buffers' = [buffers EXCEPT !.trades = FoldLeft(push, @, items)]
    /\ sent' = [sent EXCEPT !.trades = @ \o items]

publish_orderbook(b) ==
    /\ buffers' = [buffers EXCEPT !.books = push(@, b)]
    /\ sent' = [sent EXCEPT !.books = Append(@, b)]

-----------------------------------------------------------------------------
(* A message m of each exchange: the trades it publishes, the book it      *)
(* publishes at once, the update it gives to the builder.                  *)

Nothing == [trades |-> <<>>, book |-> NoBook, update |-> NoEntry]
TradeOf(m) == [Nothing EXCEPT !.trades = <<m.id>>]
BookOf(m) == [Nothing EXCEPT !.book = m.after]
UpdateOf(m, type) ==
    [Nothing EXCEPT !.update = [type |-> type, levels |-> m.levels,
                                after |-> IF lost /\ m.type /= "snapshot" THEN NoBook ELSE m.after]]

\* Bybit: the type is read from inside "data", the exchange puts it beside it.
process_bybit_trade(m) == TradeOf(m)
process_bybit_message(m) ==
    CASE m.kind = "trade" -> process_bybit_trade(m)
      [] m.kind = "book" -> UpdateOf(m, "unknown")
      [] OTHER -> Nothing

process_coinbase_trades(m) == TradeOf(m)
process_coinbase_l2(m) == UpdateOf(m, m.type)
process_coinbase_message(m) ==
    CASE m.kind = "trade" -> process_coinbase_trades(m)
      [] m.kind = "book" -> process_coinbase_l2(m)
      [] OTHER -> Nothing

\* Deribit: a ticker, ten a second, is published as a trade at the last price;
\* a snapshot is handled like a change.
process_deribit_message(m) ==
    CASE m.kind \in {"trade", "ticker"} -> TradeOf(m)
      [] m.kind = "book" -> UpdateOf(m, "change")

\* The whole book in every message; Upbit and Bithumb skip unmapped symbols.
process_okx_message(m) ==
    CASE m.kind = "trade" -> TradeOf(m) [] m.kind = "book" -> BookOf(m) [] OTHER -> Nothing
process_upbit_message(m) ==
    CASE m.kind = "trade" /\ m.mapped -> TradeOf(m) [] m.kind = "book" -> BookOf(m) [] OTHER -> Nothing
process_bithumb_message(m) ==
    CASE m.kind = "trade" /\ m.mapped -> TradeOf(m) [] m.kind = "book" -> BookOf(m) [] OTHER -> Nothing

\* Binance: the order book events are those that BinanceSync lets through.
process_binance_trade(m) == IF m.mapped THEN TradeOf(m) ELSE Nothing
process_binance_orderbook_data(m) == BookOf(m)
process_binance_message(m) ==
    CASE m.kind = "trade" -> process_binance_trade(m)
      [] m.kind = "book" -> process_binance_orderbook_data(m)
      [] OTHER -> Nothing

ProcessMessage(m) ==
    CASE msgOf = "bybit" -> process_bybit_message(m)
      [] msgOf = "coinbase" -> process_coinbase_message(m)
      [] msgOf = "deribit" -> process_deribit_message(m)
      [] msgOf = "okx" -> process_okx_message(m)
      [] msgOf = "upbit" -> process_upbit_message(m)
      [] msgOf = "bithumb" -> process_bithumb_message(m)
      [] msgOf = "binance" -> process_binance_message(m)

-----------------------------------------------------------------------------
(* The builders: the book after update u, NoBook while there is none.      *)

\* Mutant: a level of quantity 0 is not taken out of the book.
UpsertOnly(b, levels) ==
    [l \in Levels |-> IF l \in DOMAIN levels /\ levels[l] > 0 THEN levels[l] ELSE b[l]]

Upsert(b, levels) == [l \in Levels |-> IF l \in DOMAIN levels THEN levels[l] ELSE b[l]]

bybit_process_update(b, u) ==
    CASE u.type = "snapshot" -> Upsert(Empty, u.levels)
      [] u.type = "delta" /\ b /= NoBook -> Upsert(b, u.levels)
      [] OTHER -> b

coinbase_process_update(b, u) ==
    CASE u.type = "snapshot" -> Upsert(Empty, u.levels)
      [] u.type = "update" /\ b /= NoBook -> Upsert(b, u.levels)
      [] OTHER -> b

\* No snapshot: levels are added to what is there.
deribit_process_update(b, u) == Upsert(IF b = NoBook THEN Empty ELSE b, u.levels)

process_update(b, u) ==
    CASE msgOf = "bybit" -> bybit_process_update(b, u)
      [] msgOf = "coinbase" -> coinbase_process_update(b, u)
      [] msgOf = "deribit" -> deribit_process_update(b, u)

\* Mutant: only snapshots are published.
PublishesSnapshots(b, u) == u.type = "snapshot"

\* Updates that process_update publishes.
Publishes(b, u) == u.type = "snapshot" \/ (u.type /= "unknown" /\ process_update(b, u) /= NoBook)

-----------------------------------------------------------------------------
SnapshotOf(b) ==
    [kind |-> "book", type |-> "snapshot", levels |-> [l \in {k \in Levels : b[k] > 0} |-> b[l]], after |-> b]
ChangeOf(l, b) ==
    IF msgOf \in Deltas
      THEN [kind |-> "book", type |-> "update", levels |-> [k \in {l} |-> b[k]], after |-> b]
      ELSE SnapshotOf(b)

MsgInit ==
    /\ msgOf \in MsgExchanges
    /\ venue \in [Levels -> Quantities]
    /\ wire = <<SnapshotOf(venue)>>
    /\ chan = <<>> /\ book = NoBook
    /\ buffers = [trades |-> <<>>, books |-> <<>>]
    /\ sent = buffers
    /\ trades = 0 /\ changes = 0 /\ reconnects = 0
    /\ lost = FALSE /\ mirrored = Empty

\* The exchange: a level changes; a trade, whose symbol may have no mapping; a
\* ticker; the connection breaks and the subscription is made again.
Change(l, q) ==
    /\ changes < MaxChanges /\ Len(wire) < MaxWire
    /\ venue[l] /= q
    /\ venue' = [venue EXCEPT ![l] = q]
    /\ wire' = Append(wire, ChangeOf(l, venue'))
    /\ changes' = changes + 1
    /\ UNCHANGED <<msgOf, chan, book, buffers, sent, trades, reconnects, lost, mirrored>>

Trade(mapped) ==
    /\ trades < MaxTrades /\ Len(wire) < MaxWire
    /\ trades' = trades + 1
    /\ wire' = Append(wire, [kind |-> "trade", id |-> trades', mapped |-> mapped])
    /\ UNCHANGED <<msgOf, venue, chan, book, buffers, sent, changes, reconnects, lost, mirrored>>

Ticker ==
    /\ msgOf = "deribit" /\ trades < MaxTrades /\ Len(wire) < MaxWire
    /\ trades' = trades + 1
    /\ wire' = Append(wire, [kind |-> "ticker", id |-> 0])
    /\ UNCHANGED <<msgOf, venue, chan, book, buffers, sent, changes, reconnects, lost, mirrored>>

Reconnect(l, q) ==
    /\ reconnects < MaxReconnects
    /\ venue' = [venue EXCEPT ![l] = q]
    /\ wire' = <<SnapshotOf(venue')>>
    /\ reconnects' = reconnects + 1
    /\ UNCHANGED <<msgOf, chan, book, buffers, sent, trades, changes, lost, mirrored>>

\* The task of the stream takes a message; a full channel drops its update.
Process ==
    /\ wire /= <<>>
    /\ wire' = Tail(wire)
    /\ LET m == Head(wire)
           e == ProcessMessage(m) IN
         /\ IF e.book /= NoBook THEN publish_orderbook(e.book) ELSE PublishTrades(e.trades)
         /\ IF e.update = NoEntry THEN UNCHANGED <<chan, lost>>
            ELSE IF Len(chan) < ChannelCapacity
            THEN chan' = Append(chan, e.update) /\ lost' = (lost /\ m.type /= "snapshot")
            ELSE chan' = chan /\ lost' = TRUE
    /\ UNCHANGED <<msgOf, venue, book, trades, changes, reconnects, mirrored>>

\* The builder's task takes an update.
Build ==
    /\ chan /= <<>>
    /\ chan' = Tail(chan)
    /\ LET u == Head(chan) IN
         /\ book' = process_update(book, u)
         /\ mirrored' = u.after
         /\ IF Publishes(book, u) THEN publish_orderbook(book') ELSE UNCHANGED <<buffers, sent>>
    /\ UNCHANGED <<msgOf, venue, wire, trades, changes, reconnects, lost>>

MsgNext ==
    \/ \E l \in Levels, q \in Quantities : Change(l, q) \/ Reconnect(l, q)
    \/ \E mapped \in BOOLEAN : Trade(mapped)
    \/ Ticker \/ Process \/ Build

-----------------------------------------------------------------------------
(* What holds of it.                                                       *)

IsBook(b) == b = NoBook \/ b \in [Levels -> Quantities]

MsgTypeOK ==
    /\ msgOf \in MsgExchanges
    /\ venue \in [Levels -> Quantities]
    /\ Len(chan) <= ChannelCapacity
    /\ IsBook(book) /\ IsBook(mirrored)
    /\ Len(buffers.trades) <= BufferCapacity /\ Len(buffers.books) <= BufferCapacity
    /\ lost \in BOOLEAN

\* The builder's book is the exchange's as it was after the last update taken,
\* through any number of reconnections, unless a full channel dropped one since
\* the last snapshot.  For Deribit only up to the first reconnection, after which
\* levels that went away meanwhile stay; for Bybit there is none.
BooksMirror ==
    /\ (msgOf = "coinbase" /\ book /= NoBook /\ mirrored /= NoBook) => book = mirrored
    /\ (msgOf = "deribit" /\ book /= NoBook /\ mirrored /= NoBook /\ reconnects = 0) => book = mirrored
    /\ msgOf = "bybit" => book = NoBook /\ sent.books = <<>>

\* When the exchange rests, its last book is the one published last.
CatchesUp ==
    (msgOf /= "bybit" /\ reconnects = 0) ~>
      (\/ lost \/ reconnects > 0 \/ wire /= <<>> \/ chan /= <<>>
       \/ sent.books /= <<>> /\ Last(sent.books) = venue)

=============================================================================
