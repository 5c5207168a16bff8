---------------------------- MODULE MarketStorage ----------------------------
(***************************************************************************)
(* Where market data and log entries would be stored, in                   *)
(* feeder/src/connect_to_databse: the kdb+ client (kdbplus.rs), the router *)
(* (data_router.rs), the receivers of the database side (udp_receiver.rs)  *)
(* and the log writer (log_writer.rs).  The QuestDB client that the last   *)
(* three hold stores none of it: the calls that would are commented out.   *)
(*                                                                         *)
(* kdb+ is external: it executes a statement or refuses it, its answer may *)
(* have a body, and the connection may break at any moment.  A trade or an *)
(* order book is its number.                                               *)
(***************************************************************************)
EXTENDS Naturals, Sequences, FiniteSets, SequencesExt

CONSTANTS
    KdbBatch,          \* batch_size of KdbConfig: 1000
    MaxStored,         \* bound: trades and order books inserted
    LogBatch,          \* entries of a batch of QuestDBLogWriter: 100
    MaxRouted          \* bound: data routed, datagrams received, entries logged

ASSUME StorageAssumption == LogBatch \in Nat \ {0} /\ {MaxStored, MaxRouted} \subseteq Nat

-----------------------------------------------------------------------------
(* KdbClient.                                                              *)

VARIABLES
    kdb,        \* connection: "absent" (no client), "open" or, unnoticed, "broken"
    unread,     \* bytes of an answer were left on the connection
    kdb_buffer, \* buffer and orderbook_buffer
    kdb_step,   \* what an operation of several statements does next
    tables,     \* external: what kdb+ has executed, as a set
    final,      \* history: the same when the connection broke
    insertions  \* history: trades and order books handed to the client

dvars == <<kdb, unread, kdb_buffer, kdb_step, tables, final, insertions>>

KdbTables == {"trades", "orderbooks"}

KdbInit ==
    /\ kdb = "absent" /\ unread = FALSE
    /\ kdb_buffer = [t \in KdbTables |-> <<>>] /\ tables = [t \in KdbTables |-> {}] /\ final = tables
    /\ kdb_step = "idle"
    /\ insertions = 0

\* execute_query: eight bytes of the answer are read and its first one is compared.
\* What was left unread answers the next statement.  After an error the connection
\* stays what it was, so that it is never made again.
execute_query(taken, ok) ==
    \/ /\ kdb = "open" /\ kdb' = "open"
       /\ ~unread => ok = taken
       /\ unread' \in {unread, TRUE}
    \/ kdb = "open" /\ kdb' = "broken" /\ ~ok /\ unread' = unread
    \/ kdb = "broken" /\ ~taken /\ ~ok /\ UNCHANGED <<kdb, unread>>

\* Mutant: the buffer is emptied whatever becomes of its statement.
FlushForgets(t, waiting, ok) ==
    \E taken \in BOOLEAN :
      /\ execute_query(taken, ok)
      /\ tables' = IF taken THEN [tables EXCEPT ![t] = @ \cup ToSet(waiting)] ELSE tables
      /\ kdb_buffer' = [kdb_buffer EXCEPT ![t] = <<>>]

\* flush_trades or flush_orderbooks, with what waits in the buffer.
flush_table(t, waiting, ok) ==
    \E taken \in BOOLEAN :
      /\ execute_query(taken, ok)
      /\ tables' = IF taken THEN [tables EXCEPT ![t] = @ \cup ToSet(waiting)] ELSE tables
      /\ kdb_buffer' = [kdb_buffer EXCEPT ![t] = IF ok THEN <<>> ELSE waiting]

\* new connects; init_kdb_client goes on with create_tables.
KdbNew ==
    /\ kdb = "absent"
    /\ kdb' = "open" /\ kdb_step' \in {"idle", "create trades"}
    /\ UNCHANGED <<unread, kdb_buffer, tables, insertions>>

\* An error drops the client.
create_tables ==
    /\ kdb_step \in {"create trades", "create orderbooks"}
    /\ \E taken, ok \in BOOLEAN :
         \/ /\ ok /\ execute_query(taken, ok)
            /\ kdb_step' = IF kdb_step = "create trades" THEN "create orderbooks" ELSE "idle"
         \/ ~ok /\ kdb' = "absent" /\ unread' = FALSE /\ kdb_step' = "idle"
    /\ UNCHANGED <<kdb_buffer, tables, insertions>>

\* insert_trade and insert_orderbook, behind write_trade and write_orderbook.
KdbInsert(t) ==
    /\ kdb /= "absent" /\ kdb_step = "idle" /\ insertions < MaxStored
    /\ insertions' = insertions + 1
    /\ LET waiting == Append(kdb_buffer[t], insertions') IN
         IF Len(waiting) >= KdbBatch THEN \E ok \in BOOLEAN : flush_table(t, waiting, ok)
         ELSE kdb_buffer' = [kdb_buffer EXCEPT ![t] = waiting] /\ UNCHANGED <<kdb, unread, tables>>
    /\ UNCHANGED kdb_step

\* An error of the trades' flush keeps the order books from theirs.
KdbFlush ==
    /\ kdb /= "absent"
    /\ \E t \in KdbTables :
         /\ kdb_step = (IF t = "trades" THEN "idle" ELSE "flush orderbooks")
         /\ \E ok \in BOOLEAN :
              /\ IF kdb_buffer[t] = <<>> THEN ok /\ UNCHANGED <<kdb, unread, kdb_buffer, tables>>
                 ELSE flush_table(t, kdb_buffer[t], ok)
              /\ kdb_step' = IF t = "trades" /\ ok THEN "flush orderbooks" ELSE "idle"
    /\ UNCHANGED insertions

\* query reads to the end of the stream, after execute_query read the header: it
\* returns when kdb+ has closed the connection.
KdbQuery ==
    /\ kdb = "open" /\ kdb_step = "idle"
    /\ kdb' = "broken"
    /\ UNCHANGED <<unread, kdb_buffer, kdb_step, tables, insertions>>

KdbNext ==
    /\ \/ KdbNew \/ create_tables \/ KdbFlush \/ KdbQuery
       \/ \E t \in KdbTables : KdbInsert(t)
    /\ final' = IF kdb' = "broken" /\ kdb /= "broken" THEN tables' ELSE final

KdbTypeOK ==
    /\ kdb \in {"absent", "open", "broken"} /\ unread \in BOOLEAN
    /\ kdb_step \in {"idle", "create trades", "create orderbooks", "flush orderbooks"}
    /\ insertions \in 0 .. MaxStored
    /\ \A t \in KdbTables : ToSet(kdb_buffer[t]) \cup tables[t] \subseteq 1 .. insertions

\* Whatever statements fail, or lose their answers, what was inserted is in its buffer
\* or with kdb+, as long as no answer left bytes behind that answer the next
\* statement.  A connection that broke once is used for ever: kdb+ gets nothing after
\* that, and the buffers only grow.
KdbKeeps ==
    /\ ~unread => UNION {ToSet(kdb_buffer[t]) \cup tables[t] : t \in KdbTables} = 1 .. insertions
    /\ kdb = "broken" => tables = final

-----------------------------------------------------------------------------
(* CryptoDataFlow and StockDataFlow in front of one DataRouter.            *)

VARIABLES
    flow_config,    \* the configuration of the two flows and of the router
    routing_stats,  \* RoutingStats, per flow and kind
    duplicates,     \* duplicates_filtered
    processed       \* history: how much was handed to each flow

xvars == <<flow_config, routing_stats, duplicates, processed>>

Flows == {"crypto", "stock"}
Destinations == {"QuestDB", "KdbPlus"}

\* All that a flow looks at: exchange and symbol, asset type, kind.
MarketData == [exchange : {"a", "b"}, symbol : {"x", "y"}, asset : {"spot", "futures", "etf"},
               kind : {"trade", "orderbook", "other"}]

\* An empty set of the configuration stands for an empty list.
RouterInit ==
    /\ flow_config \in [symbols : {{}, {"x"}}, exchanges : {{}, {"a"}}, enable_all_symbols : BOOLEAN,
                        derivatives : BOOLEAN, etf : BOOLEAN, asset_types : {{}, {"spot", "etf"}},
                        trade : Destinations, orderbook : Destinations, metadata : Destinations]
    /\ routing_stats = [f \in Flows |-> [trade |-> 0, orderbook |-> 0, metadata |-> 0]]
    /\ duplicates = 0
    /\ processed = [f \in Flows |-> 0]

Handed == processed["crypto"] + processed["stock"]
HandToFlow(f) == Handed < MaxRouted /\ processed' = [processed EXCEPT ![f] = @ + 1]

ListsOrEmpty(list, x) == list = {} \/ x \in list

\* The two flows treat an empty list of symbols differently.
CryptoTakes(d) ==
    /\ flow_config.enable_all_symbols \/ d.symbol \in flow_config.symbols
    /\ ListsOrEmpty(flow_config.exchanges, d.exchange)

StockTakes(d) ==
    /\ ListsOrEmpty(flow_config.symbols, d.symbol)
    /\ ListsOrEmpty(flow_config.exchanges, d.exchange)
    /\ d.kind /= "other"
    /\ flow_config.derivatives \/ d.asset /= "futures"
    /\ flow_config.etf \/ d.asset /= "etf"
    /\ ListsOrEmpty(flow_config.asset_types, d.asset)

\* route_market_data counts what a client would have stored.  enable_deduplication
\* and batch_size are read by nothing.
route_market_data(f, d) ==
    routing_stats' =
      IF d.kind \in {"trade", "orderbook"} /\ flow_config[d.kind] = "QuestDB"
        THEN [routing_stats EXCEPT ![f][d.kind] = @ + 1]
        ELSE routing_stats

ProcessData(f, d) ==
    /\ HandToFlow(f)
    /\ IF (f = "crypto" /\ CryptoTakes(d)) \/ (f = "stock" /\ StockTakes(d))
         THEN route_market_data(f, d)
         ELSE routing_stats' = routing_stats
    /\ UNCHANGED <<flow_config, duplicates>>

\* write_metadata of the QuestDB client does nothing and cannot fail.
route_metadata(f) ==
    /\ HandToFlow(f)
    /\ routing_stats' = IF flow_config.metadata = "QuestDB" THEN [routing_stats EXCEPT ![f].metadata = @ + 1]
                        ELSE routing_stats
    /\ UNCHANGED <<flow_config, duplicates>>

reset_stats ==
    /\ routing_stats' = [f \in Flows |-> [trade |-> 0, orderbook |-> 0, metadata |-> 0]]
    /\ UNCHANGED <<flow_config, duplicates, processed>>

RouterNext ==
    \/ reset_stats
    \/ \E f \in Flows : route_metadata(f) \/ \E d \in MarketData : ProcessData(f, d)

\* A flow never counts more than it was handed, nor what is not for QuestDB, and no
\* duplicate is ever filtered.
RouterTypeOK ==
    /\ Handed <= MaxRouted /\ duplicates = 0
    /\ \A f \in Flows :
         /\ routing_stats[f].trade + routing_stats[f].orderbook + routing_stats[f].metadata <= processed[f]
         /\ \A k \in {"trade", "orderbook", "metadata"} : flow_config[k] = "KdbPlus" => routing_stats[f][k] = 0

-----------------------------------------------------------------------------
(* DatabaseUDPReceiver: six tasks, each with a socket of its own.          *)

VARIABLES
    receivers,         \* per task: "absent", "bound" or "stopped"
    receiver_start,    \* start: "not called", "waiting" or "returned"
    received,          \* ReceiverStats, per task; errors is never counted
    datagrams          \* history: per task, the datagrams it took

wvars == <<receivers, receiver_start, received, datagrams>>

DataKinds == {"trade", "orderbook", "metadata"}
Receivers == Flows \X DataKinds

DatabaseInit ==
    /\ receivers = [r \in Receivers |-> "absent"] /\ receiver_start = "not called"
    /\ received = [r \in Receivers |-> 0] /\ datagrams = received

\* A task ends when its socket cannot be bound or cannot join its group.
StartReceivers ==
    /\ receiver_start = "not called" /\ receiver_start' = "waiting"
    /\ \E bound \in SUBSET Receivers :
         receivers' = [r \in Receivers |-> IF r \in bound THEN "bound" ELSE "stopped"]
    /\ UNCHANGED <<received, datagrams>>

\* The select of start returns with the first task that ends; the others, detached,
\* go on.
StartReturns ==
    /\ receiver_start = "waiting" /\ \E r \in Receivers : receivers[r] = "stopped"
    /\ receiver_start' = "returned"
    /\ UNCHANGED <<receivers, received, datagrams>>

\* One that does not parse is dropped in silence, metadata is taken as it is.
receive(r, parses) ==
    /\ receivers[r] = "bound" /\ FoldFunction(+, 0, datagrams) < MaxRouted
    /\ datagrams' = [datagrams EXCEPT ![r] = @ + 1]
    /\ received' = IF parses \/ r[2] = "metadata" THEN [received EXCEPT ![r] = @ + 1] ELSE received
    /\ UNCHANGED <<receivers, receiver_start>>

DatabaseNext ==
    \/ StartReceivers \/ StartReturns
    \/ \E r \in Receivers, parses \in BOOLEAN : receive(r, parses)

DatabaseTypeOK ==
    \A r \in Receivers :
      /\ receivers[r] \in {"absent", "bound", "stopped"}
      /\ received[r] \in 0 .. datagrams[r] /\ (r[2] = "metadata" => received[r] = datagrams[r])
      /\ receiver_start = "waiting" => receivers[r] /= "absent"

-----------------------------------------------------------------------------
(* LogAggregator in front of QuestDBLogWriter.                             *)

VARIABLES
    log_queue, log_batch,   \* the channel, what its task has taken
    writer_dropped,
    metrics,                \* current_metrics: a function on the exchanges that have some
    logs_sent,              \* history: the entries given to send_batch, which sends none
    logged                  \* history: the entries written

gvars == <<log_queue, log_batch, writer_dropped, metrics, logs_sent, logged>>

LogVenues == {"a", "b"}
LatencyUnit == 8    \* a latency that can be halved as often as there are entries

WriterInit ==
    /\ log_queue = <<>> /\ log_batch = <<>> /\ logs_sent = <<>> /\ logged = 0
    /\ writer_dropped = FALSE
    /\ metrics = [v \in {} |-> 0]

\* The average starts at 0, so that the first latency is halved like any other.
Measured(old, level, latency, gone) ==
    [old EXCEPT !.error_count = IF level = "ERROR" THEN @ + 1 ELSE @,
                !.warn_count = IF level = "WARN" THEN @ + 1 ELSE @,
                !.avg_latency_ms = IF latency = "none" THEN @ ELSE (@ + LatencyUnit) \div 2,
                !.connection_drops = IF gone THEN @ + 1 ELSE @]

NoMetrics == [error_count |-> 0, warn_count |-> 0, avg_latency_ms |-> 0, connection_drops |-> 0]

\* An entry without an exchange is written and not counted.
process_log(v, level, latency, gone) ==
    /\ ~writer_dropped /\ logged < MaxRouted
    /\ logged' = logged + 1 /\ log_queue' = Append(log_queue, logged')
    /\ metrics' = IF v = "none" THEN metrics
                  ELSE [x \in DOMAIN metrics \cup {v} |->
                         LET old == IF x \in DOMAIN metrics THEN metrics[x] ELSE NoMetrics IN
                           IF x = v THEN Measured(old, level, latency, gone) ELSE old]
    /\ UNCHANGED <<log_batch, writer_dropped, logs_sent>>

\* write_metrics sends nothing.
flush_metrics ==
    /\ ~writer_dropped /\ metrics' = [v \in {} |-> 0]
    /\ UNCHANGED <<log_queue, log_batch, writer_dropped, logs_sent, logged>>

\* Mutant: the entry that fills a batch is not sent with it.
TakeLogAndForget ==
    /\ log_queue /= <<>> /\ log_queue' = Tail(log_queue)
    /\ IF Len(log_batch) + 1 >= LogBatch THEN log_batch' = <<>> /\ logs_sent' = logs_sent \o log_batch
       ELSE log_batch' = Append(log_batch, Head(log_queue)) /\ logs_sent' = logs_sent
    /\ UNCHANGED <<writer_dropped, metrics, logged>>

TakeLog ==
    /\ log_queue /= <<>> /\ log_queue' = Tail(log_queue)
    /\ LET filling == Append(log_batch, Head(log_queue)) IN
         IF Len(filling) >= LogBatch THEN log_batch' = <<>> /\ logs_sent' = logs_sent \o filling
         ELSE log_batch' = filling /\ logs_sent' = logs_sent
    /\ UNCHANGED <<writer_dropped, metrics, logged>>

\* The task has no way out: it ticks on when the writer is gone.
LogTick ==
    /\ logs_sent' = logs_sent \o log_batch /\ log_batch' = <<>>
    /\ UNCHANGED <<log_queue, writer_dropped, metrics, logged>>

DropWriter ==
    /\ ~writer_dropped /\ writer_dropped' = TRUE
    /\ metrics' = [v \in {} |-> 0]
    /\ UNCHANGED <<log_queue, log_batch, logs_sent, logged>>

WriterNext ==
    \/ flush_metrics \/ TakeLog \/ LogTick \/ DropWriter
    \/ \E v \in LogVenues \cup {"none"}, level \in {"ERROR", "WARN", "INFO"}, gone \in BOOLEAN,
          latency \in {"none", "given"} : process_log(v, level, latency, gone)

WriterTypeOK ==
    /\ Len(log_batch) < LogBatch
    /\ \A v \in DOMAIN metrics :
         /\ metrics[v].error_count + metrics[v].warn_count <= logged
         /\ metrics[v].avg_latency_ms < LatencyUnit

\* No entry is passed over, given twice or overtaken on its way to send_batch, also
\* when the writer is dropped before the next tick.
LogsInOrder == logs_sent \o log_batch \o log_queue = [i \in 1 .. logged |-> i]

=============================================================================
