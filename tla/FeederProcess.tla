---------------------------- MODULE FeederProcess ----------------------------
(***************************************************************************)
(* The two feeder processes, bin/feeder_direct.rs and                      *)
(* bin/feeder_buffered.rs: what each sets up, in which order, and which of *)
(* the process's globals (OnceCells, filled once and then read without a   *)
(* lock) a feed finds when it publishes.                                   *)
(*                                                                         *)
(* A set-up step may fail: some failures end the process, some are logged. *)
(* A feed is a task that runs from its spawn on, beside the set-up; its    *)
(* rounds are the subject of ExchangeFeed, what it publishes of            *)
(* FeedMessages.  Here only the way out of a message matters.              *)
(***************************************************************************)
EXTENDS Naturals, Sequences, FiniteSets, SequencesExt

CONSTANTS
    Binaries,          \* "feeder_direct", "feeder_buffered"
    Selected,          \* the exchanges of crypto_exchanges.json or of EXCHANGES
    MaxRounds          \* bound: rounds of a feed

VARIABLES
    binary,
    setup,      \* the set-up steps left
    life,     \* "starting", "running", "stopping", "failed", "stopped"
    globals,    \* the OnceCells that are filled
    subscriber, \* the global tracing subscriber
    registered, \* exchanges whose symbols the HFT processor knows
    feeds,      \* per exchange: "none", "idle" or "reading"
    holds,      \* per exchange: its own multi_port_sender is set
    rounds,     \* per exchange: starts so far
    routes      \* history: exchange, what it published and where that went

hvars == <<binary, setup, life, globals, subscriber, registered, feeds, holds, rounds, routes>>

Chosen == SetToSeq(Selected)

-----------------------------------------------------------------------------
(* The steps of run_feeder_direct and run_feeder_buffered.                 *)

\* Mutant: the feeds are spawned before the senders of the ports are there.
FeedsFirst ==
    <<"log_file", "exchanges", "binary_udp", "init_hft", "start_hft", "symbol_mapper", "questdb">>
      \o Chosen \o <<"any_feed", "multi_port", "monitor">>

run_feeder_direct ==
    <<"log_file", "exchanges", "binary_udp", "multi_port", "init_hft", "start_hft", "symbol_mapper", "questdb">>
      \o Chosen \o <<"any_feed", "monitor">>

run_feeder_buffered ==
    <<"log_file", "exchanges", "symbol_mapper", "questdb">> \o Chosen \o <<"any_feed", "ordered_udp", "monitor">>

Program(b) == IF b = "feeder_direct" THEN run_feeder_direct ELSE run_feeder_buffered

\* Their failure ends the process with an error.
Fatal == {"log_file", "exchanges", "binary_udp", "multi_port", "symbol_mapper", "any_feed", "ordered_udp"}

\* The senders and processors behind a OnceCell.
Global == {"binary_udp", "multi_port", "ordered_udp", "init_hft", "start_hft"}

\* The set-up has other steps than the exchanges, which a configuration file names.
ASSUME ProcessAssumption ==
    /\ Binaries \subseteq {"feeder_direct", "feeder_buffered"}
    /\ MaxRounds \in Nat
    /\ IsFiniteSet(Selected) /\ Selected \cap (Fatal \cup Global \cup {"monitor", "questdb"}) = {}

ProcessInit ==
    /\ binary \in Binaries
    /\ setup = Program(binary)
    /\ life = "starting"
    /\ globals = {} /\ subscriber = "none" /\ registered = {}
    /\ feeds = [e \in Selected |-> "none"]
    /\ holds = [e \in Selected |-> FALSE]
    /\ rounds = [e \in Selected |-> 0]
    /\ routes = {}

Step(s) == life = "starting" /\ setup /= <<>> /\ Head(setup) = s /\ setup' = Tail(setup)

-----------------------------------------------------------------------------
(* Set-up.                                                                 *)

\* A sender is made, or the HFT processor is made, or its thread is started.
FillGlobal(s) ==
    /\ Step(s) /\ s \in Global
    /\ globals' = globals \cup {s}
    /\ UNCHANGED <<binary, life, subscriber, registered, feeds, holds, rounds, routes>>

\* FileLogger::init and, once QuestDB answers, init_with_questdb: try_init takes
\* the first subscriber, and its error is dropped.
InitLogger(s, kind) ==
    /\ Step(s)
    /\ subscriber' = IF subscriber = "none" THEN kind ELSE subscriber
    /\ UNCHANGED <<binary, life, globals, registered, feeds, holds, rounds, routes>>

init == InitLogger("log_file", "file")
init_with_questdb == InitLogger("questdb", "file and QuestDB")

\* The feed of an exchange is spawned; only feeder_direct registers symbols, and
\* only those of Binance.
SpawnFeed(e) ==
    /\ Step(e)
    /\ feeds' = [feeds EXCEPT ![e] = "idle"]
    /\ registered' = IF e = "binance" /\ binary = "feeder_direct" /\ "init_hft" \in globals
                       THEN registered \cup {e} ELSE registered
    /\ UNCHANGED <<binary, life, globals, subscriber, holds, rounds, routes>>

\* Steps that only read files, and the end of the set-up.
Continue(s) ==
    /\ Step(s) /\ s \in {"exchanges", "symbol_mapper", "any_feed", "monitor"}
    /\ s = "any_feed" => \E e \in Selected : feeds[e] /= "none"
    /\ life' = IF setup' = <<>> THEN "running" ELSE "starting"
    /\ UNCHANGED <<binary, globals, subscriber, registered, feeds, holds, rounds, routes>>

\* A step fails.  The other failures, of QuestDB or of one configuration file, are
\* logged; with no feed at all the process ends.  With it end its tasks.
StepFails(s) ==
    /\ Step(s) /\ s \notin {"init_hft", "start_hft", "monitor"}
    /\ s = "any_feed" => \A e \in Selected : feeds[e] = "none"
    /\ IF s \in Fatal
         THEN life' = "failed" /\ feeds' = [e \in Selected |-> "none"]
         ELSE UNCHANGED <<life, feeds>>
    /\ UNCHANGED <<binary, globals, subscriber, registered, holds, rounds, routes>>

-----------------------------------------------------------------------------
(* Feeds.                                                                  *)

\* These keep a sender of their own, which ensure_sender sets when start is called.
Keepers == {"binance", "bybit", "coinbase", "deribit", "bithumb"}

start(e) ==
    /\ feeds[e] = "idle" /\ rounds[e] < MaxRounds
    /\ feeds' = [feeds EXCEPT ![e] = "reading"]
    /\ rounds' = [rounds EXCEPT ![e] = @ + 1]
    /\ holds' = [holds EXCEPT ![e] = @ \/ (e \in Keepers /\ "multi_port" \in globals)]
    /\ UNCHANGED <<binary, setup, life, globals, subscriber, registered, routes>>

RoundEnds(e) ==
    /\ feeds[e] = "reading"
    /\ feeds' = [feeds EXCEPT ![e] = "idle"]
    /\ UNCHANGED <<binary, setup, life, globals, subscriber, registered, holds, rounds, routes>>

\* The sender of a trade, or of a book.  The builders look
\* for a global at each book, like OKX and Upbit.
Own(e) == IF holds[e] THEN "multi_port" ELSE "nowhere"
Else(via, other) == IF via = "nowhere" /\ other \in globals THEN other ELSE via
Dynamic == Else("nowhere", "multi_port")

Via(e, kind) ==
    CASE e = "binance" -> Else(Own(e), "binary_udp")
      [] e = "bybit" -> Else(Own(e), "binary_udp")
      [] e \in {"coinbase", "deribit"} /\ kind = "trade" -> Own(e)
      [] e = "bithumb" -> Own(e)
      [] e = "upbit" -> Dynamic
      [] OTHER -> Else(Dynamic, "binary_udp")

PublishTo(e, kind, via) ==
    /\ routes' = routes \cup {<<e, kind, via>>}
    /\ UNCHANGED <<binary, setup, life, globals, subscriber, registered, feeds, holds, rounds>>

\* No book of Bybit gets that far (FeedMessages).
Publish(e, kind) ==
    /\ feeds[e] = "reading" /\ <<e, kind>> /= <<"bybit", "book">>
    /\ PublishTo(e, kind, Via(e, kind))

\* process_orderbook_update, called for Binance: the processor has to be there and
\* to know the symbol.
process_orderbook_update(e) ==
    /\ feeds[e] = "reading" /\ e = "binance"
    /\ PublishTo(e, "hft", IF e \in registered THEN "ring" ELSE "nowhere")

\* The connection monitor, every 5 s.
MonitorTick ==
    /\ life \in {"running", "stopping"}
    /\ PublishTo("monitor", "status",
                 Else("nowhere", IF binary = "feeder_direct" THEN "binary_udp" ELSE "ordered_udp"))

\* Ctrl+C is awaited when all is set up; 100 ms after trigger_shutdown the loops are
\* aborted, 200 ms later the process ends.
TriggerShutdown ==
    /\ life = "running" /\ life' = "stopping"
    /\ UNCHANGED <<binary, setup, globals, subscriber, registered, feeds, holds, rounds, routes>>

End ==
    /\ life = "stopping" /\ life' = "stopped"
    /\ feeds' = [e \in Selected |-> "none"]
    /\ UNCHANGED <<binary, setup, globals, subscriber, registered, holds, rounds, routes>>

ProcessNext ==
    \/ \E s \in Fatal \cup Global \cup {"monitor", "questdb"} \cup Selected :
         FillGlobal(s) \/ Continue(s) \/ StepFails(s)
    \/ init \/ init_with_questdb
    \/ \E e \in Selected :
         \/ SpawnFeed(e) \/ start(e) \/ RoundEnds(e) \/ process_orderbook_update(e)
         \/ \E kind \in {"trade", "book"} : Publish(e, kind)
    \/ MonitorTick \/ TriggerShutdown \/ End

-----------------------------------------------------------------------------
(* What holds of it.                                                       *)

ProcessTypeOK ==
    /\ binary \in Binaries
    /\ IsSuffix(setup, Program(binary))
    /\ life \in {"starting", "running", "stopping", "failed", "stopped"}
    /\ globals \subseteq Global /\ registered \subseteq Selected
    /\ feeds \in [Selected -> {"none", "idle", "reading"}]
    /\ holds \in [Selected -> BOOLEAN]
    /\ rounds \in [Selected -> 0 .. MaxRounds]

\* In feeder_direct no feed is ever ahead of the set-up: whatever it publishes goes
\* to the ports of its exchange, not to the fallback and not nowhere, and every book
\* update of Binance finds the processor with its symbols.  In feeder_buffered, which
\* fills neither of the globals that feeds publish to, nothing but the status of the
\* connections ever leaves the process.  In neither is the QuestDB log layer installed.
WaysOut ==
    /\ \A r \in routes :
         IF r[1] = "monitor" THEN r[3] /= "nowhere"
         ELSE r[3] = IF binary = "feeder_buffered" THEN "nowhere"
                     ELSE IF r[2] = "hft" THEN "ring" ELSE "multi_port"
    /\ subscriber /= "file and QuestDB"

=============================================================================
