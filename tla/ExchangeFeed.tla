---------------------------- MODULE ExchangeFeed ----------------------------
(***************************************************************************)
(* One exchange of the feeder: the loop of spawn_<exchange>_exchange       *)
(* (feeder/src/core/spawning.rs) that connects, subscribes and starts, the *)
(* tasks that start leaves behind, one per WebSocket, the entries of       *)
(* CONNECTION_STATS, and the shutdown of feeder_direct.                    *)
(*                                                                         *)
(* The seven exchanges run the same loop.  What their files do differently *)
(* is stated exchange by exchange; feedOf picks one in the initial state.  *)
(* A HashMap of streams is visited in the same order as long as its keys   *)
(* stay the same; StreamOrder is that order.                               *)
(***************************************************************************)
EXTENDS Integers, Sequences, FiniteSets, SequencesExt, Sums

CONSTANTS
    FeedExchanges,     \* the exchanges of the configuration
    AssetTypes, SpotSymbols, FuturesSymbols,   \* asset types; numbers of symbols
    MaxRetries,        \* max_retries of connect, 5 in the source
    MaxOpens           \* bound: connections that succeed in a behaviour

VARIABLES
    feedOf,     \* the exchange
    phase,      \* where its loop is
    next,       \* the stream that connect or start is at
    tries,      \* connect: failed attempts for that stream
    wsSlot,     \* ws_streams: the streams that hold an open WebSocket
    asked,      \* per stream: the symbols asked for on its WebSocket
    tasks,      \* per stream: the tasks that read it
    deaf,       \* streams whose task subscribed to a shutdown already signalled
    active,     \* active_connections
    stats,      \* CONNECTION_STATS, per asset type and kind of stream
    down        \* trigger_shutdown was called

fvars == <<feedOf, phase, next, tries, wsSlot, asked, tasks, deaf, active, stats, down>>

Kinds == {"trade", "orderbook"}
SYMBOLS_PER_CONNECTION == 10
Lesser(m, n) == IF m < n THEN m ELSE n

-----------------------------------------------------------------------------
(* The streams of an exchange: ten symbols each, per asset type and kind.  *)

Chunked(symbols) ==
    UNION {{a} \X Kinds \X (1 .. (symbols[a] + SYMBOLS_PER_CONNECTION - 1) \div SYMBOLS_PER_CONNECTION) :
           a \in AssetTypes}

ByAssetType == [a \in AssetTypes |-> IF a = "spot" THEN SpotSymbols ELSE FuturesSymbols]
SpotOnly == [a \in AssetTypes |-> SpotSymbols]

binance_new == ByAssetType
bybit_new == ByAssetType
okx_new == ByAssetType
upbit_new == SpotOnly
coinbase_new == SpotOnly
bithumb_new == SpotOnly
\* Options are emptied by spawn_deribit_exchange.
deribit_new == [a \in AssetTypes |-> FuturesSymbols]

SymbolsOf == [binance |-> binance_new, bybit |-> bybit_new, okx |-> okx_new, upbit |-> upbit_new,
              coinbase |-> coinbase_new, bithumb |-> bithumb_new, deribit |-> deribit_new]

ASSUME FeedAssumption ==
    /\ FeedExchanges \subseteq DOMAIN SymbolsOf
    /\ IsFiniteSet(AssetTypes) /\ {SpotSymbols, FuturesSymbols, MaxRetries} \subseteq Nat

Streams == Chunked(SymbolsOf[feedOf])
StreamOrder == SetToSeq(Streams)
Current == StreamOrder[next]
StatOf(s) == <<s[1], s[2]>>

\* The sum of the numbers that f gives to the streams.
OverStreams(f) == TotalOf(Streams, f)

\* chunk_symbols: the part of the symbols that stream s asks for.
Slice(n, s) ==
    ((s[3] - 1) * SYMBOLS_PER_CONNECTION + 1) .. Lesser(s[3] * SYMBOLS_PER_CONNECTION, n)

\* Binance puts the symbols into the address, the others send a request.
binance_connect_websocket(s) == Slice(ByAssetType[s[1]], s)
bybit_subscribe(s) == Slice(ByAssetType[s[1]], s)
okx_subscribe(s) == Slice(ByAssetType[s[1]], s)
upbit_subscribe(s) == Slice(SpotSymbols, s)
coinbase_subscribe(s) == Slice(SpotSymbols, s)
bithumb_subscribe(s) == Slice(SpotSymbols, s)
deribit_subscribe(s) == Slice(FuturesSymbols, s)

SubscriptionOf(e, s) ==
    CASE e = "binance" -> binance_connect_websocket(s) [] e = "bybit" -> bybit_subscribe(s)
      [] e = "okx" -> okx_subscribe(s) [] e = "upbit" -> upbit_subscribe(s)
      [] e = "coinbase" -> coinbase_subscribe(s) [] e = "bithumb" -> bithumb_subscribe(s)
      [] e = "deribit" -> deribit_subscribe(s)

-----------------------------------------------------------------------------
(* What connect does after n failures in a row, and how the task of a      *)
(* stream comes to its end: by what events, and which of them it counts.   *)

bybit_connect(n) == IF n > MaxRetries THEN "skip" ELSE "retry"
coinbase_connect(n) == IF n > MaxRetries THEN "skip" ELSE "retry"
deribit_connect(n) == IF n > MaxRetries THEN "skip" ELSE "retry"
bithumb_connect(n) == IF n > MaxRetries THEN "skip" ELSE "retry"
binance_connect(n) == "retry"
okx_connect(n) == "retry"
upbit_connect(n) == "retry"

AfterFailure(e, n) ==
    CASE e = "binance" -> binance_connect(n) [] e = "bybit" -> bybit_connect(n)
      [] e = "okx" -> okx_connect(n) [] e = "upbit" -> upbit_connect(n)
      [] e = "coinbase" -> coinbase_connect(n) [] e = "bithumb" -> bithumb_connect(n)
      [] e = "deribit" -> deribit_connect(n)

GivesUp == \E n \in 1 .. MaxRetries + 1 : AfterFailure(feedOf, n) = "skip"

Ended == {"closed", "failed", "over"}     \* Close, Err, None of ws_stream.next()
Unsent == {"ping", "pong"}                \* a send of the task's own failed

bybit_start == [ends |-> Ended \cup Unsent \cup {"health"}, counts |-> Ended]
coinbase_start == [ends |-> Ended \cup Unsent \cup {"health"}, counts |-> Ended]
deribit_start == [ends |-> Ended \cup Unsent \cup {"health"}, counts |-> Ended]
bithumb_start == [ends |-> Ended \cup Unsent \cup {"health"}, counts |-> Ended]
binance_start == [ends |-> Ended \cup Unsent, counts |-> {}]
okx_start == [ends |-> Ended \cup Unsent, counts |-> {}]
upbit_start == [ends |-> Ended \cup Unsent, counts |-> {}]

TaskOf == [binance |-> binance_start, bybit |-> bybit_start, okx |-> okx_start, upbit |-> upbit_start,
           coinbase |-> coinbase_start, bithumb |-> bithumb_start, deribit |-> deribit_start]

-----------------------------------------------------------------------------
Count(f) == FoldFunction(LAMBDA n, m : n + m, 0, f)
Opened == Count([k \in DOMAIN stats |-> stats[k].total])

FeedInit ==
    /\ feedOf \in FeedExchanges
    /\ phase = "connect" /\ next = 1 /\ tries = 0
    /\ wsSlot = {}
    /\ asked = [s \in Streams |-> {}]
    /\ tasks = [s \in Streams |-> 0]
    /\ deaf = {}
    /\ active = 0
    /\ stats = [k \in AssetTypes \X Kinds |-> [connected |-> 0, disconnected |-> 0, total |-> 0]]
    /\ down = FALSE

\* connect reaches a WebSocket: counted, kept in ws_streams over what was there.
Connect ==
    /\ phase = "connect" /\ next <= Len(StreamOrder)
    /\ Opened < MaxOpens
    /\ wsSlot' = wsSlot \cup {Current}
    /\ asked' = [asked EXCEPT ![Current] =
                   IF feedOf = "binance" THEN SubscriptionOf(feedOf, Current) ELSE {}]
    /\ stats' = [stats EXCEPT ![StatOf(Current)].connected = @ + 1, ![StatOf(Current)].total = @ + 1]
    /\ next' = next + 1
    /\ tries' = 0
    /\ UNCHANGED <<feedOf, phase, tasks, deaf, active, down>>

\* Mutant: a stream that is given up ends connect, the streams after it wait for
\* the next round.
ConnectFailsForAll ==
    /\ phase = "connect" /\ next <= Len(StreamOrder)
    /\ IF AfterFailure(feedOf, tries + 1) = "skip"
         THEN next' = Len(StreamOrder) + 1 /\ tries' = 0 /\ wsSlot' = wsSlot \ {Current}
         ELSE next' = next /\ tries' = (IF GivesUp THEN tries + 1 ELSE tries) /\ wsSlot' = wsSlot
    /\ UNCHANGED <<feedOf, phase, asked, tasks, deaf, active, stats, down>>

\* connect fails: after the delay the same stream again, or it is skipped.
ConnectFails ==
    /\ phase = "connect" /\ next <= Len(StreamOrder)
    /\ IF AfterFailure(feedOf, tries + 1) = "skip"
         THEN next' = next + 1 /\ tries' = 0 /\ wsSlot' = wsSlot \ {Current}
         ELSE next' = next /\ tries' = (IF GivesUp THEN tries + 1 ELSE tries) /\ wsSlot' = wsSlot
    /\ UNCHANGED <<feedOf, phase, asked, tasks, deaf, active, stats, down>>

\* subscribe asks on every WebSocket there is; then start counts from 0.
Subscribe ==
    /\ phase = "connect" /\ next > Len(StreamOrder)
    /\ asked' = [s \in Streams |-> IF s \in wsSlot THEN SubscriptionOf(feedOf, s) ELSE asked[s]]
    /\ active' = 0
    /\ phase' = "start" /\ next' = 1
    /\ UNCHANGED <<feedOf, tries, wsSlot, tasks, deaf, stats, down>>

\* A request cannot be sent, or the snapshots of Binance do not come in time:
\* after 5 s the loop connects again.
SubscribeFails ==
    /\ phase = "connect" /\ next > Len(StreamOrder)
    /\ wsSlot /= {}
    /\ next' = 1
    /\ UNCHANGED <<feedOf, phase, tries, wsSlot, asked, tasks, deaf, active, stats, down>>

\* start takes the next WebSocket, if there is one, and spawns its task.
Spawn ==
    /\ phase = "start" /\ next <= Len(StreamOrder)
    /\ next' = next + 1
    /\ IF Current \in wsSlot
         THEN /\ wsSlot' = wsSlot \ {Current}
              /\ tasks' = [tasks EXCEPT ![Current] = @ + 1]
              /\ active' = active + 1
              /\ deaf' = IF down THEN deaf \cup {Current} ELSE deaf \ {Current}
         ELSE UNCHANGED <<wsSlot, tasks, active, deaf>>
    /\ UNCHANGED <<feedOf, phase, tries, asked, stats, down>>

\* Mutant: start returns when all tasks are spawned.
ReturnAtOnce ==
    /\ phase = "start" /\ next > Len(StreamOrder)
    /\ phase' = "connect" /\ next' = 1
    /\ UNCHANGED <<feedOf, tries, wsSlot, asked, tasks, deaf, active, stats, down>>

\* start waits for all its tasks, then the loop connects again (after 2 s).
Return ==
    /\ phase = "start" /\ next > Len(StreamOrder)
    /\ active = 0
    /\ phase' = "connect" /\ next' = 1
    /\ UNCHANGED <<feedOf, tries, wsSlot, asked, tasks, deaf, active, stats, down>>

\* The entry of CONNECTION_STATS when a stream comes to its end.
CountLoss(s, why) ==
    stats' = IF why \in TaskOf[feedOf].counts /\ stats[StatOf(s)].connected > 0
               THEN [stats EXCEPT ![StatOf(s)].connected = @ - 1, ![StatOf(s)].disconnected = @ + 1]
               ELSE stats

\* A task leaves its loop and counts itself off.
Lose(s, why) ==
    /\ tasks[s] > 0
    /\ why \in TaskOf[feedOf].ends
    /\ CountLoss(s, why)
    /\ tasks' = [tasks EXCEPT ![s] = @ - 1]
    /\ active' = active - 1
    /\ UNCHANGED <<feedOf, phase, next, tries, wsSlot, asked, deaf, down>>

\* A task sees the signal.
HearShutdown(s) ==
    /\ tasks[s] > 0 /\ down /\ s \notin deaf
    /\ tasks' = [tasks EXCEPT ![s] = @ - 1]
    /\ active' = active - 1
    /\ UNCHANGED <<feedOf, phase, next, tries, wsSlot, asked, deaf, stats, down>>

\* feeder_direct, after Ctrl+C: the signal, and 100 ms later the end of the loop.
Shutdown ==
    /\ ~down
    /\ down' = TRUE
    /\ UNCHANGED <<feedOf, phase, next, tries, wsSlot, asked, tasks, deaf, active, stats>>

Abort ==
    /\ down /\ phase /= "aborted"
    /\ phase' = "aborted"
    /\ wsSlot' = {}
    /\ UNCHANGED <<feedOf, next, tries, asked, tasks, deaf, active, stats, down>>

FeedLoop == Connect \/ ConnectFails \/ Subscribe \/ SubscribeFails \/ Spawn \/ Return

FeedNext ==
    \/ FeedLoop
    \/ \E s \in Streams : (\E why \in Ended \cup Unsent \cup {"health"} : Lose(s, why)) \/ HearShutdown(s)
    \/ Shutdown \/ Abort

-----------------------------------------------------------------------------
(* What holds of it.                                                       *)

FeedTypeOK ==
    /\ feedOf \in FeedExchanges
    /\ phase \in {"connect", "start", "aborted"}
    /\ next \in 1 .. Len(StreamOrder) + 1
    /\ tries \in 0 .. MaxRetries
    /\ wsSlot \subseteq Streams /\ deaf \subseteq Streams
    /\ asked \in [Streams -> SUBSET (1 .. SpotSymbols + FuturesSymbols)]
    /\ tasks \in [Streams -> Nat]
    /\ active \in Nat
    /\ \A k \in DOMAIN stats : stats[k] \in [connected : Nat, disconnected : Nat, total : Nat]
    /\ down \in BOOLEAN

\* start keeps the tasks of two rounds apart: the counter that it waits on is
\* the number of tasks, none is left when the loop connects again, and so no
\* stream is ever read by two tasks, which would publish everything twice, nor
\* by one before its symbols were asked for on this WebSocket.  The monitor shows
\* at least the WebSockets that are there: a loss is never counted twice, although
\* three events of a task can report it.
RoundsApart ==
    /\ active = OverStreams(tasks)
    /\ phase = "connect" => active = 0
    /\ \A s \in Streams :
         /\ tasks[s] + (IF s \in wsSlot THEN 1 ELSE 0) <= 1
         /\ tasks[s] > 0 => asked[s] = SubscriptionOf(feedOf, s)
    /\ \A k \in AssetTypes \X Kinds :
         OverStreams([s \in Streams |-> IF StatOf(s) = k THEN tasks[s] + (IF s \in wsSlot THEN 1 ELSE 0) ELSE 0])
           <= stats[k].connected

\* As long as every round ends, an exchange that gives up a stream after
\* MaxRetries comes back to each of them again and again: one that cannot be
\* reached does not keep the others away.  It does for binance, okx and upbit.
EveryStreamTried ==
    (GivesUp /\ []<>(\A s \in Streams : tasks[s] = 0) /\ []~down) =>
       \A s \in UNION {Chunked(SymbolsOf[e]) : e \in FeedExchanges} :
         []<>(s \in Streams => (phase = "connect" /\ next <= Len(StreamOrder) /\ Current = s))

=============================================================================
