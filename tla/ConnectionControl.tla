-------------------------- MODULE ConnectionControl --------------------------
(***************************************************************************)
(* What the feeder has beside ExchangeFeed to control its connections:     *)
(*   - RobustConnectionManager (core/robust_connection.rs): how many       *)
(*     attempts in a window, how many connections at a time;               *)
(*   - UnifiedExchangeManager (core/unified_exchange_manager.rs): a loop   *)
(*     around connect, subscribe and start with retries and delays;        *)
(*   - ConnectionManager (core/connection_manager.rs): a table of          *)
(*     connections and their health.                                       *)
(*                                                                         *)
(* The feeds use none of the three, so what calls them is taken from their *)
(* interface: a task asks can_connect, records its attempt, connects and   *)
(* records what came of it.  Each call takes the manager exclusively; the  *)
(* clock, in ticks, runs on between calls.                                 *)
(***************************************************************************)
EXTENDS Integers, Sequences, FiniteSets, SequencesExt

CONSTANTS
    Connectors,        \* tasks that open connections to one exchange
    AttemptWindow, MaxAttempts,    \* connection_attempt_window, max_attempts_per_window
    MaxConcurrent,     \* max_concurrent_connections
    MaxTicks,          \* bound: ticks of the clock
    ConnectAttempts,   \* max_attempts of connect_with_retry and subscribe_with_retry: 3
    MaxFailures,       \* max_consecutive_failures
    DelayCap,          \* times that backoff_multiplier leads from the first to the longest delay
    MaxUnifiedRounds,  \* bound: rounds of run
    ConnectionTimeout, MaxConnections, MaxErrors    \* connection_timeout_seconds; bounds

ASSUME ControlAssumption ==
    /\ IsFiniteSet(Connectors)
    /\ {AttemptWindow, MaxAttempts, ConnectAttempts, MaxFailures} \subseteq Nat \ {0}
    /\ {DelayCap, MaxTicks, MaxUnifiedRounds, MaxErrors} \subseteq Nat

-----------------------------------------------------------------------------
(* RobustConnectionManager: can_connect, record_connection_attempt,        *)
(* record_connection_success and record_connection_failure.                *)

VARIABLES
    tick,
    attempts,          \* ConnectionAttemptTracker: the times it remembers
    active_connections,
    connector,         \* per task: what it does, until when it sleeps
    attempted,         \* history: the times of all attempts
    established        \* history: connections that came about, and that were lost

rcvars == <<tick, attempts, active_connections, connector, attempted, established>>

Asking == [doing |-> "ask", until |-> 0]

RobustInit ==
    /\ tick = 0 /\ attempts = <<>> /\ attempted = <<>>
    /\ active_connections = 0
    /\ connector = [c \in Connectors |-> Asking]
    /\ established = [made |-> 0, lost |-> 0]

ClockTicks ==
    /\ tick < MaxTicks /\ tick' = tick + 1
    /\ UNCHANGED <<attempts, active_connections, connector, attempted, established>>

\* retain: the attempts are in the order of their times, so that the first ones go.
Recent(times) ==
    LET old == {i \in DOMAIN times : tick - times[i] >= AttemptWindow} IN
    SubSeq(times, Cardinality(old) + 1, Len(times))

\* Mutant: the wait is measured from the newest attempt that is remembered.
WaitForNewest(times) == AttemptWindow - (tick - Last(times))

\* time_until_next_attempt, of a tracker that is full.
time_until_next_attempt(times) == AttemptWindow - (tick - Head(times))

\* can_attempt forgets what is outside the window, then compares.
can_connect(c) ==
    /\ connector[c].doing = "ask" /\ connector[c].until <= tick
    /\ active_connections < MaxConcurrent    \* can_add_connection
    /\ attempts' = Recent(attempts)
    /\ connector' = [connector EXCEPT ![c] =
         IF Len(attempts') < MaxAttempts THEN [doing |-> "record", until |-> 0]
         ELSE [doing |-> "ask", until |-> tick + time_until_next_attempt(attempts')]]
    /\ UNCHANGED <<tick, active_connections, attempted, established>>

record_connection_attempt(c) ==
    /\ connector[c].doing = "record"
    /\ attempts' = Append(attempts, tick) /\ attempted' = Append(attempted, tick)
    /\ active_connections' = active_connections + 1
    /\ connector' = [connector EXCEPT ![c].doing = "connect"]
    /\ UNCHANGED <<tick, established>>

record_connection_success(c) ==
    /\ connector[c].doing = "connect"
    /\ established' = [established EXCEPT !.made = @ + 1]
    /\ connector' = [connector EXCEPT ![c] = [Asking EXCEPT !.doing = "connected"]]
    /\ UNCHANGED <<tick, attempts, active_connections, attempted>>

record_connection_failure(c) ==
    /\ connector[c].doing = "connect"
    /\ active_connections' = IF active_connections = 0 THEN 0 ELSE active_connections - 1
    /\ connector' = [connector EXCEPT ![c] = Asking]
    /\ UNCHANGED <<tick, attempts, attempted, established>>

\* A connection is lost: the manager has no operation for it.
ConnectionLost(c) ==
    /\ connector[c].doing = "connected"
    /\ established' = [established EXCEPT !.lost = @ + 1]
    /\ connector' = [connector EXCEPT ![c] = Asking]
    /\ UNCHANGED <<tick, attempts, active_connections, attempted>>

RobustNext ==
    \/ ClockTicks
    \/ \E c \in Connectors :
         \/ can_connect(c) \/ record_connection_attempt(c)
         \/ record_connection_success(c) \/ record_connection_failure(c) \/ ConnectionLost(c)

Holding(doing) == Cardinality({c \in Connectors : connector[c].doing = doing})

RobustTypeOK ==
    /\ tick \in 0 .. MaxTicks
    /\ Len(attempts) <= MaxAttempts + Cardinality(Connectors) - 1
    /\ \A c \in Connectors :
         /\ connector[c].doing \in {"ask", "record", "connect", "connected"}
         /\ connector[c].until <= tick + AttemptWindow

-----------------------------------------------------------------------------
(* UnifiedExchangeManager::run around an exchange, which is external:      *)
(* connect and subscribe succeed or fail, start returns.                   *)

VARIABLES
    unifiedAt,         \* where run is
    attempt,           \* of connect_with_retry or subscribe_with_retry
    consecutive_failures,
    reconnect_delay,   \* times that the initial delay was multiplied
    signalled,         \* the shutdown
    unifiedRounds,     \* history
    missed             \* history: connects that failed since the last that did not

uvars == <<unifiedAt, attempt, consecutive_failures, reconnect_delay, signalled, unifiedRounds, missed>>

UnifiedInit ==
    /\ unifiedAt = "loop" /\ attempt = 0
    /\ consecutive_failures = 0 /\ reconnect_delay = 0
    /\ signalled = FALSE
    /\ unifiedRounds = 0 /\ missed = 0

Signal ==
    /\ ~signalled /\ signalled' = TRUE
    /\ UNCHANGED <<unifiedAt, attempt, consecutive_failures, reconnect_delay, unifiedRounds, missed>>

Loop ==
    /\ unifiedAt = "loop"
    /\ IF signalled THEN unifiedAt' = "stopped" /\ UNCHANGED <<attempt, unifiedRounds>>
       ELSE /\ unifiedRounds < MaxUnifiedRounds /\ unifiedRounds' = unifiedRounds + 1
            /\ unifiedAt' = "connect" /\ attempt' = 1
    /\ UNCHANGED <<consecutive_failures, reconnect_delay, signalled, missed>>

Connected ==
    /\ unifiedAt = "connect"
    /\ consecutive_failures' = 0 /\ reconnect_delay' = 0 /\ missed' = 0
    /\ unifiedAt' = "subscribe" /\ attempt' = 1
    /\ UNCHANGED <<signalled, unifiedRounds>>

\* connect_with_retry gives its error up after the last attempt.
ConnectFailed ==
    /\ unifiedAt = "connect" /\ missed' = missed + 1
    /\ IF attempt < ConnectAttempts
         THEN attempt' = attempt + 1 /\ UNCHANGED <<unifiedAt, consecutive_failures>>
         ELSE /\ consecutive_failures' = consecutive_failures + 1
              /\ unifiedAt' = IF consecutive_failures' >= MaxFailures THEN "gave up" ELSE "wait"
              /\ attempt' = attempt
    /\ UNCHANGED <<reconnect_delay, signalled, unifiedRounds>>

Subscribed ==
    /\ unifiedAt = "subscribe" /\ unifiedAt' = "start"
    /\ UNCHANGED <<attempt, consecutive_failures, reconnect_delay, signalled, unifiedRounds, missed>>

SubscribeFailed ==
    /\ unifiedAt = "subscribe"
    /\ IF attempt < ConnectAttempts THEN attempt' = attempt + 1 /\ unifiedAt' = unifiedAt
       ELSE unifiedAt' = "wait" /\ attempt' = attempt
    /\ UNCHANGED <<consecutive_failures, reconnect_delay, signalled, unifiedRounds, missed>>

\* start returns, with or without an error.
StartReturned ==
    /\ unifiedAt = "start" /\ unifiedAt' = "wait"
    /\ UNCHANGED <<attempt, consecutive_failures, reconnect_delay, signalled, unifiedRounds, missed>>

\* The delay passes or the shutdown is heard, also one from before the wait.
Waited ==
    /\ unifiedAt = "wait"
    /\ \/ /\ unifiedAt' = "loop"
          /\ reconnect_delay' = IF reconnect_delay < DelayCap THEN reconnect_delay + 1 ELSE DelayCap
       \/ signalled /\ unifiedAt' = "stopped" /\ reconnect_delay' = reconnect_delay
    /\ UNCHANGED <<attempt, consecutive_failures, signalled, unifiedRounds, missed>>

UnifiedNext ==
    Signal \/ Loop \/ Connected \/ ConnectFailed \/ Subscribed \/ SubscribeFailed \/ StartReturned \/ Waited

UnifiedTypeOK ==
    /\ unifiedAt \in {"loop", "connect", "subscribe", "start", "wait", "stopped", "gave up"}
    /\ attempt \in 0 .. ConnectAttempts /\ reconnect_delay \in 0 .. DelayCap
    /\ consecutive_failures \in 0 .. MaxFailures /\ unifiedRounds \in 0 .. MaxUnifiedRounds

-----------------------------------------------------------------------------
(* ConnectionManager: create_connection, update_connection_status,         *)
(* record_message, increment_reconnect_attempts, cleanup_dead_connections. *)

VARIABLES
    pool,              \* connections: by number, those in the map
    connection_count,
    poolTime

pmvars == <<pool, connection_count, poolTime>>

Never == MaxTicks + 1
PoolInit ==
    /\ pool = [i \in {} |-> 0] /\ connection_count = 0 /\ poolTime = 0

PoolTicks ==
    /\ poolTime < MaxTicks /\ poolTime' = poolTime + 1
    /\ UNCHANGED <<pool, connection_count>>

create_connection ==
    /\ connection_count < MaxConnections
    /\ connection_count' = connection_count + 1
    /\ pool' = [i \in DOMAIN pool \cup {connection_count'} |->
         IF i \in DOMAIN pool THEN pool[i]
         ELSE [is_connected |-> FALSE, last_connected |-> Never, last_message |-> Never,
               reconnect_attempts |-> 0, errors |-> 0]]
    /\ UNCHANGED poolTime

\* A connection that is not in the map is passed over in silence.
Update(i, status) ==
    /\ pool' = IF i \in DOMAIN pool THEN [pool EXCEPT ![i] = status] ELSE pool
    /\ UNCHANGED <<connection_count, poolTime>>

update_connection_status(i, is_connected, error) ==
    Update(i, IF is_connected
                THEN [pool[i] EXCEPT !.is_connected = TRUE, !.last_connected = poolTime, !.reconnect_attempts = 0]
                ELSE [pool[i] EXCEPT !.is_connected = FALSE, !.errors = IF error THEN @ + 1 ELSE @])

record_message(i) == Update(i, [pool[i] EXCEPT !.last_message = poolTime])
increment_reconnect_attempts(i) == Update(i, [pool[i] EXCEPT !.reconnect_attempts = @ + 1])

Dead(c) == c.last_message /= Never /\ poolTime - c.last_message > 2 * ConnectionTimeout

cleanup_dead_connections ==
    /\ pool' = [i \in {j \in DOMAIN pool : ~Dead(pool[j])} |-> pool[i]]
    /\ UNCHANGED <<connection_count, poolTime>>

PoolNext ==
    \/ PoolTicks \/ create_connection \/ cleanup_dead_connections
    \/ \E i \in 1 .. connection_count :
         \/ \E is_connected, error \in BOOLEAN :
              /\ i \in DOMAIN pool => pool[i].errors < MaxErrors
              /\ update_connection_status(i, is_connected, error)
         \/ record_message(i)
         \/ (i \in DOMAIN pool => pool[i].reconnect_attempts < MaxErrors) /\ increment_reconnect_attempts(i)

PoolTypeOK ==
    /\ DOMAIN pool \subseteq 1 .. connection_count
    /\ \A i \in DOMAIN pool :
         /\ pool[i].is_connected \in BOOLEAN
         /\ pool[i].is_connected => pool[i].last_connected /= Never
         /\ pool[i].errors \in 0 .. MaxErrors /\ pool[i].reconnect_attempts \in 0 .. MaxErrors

-----------------------------------------------------------------------------
(* What holds of them.                                                     *)

\* Attempts and retries are limited as configured.  Of RobustConnectionManager: in no
\* window are there more attempts than are allowed, but for those of tasks that asked
\* before another recorded its own, and no task is told to sleep longer than the
\* window is full; connections that were lost stay in active_connections.
\* Of run: it gives up when so many rounds of so many connects have failed in a row, not
\* before and not later; the delay before a round grows with those rounds alone, so
\* that a connection that comes about but never lasts is tried at the first delay
\* for ever.
RetriesBounded ==
    /\ \A i \in DOMAIN attempted :
         Cardinality({j \in i .. Len(attempted) : attempted[j] - attempted[i] < AttemptWindow})
           < MaxAttempts + Cardinality(Connectors)
    /\ \A c \in Connectors : connector[c].until > tick => Len(Recent(attempts)) >= MaxAttempts
    /\ active_connections = established.made + Holding("connect")
    /\ established.made - established.lost = Holding("connected")
    /\ unifiedAt = "gave up" <=> missed = MaxFailures * ConnectAttempts
    /\ unifiedAt = "wait" =>
         /\ missed = consecutive_failures * ConnectAttempts
         /\ reconnect_delay <= consecutive_failures
         /\ reconnect_delay >= (IF consecutive_failures > DelayCap THEN DelayCap
                                ELSE IF consecutive_failures = 0 THEN 0 ELSE consecutive_failures - 1)

=============================================================================
