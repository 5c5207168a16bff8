--------------------------- MODULE OperationalLog ---------------------------
(***************************************************************************)
(* FeederLogger (feeder/src/connect_to_databse/feeder_logger.rs), the      *)
(* QuestDB client under it (questdb.rs), and the hooks that log            *)
(* (core/feeder_metrics.rs).  The log layer that shares the client is left *)
(* out, no process installs it (FeederProcess).                            *)
(*                                                                         *)
(* Each kind of entry has a buffer behind a tokio RwLock, which its owner  *)
(* cannot take again.                                                      *)
(* flush_internal holds the lock of the lines from the first look at them  *)
(* to the answer of the socket, so it is one step.  An entry is its        *)
(* number.  Whether a line is written out at once, for its number or for   *)
(* the time, is left open, and so is whether the socket takes it.          *)
(***************************************************************************)
EXTENDS Naturals, Sequences, SequencesExt

CONSTANTS
    LogCallers,        \* feeds and the performance collector
    LogLimit,          \* 50 or 100 in the code
    MaxEntries         \* bound: entries logged in a behaviour

ASSUME LogAssumption == "nobody" \notin LogCallers /\ LogLimit \in Nat \ {0} /\ MaxEntries \in Nat

VARIABLES
    backlog,           \* per kind: the entries of its buffer
    holder,            \* per kind: the task that holds the buffer's lock
    gate,              \* the task that holds FeederLogger.questdb
    lines,             \* the lines in the client: entries
    job,               \* per task: what it is doing
    entries,           \* history: how many were logged
    delivered          \* history: entries the socket took

lvars == <<backlog, holder, gate, lines, job, entries, delivered>>

LogKinds == {"connection", "performance", "errors", "processing"}
Periodic == "auto_flush"
LogTasks == LogCallers \cup {Periodic}
Done == [step |-> "idle", kinds |-> <<>>, todo |-> <<>>]

LogInit ==
    /\ backlog = [k \in LogKinds |-> <<>>]
    /\ holder = [k \in LogKinds |-> "nobody"] /\ gate = "nobody"
    /\ lines = {} /\ entries = 0 /\ delivered = {}
    /\ job = [t \in LogTasks |-> Done]

-----------------------------------------------------------------------------
(* Entries.                                                                *)

Pushed(k) ==
    /\ holder[k] = "nobody" /\ entries < MaxEntries
    /\ entries' = entries + 1
    /\ backlog' = [backlog EXCEPT ![k] = Append(@, entries')]
    /\ UNCHANGED <<gate, lines, delivered>>

\* The lock is given back before the flush.
log_connection_event(t) ==
    /\ job[t] = Done /\ Pushed("connection")
    /\ job' = [job EXCEPT ![t] = [Done EXCEPT !.step = "flush", !.kinds = <<"connection">>]]
    /\ UNCHANGED holder

\* Mutant: the lock is given back before the flush, as log_connection_event does.
BufferedAndReleased(t, k) ==
    /\ job[t] = Done /\ Pushed(k)
    /\ IF Len(backlog'[k]) >= LogLimit
         THEN job' = [job EXCEPT ![t] = [Done EXCEPT !.step = "flush", !.kinds = <<k>>]]
         ELSE job' = job
    /\ UNCHANGED holder

\* At the limit the flush is called with the lock still held.
Buffered(t, k) ==
    /\ job[t] = Done /\ Pushed(k)
    /\ IF Len(backlog'[k]) >= LogLimit
         THEN /\ holder' = [holder EXCEPT ![k] = t]
              /\ job' = [job EXCEPT ![t] = [Done EXCEPT !.step = "flush", !.kinds = <<k>>]]
         ELSE UNCHANGED <<holder, job>>

log_performance(t) == Buffered(t, "performance")
log_error(t) == Buffered(t, "errors")
log_processing_stats(t) == Buffered(t, "processing")

-----------------------------------------------------------------------------
(* flush_connection_events, flush_performance_metrics, flush_errors and    *)
(* flush_processing_stats are the same but for the text of the lines.      *)

\* The next kind of flush_all; an error ends it.
GoOn(t) == job' = [job EXCEPT ![t] = IF Len(@.kinds) = 1 THEN Done
                                     ELSE [Done EXCEPT !.step = "flush", !.kinds = Tail(job[t].kinds)]]
GiveUp(t) == job' = [job EXCEPT ![t] = Done]

flush_all ==
    /\ job[Periodic] = Done
    /\ job' = [job EXCEPT ![Periodic] =
         [Done EXCEPT !.step = "flush", !.kinds = <<"connection", "performance", "errors", "processing">>]]
    /\ UNCHANGED <<backlog, holder, gate, lines, entries, delivered>>

LockBacklog(t) ==
    /\ job[t].step = "flush"
    /\ LET k == Head(job[t].kinds) IN
         /\ holder[k] = "nobody"
         /\ IF backlog[k] = <<>> THEN GoOn(t) /\ holder' = holder
            ELSE /\ holder' = [holder EXCEPT ![k] = t]
                 /\ job' = [job EXCEPT ![t].step = "gate"]
    /\ UNCHANGED <<backlog, gate, lines, entries, delivered>>

LockClient(t) ==
    /\ job[t].step = "gate" /\ gate = "nobody"
    /\ gate' = t
    /\ job' = [job EXCEPT ![t].step = "write", ![t].todo = backlog[Head(job[t].kinds)]]
    /\ UNCHANGED <<backlog, holder, lines, entries, delivered>>

\* flush_internal: the lines are gone before the socket has answered.
flush_internal(waiting, ok) ==
    /\ lines' = {}
    /\ delivered' = IF ok THEN delivered \cup waiting ELSE delivered

Unlock(t) == gate' = "nobody" /\ holder' = [holder EXCEPT ![Head(job[t].kinds)] = "nobody"]

\* add_to_buffer, which may find that it is time to flush.
add_to_buffer(t) ==
    /\ job[t].step = "write" /\ job[t].todo /= <<>>
    /\ LET waiting == lines \cup {Head(job[t].todo)}
           written == job' = [job EXCEPT ![t].todo = Tail(@)] /\ UNCHANGED <<holder, gate>> IN
         \/ lines' = waiting /\ delivered' = delivered /\ written
         \/ flush_internal(waiting, TRUE) /\ written
         \/ flush_internal(waiting, FALSE) /\ GiveUp(t) /\ Unlock(t)
    /\ UNCHANGED <<backlog, entries>>

\* Mutant: the buffer is emptied before the lines are out.
FlushEndEarly(t) ==
    /\ job[t].step = "write" /\ job[t].todo = <<>>
    /\ Unlock(t)
    /\ backlog' = [backlog EXCEPT ![Head(job[t].kinds)] = <<>>]
    /\ \/ flush_internal(lines, TRUE) /\ GoOn(t)
       \/ lines /= {} /\ flush_internal(lines, FALSE) /\ GiveUp(t)
    /\ UNCHANGED <<entries>>

\* The end of a flush: only when the lines are out is the buffer emptied.
FlushEnd(t) ==
    /\ job[t].step = "write" /\ job[t].todo = <<>>
    /\ Unlock(t)
    /\ \/ /\ flush_internal(lines, TRUE)
          /\ backlog' = [backlog EXCEPT ![Head(job[t].kinds)] = <<>>]
          /\ GoOn(t)
       \/ /\ lines /= {}
          /\ flush_internal(lines, FALSE)
          /\ backlog' = backlog
          /\ GiveUp(t)
    /\ UNCHANGED <<entries>>

LogNext ==
    \/ flush_all
    \/ \E t \in LogCallers :
         log_connection_event(t) \/ log_performance(t) \/ log_error(t) \/ log_processing_stats(t)
    \/ \E t \in LogTasks : LockBacklog(t) \/ LockClient(t) \/ add_to_buffer(t) \/ FlushEnd(t)

-----------------------------------------------------------------------------
(* What holds of it.                                                       *)

LogTypeOK ==
    /\ \A k \in LogKinds : holder[k] \in LogTasks \cup {"nobody"} /\ Len(backlog[k]) <= MaxEntries
    /\ gate \in LogTasks \cup {"nobody"}
    /\ lines \subseteq 1 .. MaxEntries /\ delivered \subseteq 1 .. entries
    /\ \A t \in LogTasks : job[t].step \in {"idle", "flush", "gate", "write"}

Backlogged == UNION {ToSet(backlog[k]) : k \in LogKinds}

\* An entry is never lost by a flush that fails, whichever of several flushes that
\* share the lines of the client it is: it is still in its buffer or was taken by
\* the socket.
AtLeastOnce == 1 .. entries \subseteq Backlogged \cup delivered

\* A buffer that has reached its limit is never touched again: the caller waits in
\* the flush for the lock it holds, the periodic flush behind it, and the buffers
\* that it flushes later are only emptied by nobody.
LimitIsFatal ==
    [][\A k \in LogKinds \ {"connection"} :
         Len(backlog[k]) >= LogLimit =>
           backlog'[k] = backlog[k] /\ holder'[k] = holder[k] /\ holder[k] /= "nobody"]_lvars

=============================================================================
