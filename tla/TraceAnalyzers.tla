---------------------------- MODULE TraceAnalyzers ----------------------------
(***************************************************************************)
(* The tools in feeder/src/bin that listen to the text datagrams of the    *)
(* feeder and tell whether, and why, timestamps of a key (exchange:symbol) *)
(* went backwards:                                                         *)
(*   statistical_order_report, inversion_analyzer, exchange_order_tracker, *)
(*   production_validator, order_validation_monitor,                       *)
(*   latency_correlation_analyzer, packet_inversion_diagnostics and        *)
(*   dual_side_order_analyzer, which also reads a copy that the feeder     *)
(*   would send to port 9003.                                              *)
(*                                                                         *)
(* They do not know of each other, but get the same datagrams, so that one *)
(* arrival is one step of all.  The network is external: it reorders, and  *)
(* what it never delivers is lost.  Reports only print; what they conclude *)
(* is an operator.                                                         *)
(***************************************************************************)
EXTENDS Integers, Sequences, FiniteSets, SequencesExt, Sums

CONSTANTS
    TracedPackets,     \* records [key, stamp]: what may be sent
    MaxTraced,         \* bound: datagrams sent
    ReceiptTime,       \* the clock when datagrams arrive: one second is short here
    BurstSize          \* 3: inversions of a second after which one is part of a burst

VARIABLES
    traced,            \* history: the datagrams sent, in order
    under_way,         \* external: the numbers of those that may still arrive
    arrived,           \* history: the numbers of those that arrived, in order
    tapped,            \* the feeder also sends to port 9003
    watched,           \* how many of those monitor_pre_send has taken
    source_last,       \* per key: source_last_timestamps, None before the first
    last_timestamps,   \* per key, as each tool keeps it: None before the first
    inversions,        \* per key: as the report, inversion_analyzer and production_validator count
    tracker,           \* per key: SymbolMetrics of exchange_order_tracker
    patterns,          \* ValidationStats of order_validation_monitor
    correlation,       \* per key: CorrelationAnalysis
    diagnostics,       \* DiagnosticResults
    dual,              \* OrderingStats of dual_side_order_analyzer
    production_total,  \* total_packets of production_validator
    disturbed          \* history: keys of which a datagram was lost, overtaken or not yet watched

avars == <<traced, under_way, arrived, tapped, watched, source_last, last_timestamps, inversions, tracker, patterns,
           correlation, diagnostics, dual, production_total, disturbed>>

ASSUME TraceAssumption ==
    /\ IsFiniteSet(TracedPackets) /\ \A p \in TracedPackets : p.stamp \in Nat
    /\ ReceiptTime \in Nat /\ BurstSize \in Nat

None == -1
Keys == {p.key : p \in TracedPackets}

TraceInit ==
    /\ traced = <<>> /\ under_way = {} /\ arrived = <<>>
    /\ tapped \in BOOLEAN /\ watched = 0 /\ source_last = [k \in Keys |-> None]
    /\ last_timestamps = [k \in Keys |-> None]
    /\ inversions = [k \in Keys |-> 0]
    /\ tracker = [k \in Keys |-> [last |-> 0, inversions |-> 0, gaps |-> 0]]
    /\ patterns = [tiny |-> 0, small |-> 0, medium |-> 0, large |-> 0, consecutive |-> 0, isolated |-> 0,
                   counter |-> 0, longest |-> 0, last_key |-> "none"]
    /\ correlation = [k \in Keys |-> [high |-> 0, low |-> 0, burst |-> 0, isolated |-> 0]]
    /\ diagnostics = [actual |-> 0, perceived |-> 0, sequence |-> [k \in Keys |-> 0]]
    /\ dual = [source |-> 0, network |-> 0, pure |-> 0, propagated |-> 0]
    /\ production_total = 0 /\ disturbed = {}

\* Two datagrams of a key among the first n of a trace with none of that key between.
Neighbours(trace, n, k) ==
    {e \in (1 .. n) \X (1 .. n) :
       /\ e[1] < e[2] /\ trace[e[1]].key = k /\ trace[e[2]].key = k
       /\ \A i \in e[1] + 1 .. e[2] - 1 : trace[i].key /= k}

-----------------------------------------------------------------------------
(* What each tool does with a datagram p that arrives.                     *)

Inversion(p) == last_timestamps[p.key] /= None /\ p.stamp < last_timestamps[p.key]
WentBack(p) == last_timestamps[p.key] - p.stamp

\* statistical_order_report, inversion_analyzer and production_validator.
CountInversion(p) == IF Inversion(p) THEN [inversions EXCEPT ![p.key] = @ + 1] ELSE inversions

\* exchange_order_tracker takes a timestamp of 0 for none.
Track(s, stamp) ==
    [last |-> stamp,
     inversions |-> s.inversions + (IF s.last > 0 /\ stamp < s.last THEN 1 ELSE 0),
     gaps |-> s.gaps + (IF s.last > 0 /\ stamp >= s.last THEN 1 ELSE 0)]

SizeClass(d) == IF d < 10 THEN "tiny" ELSE IF d < 100 THEN "small" ELSE IF d < 1000 THEN "medium" ELSE "large"

\* An inversion of the key that was the last to have one is consecutive, whatever
\* arrived in between; an isolated one needs another key, and a counter of 0.
CountPattern(p) ==
    LET again == patterns.last_key = p.key
        run == IF again THEN patterns.counter + 1 ELSE 0 IN
      IF Inversion(p)
        THEN [patterns EXCEPT ![SizeClass(WentBack(p))] = @ + 1,
                              !.consecutive = IF again THEN @ + 1 ELSE @,
                              !.isolated = IF ~again /\ patterns.counter = 0 THEN @ + 1 ELSE @,
                              !.counter = run,
                              !.longest = IF run > @ THEN run ELSE @,
                              !.last_key = p.key]
        ELSE [patterns EXCEPT !.counter = IF last_timestamps[p.key] /= None /\ again THEN 0 ELSE @]

\* The inversions of the last second are all there were: at most 100 are remembered,
\* more than the bound.
CountCorrelation(p) ==
    LET recent == inversions[p.key] + 1 IN
      IF Inversion(p)
        THEN [correlation EXCEPT ![p.key] =
               [high |-> @.high + (IF ReceiptTime - p.stamp > 1000 THEN 1 ELSE 0),
                low |-> @.low + (IF ReceiptTime - p.stamp > 1000 THEN 0 ELSE 1),
                burst |-> @.burst + (IF recent > BurstSize THEN 1 ELSE 0),
                isolated |-> @.isolated + (IF recent > BurstSize THEN 0 ELSE 1)]]
        ELSE correlation

\* The sequence number is counted by the tool itself as datagrams arrive: of two
\* neighbours the later has the larger.
Diagnose(p) ==
    LET counted == diagnostics.sequence[p.key] + 1
        before == counted - 1 IN
      [sequence |-> [diagnostics.sequence EXCEPT ![p.key] = counted],
       actual |-> diagnostics.actual + (IF Inversion(p) THEN 1 ELSE 0),
       perceived |-> diagnostics.perceived + (IF Inversion(p) /\ before >= 1 /\ counted < before THEN 1 ELSE 0)]

\* Mutant: the two timestamps are compared the wrong way round.
CheckSwapped(k, current, previous) ==
    \E e \in Neighbours(traced, watched, k) : traced[e[1]].stamp = current /\ traced[e[2]].stamp = previous

\* Two neighbours among what the other monitor has taken so far.
check_if_source_inversion(k, current, previous) ==
    \E e \in Neighbours(traced, watched, k) : traced[e[1]].stamp = previous /\ traced[e[2]].stamp = current

CountDual(p) ==
    LET known == check_if_source_inversion(p.key, p.stamp, last_timestamps[p.key]) IN
      IF Inversion(p)
        THEN [dual EXCEPT !.network = @ + 1,
                          !.propagated = IF known THEN @ + 1 ELSE @,
                          !.pure = IF known THEN @ ELSE @ + 1]
        ELSE dual

-----------------------------------------------------------------------------
SendTraced(p) ==
    /\ Len(traced) < MaxTraced
    /\ traced' = Append(traced, p)
    /\ under_way' = under_way \cup {Len(traced')}
    /\ UNCHANGED <<arrived, tapped, watched, source_last, last_timestamps, inversions, tracker, patterns, correlation,
                   diagnostics, dual, production_total, disturbed>>

\* The copies come over the loopback, in order.
monitor_pre_send ==
    /\ tapped /\ watched < Len(traced)
    /\ LET p == traced[watched + 1] IN
         /\ dual' = IF source_last[p.key] /= None /\ p.stamp < source_last[p.key]
                      THEN [dual EXCEPT !.source = @ + 1] ELSE dual
         /\ source_last' = [source_last EXCEPT ![p.key] = p.stamp]
    /\ watched' = watched + 1
    /\ UNCHANGED <<traced, under_way, arrived, tapped, last_timestamps, inversions, tracker, patterns, correlation,
                   diagnostics, production_total, disturbed>>

\* production_validator counts a datagram when it arrives and when it has parsed it.
Arrive(i) ==
    LET p == traced[i] IN
    /\ under_way' = under_way \ {i} /\ arrived' = Append(arrived, i)
    /\ last_timestamps' = [last_timestamps EXCEPT ![p.key] = p.stamp]
    /\ inversions' = CountInversion(p)
    /\ tracker' = [tracker EXCEPT ![p.key] = Track(@, p.stamp)]
    /\ patterns' = CountPattern(p)
    /\ correlation' = CountCorrelation(p)
    /\ diagnostics' = Diagnose(p)
    /\ dual' = CountDual(p)
    /\ production_total' = production_total + 2
    /\ disturbed' = IF i > watched \/ \E j \in under_way : j < i /\ traced[j].key = p.key
                      THEN disturbed \cup {p.key} ELSE disturbed
    /\ UNCHANGED <<traced, tapped, watched, source_last>>

TraceNext ==
    \/ monitor_pre_send
    \/ \E p \in TracedPackets : SendTraced(p)
    \/ \E i \in under_way : Arrive(i)

-----------------------------------------------------------------------------
(* What the tools conclude.                                                *)

\* "Source is sending packets with backwards timestamps!"
SourceIsBlamed == diagnostics.actual > diagnostics.perceived

-----------------------------------------------------------------------------
(* What holds of them.                                                     *)

TraceTypeOK ==
    /\ under_way \subseteq 1 .. Len(traced) /\ watched \in 0 .. Len(traced)
    /\ ToSet(arrived) = 1 .. Len(traced) \ under_way
    /\ disturbed \subseteq Keys
    /\ patterns.last_key \in Keys \cup {"none"} /\ patterns.longest <= patterns.consecutive

Falls(trace, n, k) == {e \in Neighbours(trace, n, k) : trace[e[2]].stamp < trace[e[1]].stamp}
Descents(trace, n, k) == Cardinality(Falls(trace, n, k))
Arrivals == [i \in 1 .. Len(arrived) |-> traced[arrived[i]]]

\* All tools count the same inversions, those of neighbours that arrived, and divide
\* them into kinds without remainder, but that order_validation_monitor has
\* inversions that are neither isolated nor consecutive.
\* packet_inversion_diagnostics takes none for a reordering: it blames the source
\* for each.  dual_side_order_analyzer blames the network only if a datagram was
\* lost or overtaken by one of its key, or was not watched before it arrived; where nobody
\* sends to port 9003, that is each.
TracesAgree ==
    LET all == TotalOf(Keys, inversions) IN
    /\ \A k \in Keys :
         /\ inversions[k] = Descents(Arrivals, Len(arrived), k) /\ tracker[k].inversions = inversions[k]
         /\ correlation[k].high + correlation[k].low = inversions[k]
         /\ correlation[k].burst + correlation[k].isolated = inversions[k]
    /\ patterns.tiny + patterns.small + patterns.medium + patterns.large = all
    /\ patterns.consecutive + patterns.isolated <= all
    /\ diagnostics.actual = all /\ (SourceIsBlamed <=> all > 0)
    /\ dual.network = all /\ dual.pure + dual.propagated = all
    /\ dual.source = TotalOf(Keys, [k \in Keys |-> Descents(traced, watched, k)])
    /\ disturbed = {} => dual.pure = 0 /\ dual.network <= dual.source
    /\ ~tapped => dual.propagated = 0
    /\ production_total = 2 * Len(arrived)

=============================================================================
