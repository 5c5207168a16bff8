--------------------------- MODULE PacketReceivers ---------------------------
(***************************************************************************)
(* What listens to the datagrams of the feeder, and what it counts:        *)
(*   - PacketValidator (feeder/src/core/packet_validator.rs), before the   *)
(*     send and after the receipt, with its comparison report;             *)
(*   - OrderValidator (feeder/src/bin/order_validator.rs);                 *)
(*   - DatabaseUDPReceiver (udp-protocol/src/database_receiver.rs);        *)
(*   - UdpReceiver (udp-protocol/src/receiver.rs), with its channels.      *)
(*                                                                         *)
(* The datagrams of one symbol of one exchange, numbered as they are sent  *)
(* (the feeder passes no sequence number to its own validator, which then  *)
(* counts no gaps).                                                        *)
(*                                                                         *)
(* The network is external: it loses, repeats and reorders them, and every *)
(* listener of the multicast group gets what arrives.                      *)
(***************************************************************************)
EXTENDS Naturals, Sequences, FiniteSets, SequencesExt

CONSTANTS
    Stamps,            \* timestamps
    MaxSent, MaxCopies \* bounds: datagrams sent, and repeated by the network

ASSUME StampsAssumption == Stamps \subseteq Nat

VARIABLES
    packets,    \* history: the timestamps of the datagrams sent
    flight,     \* external: the numbers of those under way, in order of sending
    copies,     \* external: how many were repeated
    got,        \* history: the numbers of those that arrived
    shuffled,   \* history: one arrived out of order or twice
    pre, post,  \* ValidationMetrics of both sides
    order_stats,\* SymbolOrderStats, packet_gaps and max_gap_size of OrderValidator
    database,   \* counters of DatabaseUDPReceiver
    channels    \* what UdpReceiver gave to its channels

rvars == <<packets, flight, copies, got, shuffled, pre, post, order_stats, database, channels>>

-----------------------------------------------------------------------------
(* PacketValidator and OrderValidator.                                     *)

ValidationMetrics ==
    [total |-> 0, inversions |-> 0, max_inversion |-> 0, last_timestamp |-> 0, gaps |-> 0, last_sequence |-> 0]

Larger(m, n) == IF m > n THEN m ELSE n
Inverted(metric, ts) == metric.last_timestamp > 0 /\ ts < metric.last_timestamp
Gapped(metric, n) == metric.last_sequence > 0 /\ n > metric.last_sequence + 1

validate_pre_send(metric, ts, n) ==
    [total |-> metric.total + 1,
     inversions |-> metric.inversions + (IF Inverted(metric, ts) THEN 1 ELSE 0),
     max_inversion |-> Larger(metric.max_inversion, IF Inverted(metric, ts) THEN metric.last_timestamp - ts ELSE 0),
     gaps |-> metric.gaps + (IF Gapped(metric, n) THEN 1 ELSE 0),
     last_timestamp |-> ts, last_sequence |-> n]

\* Mutant: the receiver compares with the latest timestamp it has seen.
ValidateWithLatest(metric, ts, n) ==
    [validate_pre_send(metric, ts, n) EXCEPT !.last_timestamp = Larger(metric.last_timestamp, ts)]

\* validate_post_receive repeats it on its own metrics.
validate_post_receive(metric, ts, n) == validate_pre_send(metric, ts, n)

\* get_comparison_report: "Network/Multicast induced additional inversions".
get_comparison_report == post.total > 0 /\ post.inversions > pre.inversions

SymbolOrderStats == [total |-> 0, inversions |-> 0, gaps |-> 0, max_gap |-> 0, last_timestamp |-> 0, last_sequence |-> 0]

\* Here a packet out of order counts as a gap, of size 0.
process_trade(s, ts, n) ==
    LET expected == s.last_sequence + 1
        gap == n > 0 /\ s.last_sequence > 0 /\ n /= expected IN
    [total |-> s.total + 1,
     inversions |-> s.inversions + (IF ts < s.last_timestamp /\ s.last_timestamp > 0 THEN 1 ELSE 0),
     gaps |-> s.gaps + (IF gap THEN 1 ELSE 0),
     max_gap |-> Larger(s.max_gap, IF gap /\ n > expected THEN n - expected ELSE 0),
     last_timestamp |-> ts, last_sequence |-> n]
process_orderbook(s, ts, n) == process_trade(s, ts, n)

-----------------------------------------------------------------------------
RxInit ==
    /\ packets = <<>> /\ flight = <<>> /\ copies = 0
    /\ got = <<>> /\ shuffled = FALSE
    /\ pre = ValidationMetrics /\ post = ValidationMetrics
    /\ order_stats = SymbolOrderStats
    /\ database = [trades |-> 0, metadata |-> 0]
    /\ channels = <<>>

\* UdpSender: the validator sees the packet, then it goes to the socket.
SendDatagram(ts) ==
    /\ Len(packets) < MaxSent
    /\ packets' = Append(packets, ts)
    /\ pre' = validate_pre_send(pre, ts, Len(packets'))
    /\ flight' = Append(flight, Len(packets'))
    /\ UNCHANGED <<copies, got, shuffled, post, order_stats, database, channels>>

LoseDatagram(i) ==
    /\ flight' = RemoveAt(flight, i)
    /\ UNCHANGED <<packets, copies, got, shuffled, pre, post, order_stats, database, channels>>

RepeatDatagram(i) ==
    /\ copies < MaxCopies
    /\ copies' = copies + 1
    /\ flight' = InsertAt(flight, i, flight[i])
    /\ UNCHANGED <<packets, got, shuffled, pre, post, order_stats, database, channels>>

\* receive_loop of the database receiver parses JSON without the prefix of the
\* text senders; whatever arrives counts as metadata there.
receive_loop(text) ==
    [database EXCEPT !.trades = @ + (IF text = "json" THEN 1 ELSE 0), !.metadata = @ + 1]

\* UdpReceiver: BytesMut::with_capacity(65536) has room for 65536 bytes and none
\* in it, and recv_from fills what is in it.
BufferLength == 0
HeaderLength == 24
recv_from(length) == IF length < BufferLength THEN length ELSE BufferLength

\* process_packet refuses what is shorter than a header.
process_packet(n, length) ==
    IF recv_from(length) < HeaderLength THEN channels ELSE Append(channels, n)

\* A datagram arrives at everyone.
Deliver(i) ==
    LET n == flight[i]
        ts == packets[n] IN
    /\ flight' = RemoveAt(flight, i)
    /\ got' = Append(got, n)
    /\ shuffled' = (shuffled \/ \E j \in 1 .. Len(got) : got[j] >= n)
    /\ post' = validate_post_receive(post, ts, n)
    /\ order_stats' = process_trade(order_stats, ts, n)
    /\ database' = receive_loop("TRADE|json")
    /\ \E length \in {20, 60} : channels' = process_packet(n, length)
    /\ UNCHANGED <<packets, copies, pre>>

RxNext ==
    \/ \E ts \in Stamps : SendDatagram(ts)
    \/ \E i \in 1 .. Len(flight) : LoseDatagram(i) \/ RepeatDatagram(i) \/ Deliver(i)

-----------------------------------------------------------------------------
(* What holds of it.                                                       *)

RxTypeOK ==
    /\ packets \in Seq(Stamps)
    /\ \A i \in 1 .. Len(flight) : flight[i] \in 1 .. Len(packets)
    /\ \A i \in 1 .. Len(got) : got[i] \in 1 .. Len(packets)
    /\ channels = <<>>
    /\ database.trades = 0 /\ database.metadata = Len(got)

\* "Network/Multicast induced ... additional inversions" accuses the network
\* justly: losses alone never make the receiver count more inversions than the
\* sender, only a packet out of order or twice does.
BlameIsDeserved == get_comparison_report => shuffled

=============================================================================
