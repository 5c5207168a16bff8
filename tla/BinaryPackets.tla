----------------------------- MODULE BinaryPackets -----------------------------
(***************************************************************************)
(* The binary datagrams (feeder/src/core/binary_udp_packet.rs) from a      *)
(* trade or an order book to flush_binary_packets of the sender, and what  *)
(* udp_monitor (feeder/src/bin/udp_monitor.rs) counts when they arrive.    *)
(*                                                                         *)
(* A header keeps flags and a count in one byte.  Prices and quantities    *)
(* are integers with a precision, and are brought to Digits decimals in    *)
(* words of 64 bits, here of a few values.  Symbols and exchanges are cut  *)
(* at 19 bytes, which no name reaches.                                     *)
(***************************************************************************)
EXTENDS Integers, Sequences, FiniteSets, SequencesExt

CONSTANTS
    Digits,            \* decimals of an item: 8
    Word,              \* bound of the integers: 2^63
    Scaled,            \* values of a price or a quantity
    Precisions,        \* decimals that they have
    Depths,            \* bound: levels of one side
    MaxBinary          \* bound: trades and order books

VARIABLES
    in_flight,         \* datagrams under way
    read,              \* history: datagrams that arrived
    source,            \* history: what each was made of
    monitor            \* counters of udp_monitor

yvars == <<in_flight, read, source, monitor>>

ASSUME BinaryAssumption ==
    /\ Digits \in Nat /\ Word \in Nat \ {0}
    /\ Scaled \subseteq Nat /\ Precisions \subseteq Nat /\ Depths \subseteq Nat

MaxItems == 7          \* bits 2-0

\* Overflow wraps, as in a release build.
Wrapped(v) == ((v + Word) % (2 * Word)) - Word

new_from_scaled(v, precision) ==
    IF precision = Digits THEN v
    ELSE IF precision < Digits THEN Wrapped(v * 10 ^ (Digits - precision))
    ELSE v \div 10 ^ (precision - Digits)

set_flags_and_count(is_last, packet_type, is_bid, count) ==
    (IF is_last THEN 128 ELSE 0) + (packet_type % 8) * 16 + (IF is_bid THEN 8 ELSE 0) + (count % 8)

is_last(flags) == flags \div 128 = 1
packet_type(flags) == (flags \div 16) % 8
is_bid(flags) == (flags \div 8) % 2 = 1
item_count(flags) == flags % 8

\* quantity > 0 stands for a buy, and quantities have no sign.
from_trade(v, precision) ==
    [flags |-> set_flags_and_count(TRUE, 1, FALSE, 1), items |-> <<new_from_scaled(v, precision)>>]

\* Mutant: all levels go into the packet.
FromWholeBook(levels, bid, precision) ==
    [flags |-> set_flags_and_count(TRUE, 2, bid, Len(levels)),
     items |-> [i \in DOMAIN levels |-> new_from_scaled(levels[i], precision)]]

\* Levels after the seventh are left out, the packet is the last one all the same.
from_orderbook(levels, bid, precision) ==
    LET fitting == SubSeq(levels, 1, IF Len(levels) < MaxItems THEN Len(levels) ELSE MaxItems) IN
      [flags |-> set_flags_and_count(TRUE, 2, bid, Len(fitting)),
       items |-> [i \in DOMAIN fitting |-> new_from_scaled(fitting[i], precision)]]

-----------------------------------------------------------------------------
BinaryInit ==
    /\ in_flight = <<>> /\ read = <<>> /\ source = <<>>
    /\ monitor = [binary |-> 0, text |-> 0, trades |-> 0, orderbooks |-> 0, reported |-> {}]

Put(added, made) ==
    /\ Len(source) < MaxBinary
    /\ in_flight' = in_flight \o added /\ source' = source \o made
    /\ UNCHANGED <<read, monitor>>

SendTrade(v, precision) ==
    Put(<<from_trade(v, precision)>>, <<[what |-> "trade", levels |-> <<v>>, precision |-> precision]>>)

\* flush_binary_packets: a datagram for each side that is not empty.
SidePackets(bids, asks, precision) ==
    (IF bids = <<>> THEN <<>> ELSE <<from_orderbook(bids, TRUE, precision)>>)
      \o (IF asks = <<>> THEN <<>> ELSE <<from_orderbook(asks, FALSE, precision)>>)

SideSources(bids, asks, precision) ==
    (IF bids = <<>> THEN <<>> ELSE <<[what |-> "bids", levels |-> bids, precision |-> precision]>>)
      \o (IF asks = <<>> THEN <<>> ELSE <<[what |-> "asks", levels |-> asks, precision |-> precision]>>)

SendBook(bids, asks, precision) ==
    Put(SidePackets(bids, asks, precision), SideSources(bids, asks, precision))

\* CONN and STATS go as text.
SendText(what) == Put(<<[text |-> what]>>, <<[what |-> what, levels |-> <<>>, precision |-> Digits]>>)

\* Of binary datagrams the monitor takes type 0 for an order book and 1 for a trade,
\* of text it takes the lines CONN.
Counted(packet) ==
    IF "text" \in DOMAIN packet
      THEN [monitor EXCEPT !.text = @ + 1,
                           !.reported = IF packet.text = "CONN" THEN @ \cup {packet.text} ELSE @]
      ELSE [monitor EXCEPT !.binary = @ + 1,
                           !.orderbooks = IF packet_type(packet.flags) = 0 THEN @ + 1 ELSE @,
                           !.trades = IF packet_type(packet.flags) = 1 THEN @ + 1 ELSE @]

ReadPacket ==
    /\ in_flight /= <<>>
    /\ in_flight' = Tail(in_flight) /\ read' = Append(read, Head(in_flight))
    /\ monitor' = Counted(Head(in_flight))
    /\ UNCHANGED source

Ladders == {[i \in 1 .. n |-> v] : n \in Depths, v \in Scaled}

BinaryNext ==
    \/ ReadPacket
    \/ \E v \in Scaled, precision \in Precisions : SendTrade(v, precision)
    \/ \E bids, asks \in Ladders, precision \in Precisions : SendBook(bids, asks, precision)
    \/ \E what \in {"CONN", "STATS"} : SendText(what)

-----------------------------------------------------------------------------
(* What holds of it.                                                       *)

BinaryTypeOK ==
    /\ Len(read) + Len(in_flight) = Len(source)
    /\ monitor.binary + monitor.text = Len(read)
    /\ \A i \in DOMAIN read : "flags" \in DOMAIN read[i] => read[i].flags \in 0 .. 255

Fits(v, precision) == v * 10 ^ (Digits - precision) \in -Word .. Word - 1

\* A datagram is read as what was sent: its kind, its side, as many items as it says,
\* and the first levels, exact if they had no more decimals than an item has and fit
\* its word.  A reader cannot tell a book that was cut from one that was not.  The
\* monitor counts every trade and not one order book.
BinaryReadsBack ==
    /\ \A i \in {j \in DOMAIN read : "flags" \in DOMAIN read[j]} :
         LET p == read[i]
             s == source[i] IN
           /\ packet_type(p.flags) = (IF s.what = "trade" THEN 1 ELSE 2)
           /\ is_bid(p.flags) <=> s.what = "bids"
           /\ is_last(p.flags)
           /\ item_count(p.flags) = Len(p.items) /\ (Len(s.levels) <= MaxItems => Len(p.items) = Len(s.levels))
           /\ s.precision <= Digits =>
                \A k \in DOMAIN p.items : Fits(s.levels[k], s.precision) =>
                  p.items[k] = s.levels[k] * 10 ^ (Digits - s.precision)
    /\ monitor.trades = Cardinality({i \in DOMAIN read : source[i].what = "trade"})
    /\ monitor.orderbooks = 0

=============================================================================
