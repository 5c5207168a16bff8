---------------------------- MODULE PacketSenders ----------------------------
(***************************************************************************)
(* The UDP senders of the feeder (feeder/src/core): what happens to a      *)
(* packet between send_trade or send_orderbook and the socket.             *)
(*                                                                         *)
(* binary_udp_sender, optimized_udp_sender, ordered_udp_sender and         *)
(* buffered_udp_sender hand it to a task of their own through an unbounded *)
(* channel; multi_port_udp_sender writes to its sockets itself, under the  *)
(* lock of a pool.  sender says which of them is meant.                    *)
(*                                                                         *)
(* A packet has one part or two: the bid and the ask side of an order book *)
(* (binary, multi_port), or the chunks of one that is too large.  What is  *)
(* in it is left out.  The network takes or refuses each datagram; what it *)
(* does with it afterwards is not modelled here.  Where a datagram ends is *)
(* not either: small packets that share one are lost together, which is    *)
(* one of the cases of each part being lost or not.                        *)
(***************************************************************************)
EXTENDS Naturals, Sequences, FiniteSets, SequencesExt

CONSTANTS
    Senders,           \* the senders considered
    SenderTasks,       \* tasks that send
    BatchSize,         \* BATCH_SIZE of binary_udp_sender, 50 in the source
    Sockets,           \* sockets of a pool: 4 for Binance, else 1
    Window,            \* buffer_window of ordered_udp_sender, in ticks
    MaxPackets, MaxTime    \* bounds: packets sent, ticks of the clock

VARIABLES
    sender,
    handed,     \* history: the packets handed over
    rest,       \* per task: the parts it has not given away yet
    inbox,      \* the channel: packets, or single chunks for buffered
    batch,      \* packet_buffer of the task
    out,        \* per socket: the parts sent, in the order of the calls
    dropped,    \* history: the parts that could not be sent
    late,       \* history: the parts that were in the buffer when the task ended
    closed,     \* every clone of the channel's sender is gone
    ended,      \* the task has ended
    now         \* the clock

svars == <<sender, handed, rest, inbox, batch, out, dropped, late, closed, ended, now>>

ASSUME SendersAssumption ==
    {Sockets, BatchSize} \subseteq Nat \ {0} /\ {MaxPackets, MaxTime} \subseteq Nat /\ SenderTasks /= {}

PartsOf(p) == [k \in 1 .. p.parts |-> <<p.id, k>>]
AllParts(ps) == FlattenSeq([i \in 1 .. Len(ps) |-> PartsOf(ps[i])])
Without(s, S) == FlattenSeq([i \in 1 .. Len(s) |-> IF s[i] \in S THEN <<>> ELSE <<s[i]>>])

\* AddressPool::select_socket, the hash of a symbol modulo the sockets.
select_socket(symbol) == symbol % Sockets

SenderInit ==
    /\ sender \in Senders
    /\ handed = <<>>
    /\ rest = [t \in SenderTasks |-> <<>>]
    /\ inbox = <<>> /\ batch = <<>>
    /\ out = [s \in 0 .. Sockets - 1 |-> <<>>]
    /\ dropped = {} /\ late = {}
    /\ closed = FALSE /\ ended = FALSE
    /\ now = 0

-----------------------------------------------------------------------------
(* The network takes the parts on socket s, except those in lost.          *)

Emit(s, parts, lost) ==
    /\ out' = [out EXCEPT ![s] = @ \o Without(parts, lost)]
    /\ dropped' = dropped \cup lost

\* A packet is handed over.  The channel takes it whole, except that send_chunked
\* and send_orderbook_data go part by part.  created_at is the time of the call,
\* ts the timestamp of the exchange.
Hand(t, symbol, parts, ts) ==
    /\ ~closed /\ rest[t] = <<>>
    /\ Len(handed) < MaxPackets /\ now + Window <= MaxTime
    /\ LET p == [id |-> Len(handed) + 1, task |-> t, symbol |-> symbol, parts |-> parts, ts |-> ts, at |-> now] IN
         /\ handed' = Append(handed, p)
         /\ IF sender \in {"buffered", "multi_port"}
              THEN rest' = [rest EXCEPT ![t] = PartsOf(p)] /\ inbox' = inbox
              ELSE inbox' = Append(inbox, p) /\ rest' = rest
    /\ UNCHANGED <<sender, batch, out, dropped, late, closed, ended, now>>

send_chunked(t) ==
    /\ sender = "buffered" /\ rest[t] /= <<>>
    /\ inbox' = Append(inbox, Head(rest[t]))
    /\ rest' = [rest EXCEPT ![t] = Tail(@)]
    /\ UNCHANGED <<sender, handed, batch, out, dropped, late, closed, ended, now>>

\* send_packet takes the lock of the pool for each side; an error of the first
\* returns before the second.
send_orderbook_data(t) ==
    /\ sender = "multi_port" /\ rest[t] /= <<>>
    /\ LET part == Head(rest[t])
           s == select_socket(handed[part[1]].symbol) IN
         \/ Emit(s, <<part>>, {}) /\ rest' = [rest EXCEPT ![t] = Tail(@)]
         \/ /\ dropped' = dropped \cup ToSet(rest[t])
            /\ rest' = [rest EXCEPT ![t] = <<>>]
            /\ out' = out
    /\ UNCHANGED <<sender, handed, inbox, batch, late, closed, ended, now>>

-----------------------------------------------------------------------------
(* What a flush sends.                                                     *)

\* One send after the other, and every one may fail.
SendEach(parts) == \E lost \in SUBSET ToSet(parts) : Emit(0, parts, lost)

flush_binary_packets(ps) == SendEach(AllParts(ps))

\* Mutant: small packets are put in front of those that share their datagram.
FlushInFront(ps) ==
    SendEach(AllParts(IF \A i \in DOMAIN ps : ps[i].parts = 1 THEN Reverse(ps) ELSE ps))

\* Small packets are combined as long as they fit, large ones go chunk by chunk.
flush_packets(ps) == SendEach(AllParts(ps))

\* Mutant: the heap pops the earliest timestamp first, as its comment says.
Earliest(p, q) == p.ts < q.ts \/ (p.ts = q.ts /\ p.id < q.id)

\* The heap pops the latest timestamp first, as long as what it pops is old
\* enough.  (Of equal timestamps it may pop any; here the older packet.)
Newest(p, q) == p.ts > q.ts \/ (p.ts = q.ts /\ p.id < q.id)

Aged(p) == now - p.at >= Window
Ready == {p \in ToSet(batch) : \A q \in ToSet(batch) : ~Aged(q) => Newest(p, q)}

Popped ==
    {ps \in [1 .. Cardinality(Ready) -> Ready] :
        /\ ToSet(ps) = Ready
        /\ \A i, j \in DOMAIN ps : i < j => Newest(ps[i], ps[j])}

\* send_packet of ordered_udp_sender returns at the first chunk that fails.
ordered_send_packet(parts, failed) ==
    {part \in ToSet(parts) : \E f \in failed : f[1] = part[1] /\ f[2] <= part[2]}

-----------------------------------------------------------------------------
(* The loops of the tasks.                                                 *)

\* A packet is received; binary flushes when the batch is full or it is time.
Receive ==
    /\ ~ended /\ inbox /= <<>>
    /\ inbox' = Tail(inbox)
    /\ \/ /\ sender = "binary"
          /\ LET all == Append(batch, Head(inbox)) IN
               \/ Len(all) < BatchSize /\ batch' = all /\ UNCHANGED <<out, dropped>>
               \/ flush_binary_packets(all) /\ batch' = <<>>
       \/ /\ sender \in {"optimized", "ordered"}
          /\ sender = "optimized" => batch = <<>>
          /\ batch' = Append(batch, Head(inbox))
          /\ UNCHANGED <<out, dropped>>
       \/ /\ sender = "buffered"
          /\ SendEach(<<Head(inbox)>>)
          /\ batch' = batch
    /\ UNCHANGED <<sender, handed, rest, late, closed, ended, now>>

\* binary: nothing came for BATCH_TIMEOUT_MICROS.
BinaryTimeout ==
    /\ sender = "binary" /\ ~ended /\ inbox = <<>> /\ batch /= <<>>
    /\ flush_binary_packets(batch)
    /\ batch' = <<>>
    /\ UNCHANGED <<sender, handed, rest, inbox, late, closed, ended, now>>

\* optimized: one packet is taken if it is there, after the one that recv may have
\* waited for; the timeout is 0, so that the batch is flushed at once.
OptimizedFlush ==
    /\ sender = "optimized" /\ ~ended
    /\ \/ inbox = <<>> /\ batch /= <<>> /\ flush_packets(batch) /\ inbox' = inbox
       \/ inbox /= <<>> /\ flush_packets(Append(batch, Head(inbox))) /\ inbox' = Tail(inbox)
    /\ batch' = <<>>
    /\ UNCHANGED <<sender, handed, rest, late, closed, ended, now>>

\* ordered: the timer ticks.
OrderedFlush ==
    /\ sender = "ordered" /\ Ready /= {}
    /\ \E ps \in Popped : \E failed \in SUBSET ToSet(AllParts(ps)) :
         Emit(0, AllParts(ps), ordered_send_packet(AllParts(ps), failed))
    /\ batch' = Without(batch, Ready)
    /\ UNCHANGED <<sender, handed, rest, inbox, late, closed, ended, now>>

\* The channel is closed and empty: binary leaves its loop with what it has.
\* ordered goes on, its timer never lets select! come to the else branch.
Exit ==
    /\ closed /\ ~ended /\ inbox = <<>>
    /\ sender \in {"binary", "optimized", "buffered"}
    /\ sender = "optimized" => batch = <<>>
    /\ ended' = TRUE
    /\ late' = ToSet(AllParts(batch))
    /\ batch' = <<>>
    /\ UNCHANGED <<sender, handed, rest, inbox, out, dropped, closed, now>>

CloseChannel ==
    /\ ~closed /\ \A t \in SenderTasks : rest[t] = <<>>
    /\ closed' = TRUE
    /\ UNCHANGED <<sender, handed, rest, inbox, batch, out, dropped, late, ended, now>>

TimePasses ==
    /\ sender = "ordered" /\ now < MaxTime
    /\ now' = now + 1
    /\ UNCHANGED <<sender, handed, rest, inbox, batch, out, dropped, late, closed, ended>>

SenderStep ==
    \/ Receive \/ BinaryTimeout \/ OptimizedFlush \/ OrderedFlush \/ Exit \/ TimePasses
    \/ \E t \in SenderTasks : send_chunked(t) \/ send_orderbook_data(t)

\* What plays no part in a sender is fixed: tasks and symbols, or timestamps.
Some(senders, S) == IF sender \in senders THEN S ELSE {CHOOSE x \in S : TRUE}

SenderNext ==
    \/ \E t \in Some({"buffered", "multi_port"}, SenderTasks), symbol \in Some({"multi_port"}, 0 .. 1),
         parts \in 1 .. 2, ts \in Some({"ordered"}, 1 .. 2) : Hand(t, symbol, parts, ts)
    \/ CloseChannel
    \/ SenderStep

-----------------------------------------------------------------------------
(* What holds of it.                                                       *)

SenderTypeOK ==
    /\ sender \in Senders
    /\ Len(handed) <= MaxPackets
    /\ Len(batch) <= (IF sender = "binary" THEN BatchSize - 1 ELSE MaxPackets)
    /\ dropped \cup late \subseteq ToSet(AllParts(handed))
    /\ closed \in BOOLEAN /\ ended \in BOOLEAN
    /\ now \in 0 .. MaxTime

Lost == dropped \cup late
Sent == UNION {ToSet(out[s]) : s \in DOMAIN out}

\* What a task of the sender still has to send, and what waits anywhere.
Waiting == IF sender = "buffered" THEN inbox ELSE AllParts(batch \o inbox)
Pending == ToSet(Waiting) \cup UNION {ToSet(rest[t]) : t \in SenderTasks}

\* Part a was handed over before part b.
Before(a, b) == a[1] < b[1] \/ (a[1] = b[1] /\ a[2] < b[2])
Rising(s) == \A i, j \in DOMAIN s : i < j => Before(s[i], s[j])

CallerOf(part) == handed[part[1]].task
RisingByTask(s) == \A i, j \in DOMAIN s : i < j /\ CallerOf(s[i]) = CallerOf(s[j]) => Before(s[i], s[j])

\* Every part that was handed over is sent, or waits, or its send failed or its task
\* ended before, and only one of these; and parts leave in the order in which they
\* were handed over and once: batches, shared datagrams, chunks and full or timed out
\* buffers neither repeat nor swap them.  The chunks of buffered and the sides of
\* multi_port keep the order of each task, and a symbol always uses the same socket.
\* ordered sends nothing twice.
InOrderOnce ==
    /\ Sent \cup Pending = ToSet(AllParts(handed)) \ Lost
    /\ sender \in {"binary", "optimized"} => Rising(out[0] \o Waiting)
    /\ sender = "ordered" => IsInjective(out[0] \o Waiting)
    /\ sender = "buffered" =>
         \A t \in SenderTasks : RisingByTask(out[0] \o Waiting \o rest[t])
    /\ sender = "multi_port" =>
         \A s \in 0 .. Sockets - 1 :
           /\ \A t \in SenderTasks : RisingByTask(out[s] \o rest[t])
           /\ \A part \in ToSet(out[s]) : select_socket(handed[part[1]].symbol) = s

\* Of the packets that one tick of ordered_udp_sender sends a later timestamp
\* goes out before an earlier one.
LatestFirst ==
    [][sender = "ordered" =>
         \A i, j \in Len(out[0]) + 1 .. Len(out'[0]) :
           i < j => handed[out'[0][i][1]].ts >= handed[out'[0][j][1]].ts]_svars

=============================================================================
