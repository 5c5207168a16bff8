------------------------------ MODULE StockFeed ------------------------------
(***************************************************************************)
(* The two stock feeds of LS Securities, LSExchange (ls_ws.rs) and         *)
(* LSEnhancedExchange (ls_enhanced.rs), as their caller runs one: connect, *)
(* subscribe, start, each only after the one before it succeeded.  start   *)
(* reconnects by calling the three again.                                  *)
(*                                                                         *)
(* Time runs in steps of the delay between two subscription requests.  An  *)
(* access token is valid for Lifetime of them; LSEnhancedExchange renews   *)
(* it Margin before its end (60 s), LSExchange only when it connects.      *)
(***************************************************************************)
EXTENDS Naturals, FiniteSets

CONSTANTS
    StockFeeds,        \* "LS", "LS_Enhanced"
    Lifetime, Margin,
    Requests,          \* subscription requests of LSEnhancedExchange
    MaxStreams         \* bound: WebSockets of a behaviour

\* A token is valid for longer than it is kept before its end.
ASSUME StockAssumption == {Lifetime, Margin} \subseteq Nat /\ Margin <= Lifetime /\ Requests \in Nat \ {0}

VARIABLES
    stock,          \* the feed
    stockAt,        \* where it is
    left,           \* how long the access token is still valid
    wsStream,       \* ws_stream is Some
    requested,      \* requests sent on the WebSocket
    tooLate,        \* those of them that were sent with an expired token
    reconnectCount, \* reconnect_count
    wsStats,        \* its entry of CONNECTION_STATS
    leaked,         \* streams that start left by an early return
    lastOut         \* what the last message made it publish

tvars == <<stock, stockAt, left, wsStream, requested, tooLate, reconnectCount, wsStats, leaked, lastOut>>

Stages == {"connect", "websocket", "fetch", "subscribe", "send", "start", "reading", "lost", "returned"}

-----------------------------------------------------------------------------
(* The handlers: which field of the body names the symbol, what it         *)
(* publishes, and whether it takes values that are strings.                *)

LS_handle_stock_price == [field |-> "shcode", kind |-> "book", strings |-> TRUE]
LS_handle_stock_trade == [field |-> "shcode", kind |-> "trade", strings |-> FALSE]
LS_handle_futures_price == LS_handle_stock_price
LS_handle_futures_trade == LS_handle_stock_trade

handle_stock_etf_price == [field |-> "shcode", kind |-> "trade", strings |-> FALSE]
handle_stock_etf_quote == [field |-> "shcode", kind |-> "book", strings |-> FALSE]
handle_futures_price == [field |-> "futcode", kind |-> "trade", strings |-> FALSE]
handle_futures_quote == handle_stock_etf_quote
handle_futures_open_interest == [field |-> "futcode", kind |-> "nothing", strings |-> FALSE]
handle_options_price == [field |-> "optcode", kind |-> "trade", strings |-> FALSE]
handle_options_quote == handle_stock_etf_quote
handle_options_open_interest == [field |-> "optcode", kind |-> "nothing", strings |-> FALSE]
handle_overseas_futures == [field |-> "symbol", kind |-> "trade", strings |-> FALSE]

process_message ==
    [S3_ |-> LS_handle_stock_price, H1_ |-> LS_handle_stock_trade,
     JC0 |-> LS_handle_futures_price, JH0 |-> LS_handle_futures_trade]

process_enhanced_message ==
    [S3_ |-> handle_stock_etf_price, H1_ |-> handle_stock_etf_quote,
     FC_ |-> handle_futures_price, FH_ |-> handle_futures_quote, FO_ |-> handle_futures_open_interest,
     OC_ |-> handle_options_price, OH_ |-> handle_options_quote, OO_ |-> handle_options_open_interest,
     OF_ |-> handle_overseas_futures]

Handlers == IF stock = "LS" THEN process_message ELSE process_enhanced_message

\* The messages: per code the field that names the symbol; values are strings.
SymbolField(code) ==
    CASE code \in {"S3_", "H1_", "JC0", "JH0"} -> "shcode" [] code \in {"FC_", "FH_", "FO_"} -> "futcode"
      [] code \in {"OC_", "OH_", "OO_"} -> "optcode" [] code = "OF_" -> "symbol"

-----------------------------------------------------------------------------
Silent == [code |-> "none", kind |-> "nothing", named |-> FALSE, priced |-> FALSE]

create_subscription == 1    \* all requests in one message
create_enhanced_subscription == Requests
ToSend == IF stock = "LS" THEN create_subscription ELSE create_enhanced_subscription

reconnect_limit == IF stock = "LS" THEN 5 ELSE 10

StockInit ==
    /\ stock \in StockFeeds
    /\ stockAt = "connect"
    /\ left = 0 /\ wsStream = FALSE /\ requested = 0 /\ tooLate = 0
    /\ reconnectCount = 0
    /\ wsStats = [connected |-> 0, disconnected |-> 0, total |-> 0] /\ leaked = 0
    /\ lastOut = Silent

\* connect: a new token ...
authenticate ==
    /\ stockAt = "connect" /\ wsStats.total < MaxStreams
    /\ left' = Lifetime
    /\ stockAt' = "websocket"
    /\ UNCHANGED <<stock, wsStream, requested, tooLate, reconnectCount, wsStats, leaked, lastOut>>

\* ... and a WebSocket, which replaces what was in ws_stream.
connect_websocket ==
    /\ stockAt = "websocket"
    /\ wsStream' = TRUE /\ requested' = 0 /\ tooLate' = 0
    /\ stockAt' = IF stock = "LS" THEN "subscribe" ELSE "fetch"
    /\ UNCHANGED <<stock, left, reconnectCount, wsStats, leaked, lastOut>>

\* Mutant: a token is replaced when it has expired.
CheckWithoutMargin == left' = IF stock = "LS_Enhanced" /\ left = 0 THEN Lifetime ELSE left

\* A token that has Margin or less to go is replaced before it is used.
check_token_validity == left' = IF stock = "LS_Enhanced" /\ left <= Margin THEN Lifetime ELSE left

\* The five requests for master data; if there are no symbols there are none.
fetch_all_master_data ==
    /\ stockAt = "fetch"
    /\ check_token_validity
    /\ stockAt' = "subscribe"
    /\ UNCHANGED <<stock, wsStream, requested, tooLate, reconnectCount, wsStats, leaked, lastOut>>

\* subscribe takes the stream out of ws_stream and sends on it.
subscribe ==
    /\ stockAt = "subscribe" /\ wsStream
    /\ check_token_validity
    /\ wsStream' = FALSE
    /\ stockAt' = "send"
    /\ UNCHANGED <<stock, requested, tooLate, reconnectCount, wsStats, leaked, lastOut>>

\* One request; the last one puts the stream back and, inside start, ends the
\* reconnection, which resets the counter of LSEnhancedExchange only.
SendRequest ==
    /\ stockAt = "send"
    /\ requested' = requested + 1
    /\ tooLate' = tooLate + (IF left = 0 THEN 1 ELSE 0)
    /\ left' = IF left > 0 THEN left - 1 ELSE 0
    /\ IF requested' = ToSend
         THEN /\ stockAt' = "start" /\ wsStream' = TRUE
              /\ reconnectCount' = IF stock = "LS_Enhanced" THEN 0 ELSE reconnectCount
         ELSE UNCHANGED <<stockAt, wsStream, reconnectCount>>
    /\ UNCHANGED <<stock, wsStats, leaked, lastOut>>

\* Any of these fails, and so does its caller.
CallFails ==
    /\ stockAt \in {"connect", "websocket", "fetch", "subscribe", "send"}
    /\ stockAt' = "returned"
    /\ UNCHANGED <<stock, left, wsStream, requested, tooLate, reconnectCount, wsStats, leaked, lastOut>>

ls_start ==
    /\ stockAt = "start" /\ wsStream
    /\ wsStream' = FALSE
    /\ wsStats' = [wsStats EXCEPT !.connected = @ + 1, !.total = @ + 1]
    /\ stockAt' = "reading"
    /\ UNCHANGED <<stock, left, requested, tooLate, reconnectCount, leaked, lastOut>>

\* A message: a field that is not there, or a value that is not of the type asked
\* for, becomes "" or 0.
HandleMessage(code) ==
    /\ stockAt = "reading" /\ code \in DOMAIN Handlers
    /\ LET h == Handlers[code] IN
       lastOut' = [code |-> code, kind |-> h.kind, named |-> h.field = SymbolField(code), priced |-> h.strings]
    /\ UNCHANGED <<stock, stockAt, left, wsStream, requested, tooLate, reconnectCount, wsStats, leaked>>

\* A pong or, every 30 s, a ping of LSEnhancedExchange cannot be sent: the ? leaves
\* start at once.  A stream that ended without a Close or an error ends this way there.
SendFails ==
    /\ stockAt = "reading"
    /\ leaked' = leaked + 1
    /\ stockAt' = "returned"
    /\ UNCHANGED <<stock, left, wsStream, requested, tooLate, reconnectCount, wsStats, lastOut>>

\* Close or an error, and for LSExchange the end of the stream.
StreamLost ==
    /\ stockAt = "reading"
    /\ wsStats' = [wsStats EXCEPT !.connected = IF @ > 0 THEN @ - 1 ELSE 0, !.disconnected = @ + 1]
    /\ stockAt' = "lost"
    /\ UNCHANGED <<stock, left, wsStream, requested, tooLate, reconnectCount, leaked, lastOut>>

TryAgain ==
    /\ stockAt = "lost"
    /\ IF reconnectCount < reconnect_limit
         THEN reconnectCount' = reconnectCount + 1 /\ stockAt' = "connect"
         ELSE reconnectCount' = reconnectCount /\ stockAt' = "returned"
    /\ UNCHANGED <<stock, left, wsStream, requested, tooLate, wsStats, leaked, lastOut>>

\* Master data takes its time, and a stream is read for a long time.
TokenAges ==
    /\ left > 0 /\ stockAt \in {"fetch", "subscribe", "reading"}
    /\ left' = left - 1
    /\ UNCHANGED <<stock, stockAt, wsStream, requested, tooLate, reconnectCount, wsStats, leaked, lastOut>>

StockNext ==
    \/ authenticate \/ connect_websocket \/ fetch_all_master_data \/ subscribe \/ SendRequest \/ CallFails
    \/ ls_start \/ SendFails \/ StreamLost \/ TryAgain \/ TokenAges
    \/ \E code \in DOMAIN process_message \cup DOMAIN process_enhanced_message : HandleMessage(code)

-----------------------------------------------------------------------------
(* What holds of it.                                                       *)

StockTypeOK ==
    /\ stock \in StockFeeds /\ stockAt \in Stages
    /\ left \in 0 .. Lifetime
    /\ wsStream \in BOOLEAN
    /\ requested \in 0 .. ToSend /\ tooLate \in 0 .. requested
    /\ reconnectCount \in 0 .. reconnect_limit
    /\ wsStats \in [{"connected", "disconnected", "total"} -> Nat] /\ leaked \in Nat

\* However often start has reconnected, a stream that is read had all its requests
\* sent on it, on this stream and not on one it replaced.  LSEnhancedExchange
\* sends the first Margin of them with a token that is valid, however long the master
\* data took: what checks the token is subscribe, not connect.  The statistics
\* show the stream, beside those that a failed ping left there.  Of the ten
\* reconnections that LSEnhancedExchange allows itself it never makes a second: a
\* failed one ends start, and a successful one begins the count again.
ReadIsSubscribed ==
    /\ stockAt = "reading" => requested = ToSend
    /\ stock = "LS_Enhanced" /\ stockAt \in {"send", "start", "reading"} =>
         tooLate <= (IF requested > Margin THEN requested - Margin ELSE 0)
    /\ wsStats.connected = leaked + (IF stockAt = "reading" THEN 1 ELSE 0)
    /\ stock = "LS_Enhanced" => reconnectCount <= 1

=============================================================================
