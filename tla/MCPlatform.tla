------------------------------ MODULE MCPlatform -------------------------------
(***************************************************************************)
(* The components around the order books, each with small constants.  They *)
(* share no state, so that a behaviour runs one of them, part, and leaves  *)
(* the others in an initial state: the checks are those of separate        *)
(* models, and the state space is the sum of theirs.                       *)
(***************************************************************************)
EXTENDS ExchangeFeed, FeedMessages, PacketSenders, PacketReceivers,
        BookManager, BookPersistence, OrderManagement, MarketMaker,
        OperationalLog, FeederProcess, StockFeed, MarketStorage,
        TraceAnalyzers, BinaryPackets

VARIABLE part    \* the component that runs in this behaviour

vars == <<part, fvars, mvars, svars, rvars, bvars, pvars, ovars, kvars, lvars,
          hvars, tvars, dvars, xvars, wvars, gvars, avars, yvars>>

\* Datagrams of two streams whose timestamps go back by little and by much.
MCTracedPackets ==
    {[key |-> "a", stamp |-> 0], [key |-> "a", stamp |-> 5], [key |-> "a", stamp |-> 2000],
     [key |-> "b", stamp |-> 1]}

\* The configuration of the router while another component runs.
AllRouted ==
    [symbols |-> {}, exchanges |-> {}, enable_all_symbols |-> TRUE, derivatives |-> TRUE, etf |-> TRUE,
     asset_types |-> {}, trade |-> "QuestDB", orderbook |-> "QuestDB", metadata |-> "QuestDB"]

Parts == {"feed", "messages", "senders", "receivers", "manager", "persistence",
          "oms", "maker", "log", "process", "stock", "kdb",
          "router", "database", "writer", "tracing", "binary"}

Init ==
    /\ part \in Parts
    /\ FeedInit /\ (part /= "feed" => feedOf = CHOOSE e \in FeedExchanges : TRUE)
    /\ MsgInit /\ (part /= "messages" => msgOf = (CHOOSE e \in MsgExchanges : TRUE) /\ venue = Empty)
    /\ SenderInit /\ (part /= "senders" => sender = CHOOSE s \in Senders : TRUE)
    /\ RxInit
    /\ ManagerInit
    /\ PersistInit
    /\ OmsInit
    /\ MakerInit
    /\ LogInit
    /\ ProcessInit /\ (part /= "process" => binary = CHOOSE b \in Binaries : TRUE)
    /\ StockInit /\ (part /= "stock" => stock = CHOOSE s \in StockFeeds : TRUE)
    /\ KdbInit
    /\ RouterInit /\ (part /= "router" => flow_config = AllRouted)
    /\ DatabaseInit
    /\ WriterInit
    /\ TraceInit /\ (part /= "tracing" => tapped = FALSE)
    /\ BinaryInit

\* The other components stay in their initial states.
Only(p) ==
    /\ part = p /\ part' = part
    /\ IF p = "feed" THEN TRUE ELSE UNCHANGED fvars
    /\ IF p = "messages" THEN TRUE ELSE UNCHANGED mvars
    /\ IF p = "senders" THEN TRUE ELSE UNCHANGED svars
    /\ IF p = "receivers" THEN TRUE ELSE UNCHANGED rvars
    /\ IF p = "manager" THEN TRUE ELSE UNCHANGED bvars
    /\ IF p = "persistence" THEN TRUE ELSE UNCHANGED pvars
    /\ IF p = "oms" THEN TRUE ELSE UNCHANGED ovars
    /\ IF p = "maker" THEN TRUE ELSE UNCHANGED kvars
    /\ IF p = "log" THEN TRUE ELSE UNCHANGED lvars
    /\ IF p = "process" THEN TRUE ELSE UNCHANGED hvars
    /\ IF p = "stock" THEN TRUE ELSE UNCHANGED tvars
    /\ IF p = "kdb" THEN TRUE ELSE UNCHANGED dvars
    /\ IF p = "router" THEN TRUE ELSE UNCHANGED xvars
    /\ IF p = "database" THEN TRUE ELSE UNCHANGED wvars
    /\ IF p = "writer" THEN TRUE ELSE UNCHANGED gvars
    /\ IF p = "tracing" THEN TRUE ELSE UNCHANGED avars
    /\ IF p = "binary" THEN TRUE ELSE UNCHANGED yvars

Next ==
    \/ Only("feed") /\ FeedNext
    \/ Only("messages") /\ MsgNext
    \/ Only("senders") /\ SenderNext
    \/ Only("receivers") /\ RxNext
    \/ Only("manager") /\ ManagerNext
    \/ Only("persistence") /\ PersistNext
    \/ Only("oms") /\ OmsNext
    \/ Only("maker") /\ MakerNext
    \/ Only("log") /\ LogNext
    \/ Only("process") /\ ProcessNext
    \/ Only("stock") /\ StockNext
    \/ Only("kdb") /\ KdbNext
    \/ Only("router") /\ RouterNext
    \/ Only("database") /\ DatabaseNext
    \/ Only("writer") /\ WriterNext
    \/ Only("tracing") /\ TraceNext
    \/ Only("binary") /\ BinaryNext

Spec == Init /\ [][Next]_vars

\* The variables of the component that runs have their types.
PlatformTypeOK ==
    /\ part \in Parts
    /\ part = "feed" => FeedTypeOK
    /\ part = "messages" => MsgTypeOK
    /\ part = "senders" => SenderTypeOK
    /\ part = "receivers" => RxTypeOK
    /\ part = "manager" => ManagerTypeOK
    /\ part = "persistence" => PersistTypeOK
    /\ part = "oms" => OmsTypeOK
    /\ part = "maker" => MakerTypeOK
    /\ part = "log" => LogTypeOK
    /\ part = "process" => ProcessTypeOK
    /\ part = "stock" => StockTypeOK
    /\ part = "kdb" => KdbTypeOK
    /\ part = "router" => RouterTypeOK
    /\ part = "database" => DatabaseTypeOK
    /\ part = "writer" => WriterTypeOK
    /\ part = "tracing" => TraceTypeOK
    /\ part = "binary" => BinaryTypeOK

\* What the platform believes of its money and its orders is so: the order manager
\* of the profit and the exposure (LedgerBalances), the market maker of the orders
\* it has at the exchange (OrdersKnown).
AccountsAgree ==
    /\ part = "oms" => LedgerBalances
    /\ part = "maker" => OrdersKnown

\* Nothing is lost on its way into storage: an entry of the operational log stays
\* in its buffer until a flush has written it (AtLeastOnce), a row of the kdb client
\* until a statement has taken it (KdbKeeps), and the QuestDB log writer hands
\* everything over once and in order (LogsInOrder).
KeptUntilTaken ==
    /\ part = "log" => AtLeastOnce
    /\ part = "kdb" => KdbKeeps
    /\ part = "writer" => LogsInOrder

\* What the receiving side says of its packets is so: the validator blames the
\* network or the source rightly (BlameIsDeserved), the tools that look for
\* inversions count the same ones (TracesAgree), and udp_monitor reads of a binary
\* packet what was put into it, as far as it fits (BinaryReadsBack).
ReceiversAgree ==
    /\ part = "receivers" => BlameIsDeserved
    /\ part = "tracing" => TracesAgree
    /\ part = "binary" => BinaryReadsBack

================================================================================
