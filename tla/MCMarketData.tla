----------------------------- MODULE MCMarketData ------------------------------
(***************************************************************************)
(* Market data on its way from the connections to the readers: what must   *)
(* happen in the feeds (every stream of an exchange is tried, the last     *)
(* book of an exchange is published), and the caches and managers around   *)
(* them.  As in MCPlatform a behaviour runs one of the components.         *)
(*                                                                         *)
(* Fairness is that of the runtime: the loop of an exchange and the tasks  *)
(* of a stream and of a builder go on when they can.  Nothing is assumed   *)
(* of the exchange, of the network or of what a connection comes to.       *)
(***************************************************************************)
EXTENDS ExchangeFeed, FeedMessages, MarketCache, Nbbo,
        L2Engine, ConnectionControl

VARIABLE part    \* the component that runs in this behaviour

vars == <<part, fvars, mvars, cvars, nvars, evars, rcvars, uvars, pmvars>>

Parts == {"feed", "messages", "cache", "nbbo", "engine", "robust",
          "unified", "pool"}

Init ==
    /\ part \in Parts
    /\ FeedInit /\ (part /= "feed" => feedOf = CHOOSE e \in FeedExchanges : TRUE)
    /\ MsgInit /\ (part /= "messages" => msgOf = (CHOOSE e \in MsgExchanges : TRUE) /\ venue = Empty)
    /\ CacheInit
    /\ NbboInit
    /\ EngineInit
    /\ RobustInit
    /\ UnifiedInit
    /\ PoolInit

\* The other components stay in their initial states.
Only(p) ==
    /\ part = p /\ part' = part
    /\ IF p = "feed" THEN TRUE ELSE UNCHANGED fvars
    /\ IF p = "messages" THEN TRUE ELSE UNCHANGED mvars
    /\ IF p = "cache" THEN TRUE ELSE UNCHANGED cvars
    /\ IF p = "nbbo" THEN TRUE ELSE UNCHANGED nvars
    /\ IF p = "engine" THEN TRUE ELSE UNCHANGED evars
    /\ IF p = "robust" THEN TRUE ELSE UNCHANGED rcvars
    /\ IF p = "unified" THEN TRUE ELSE UNCHANGED uvars
    /\ IF p = "pool" THEN TRUE ELSE UNCHANGED pmvars

Next ==
    \/ Only("feed") /\ FeedNext
    \/ Only("messages") /\ MsgNext
    \/ Only("cache") /\ CacheNext
    \/ Only("nbbo") /\ NbboNext
    \/ Only("engine") /\ EngineNext
    \/ Only("robust") /\ RobustNext
    \/ Only("unified") /\ UnifiedNext
    \/ Only("pool") /\ PoolNext

Fairness ==
    /\ WF_fvars(part = "feed" /\ FeedLoop)
    /\ WF_mvars(part = "messages" /\ Process)
    /\ WF_mvars(part = "messages" /\ Build)

Spec == Init /\ [][Next]_vars /\ Fairness

\* The variables of the component that runs have their types.
MarketDataTypeOK ==
    /\ part \in Parts
    /\ part = "feed" => FeedTypeOK
    /\ part = "messages" => MsgTypeOK
    /\ part = "cache" => CacheTypeOK
    /\ part = "nbbo" => NbboTypeOK
    /\ part = "engine" => EngineTypeOK
    /\ part = "robust" => RobustTypeOK
    /\ part = "unified" => UnifiedTypeOK
    /\ part = "pool" => PoolTypeOK

================================================================================
