--------------------------- MODULE ServicesProofs ---------------------------
(***************************************************************************)
(* The composition of the services run.  A behaviour of it is a behaviour  *)
(* of every one of its components, so that what is proved of a component   *)
(* holds in the run as well.                                               *)
(***************************************************************************)
EXTENDS MCServices, ClientProofs, DeliveryProofs, PlatformProofs

-----------------------------------------------------------------------------
(* Types of the components that their invariants leave out or imply. *)

\* What of a session the argument about its chain does not need.
RestOfAuth ==
    /\ recent \subseteq Tokens /\ replayed \subseteq Tokens /\ alarms \subseteq Tokens
    /\ tab \in [Tabs -> {"idle", "queued", "sent"}]
    /\ aborts \in Nat /\ lost \in Nat /\ aborts + lost <= MaxAuthFaults

\* A request in flight presents a token.
LEMMA PresentsToken ==
    ASSUME ChainInv, NEW r \in InFlight
    PROVE  request[r].token \in Tokens /\ request[r] \in Request
BY DEF ChainInv, NoDangling, SessionTypes, UsedTokens, InFlight

LEMMA RestOfAuthStep ==
    ASSUME ChainInv, RestOfAuth, [AuthNext]_authVars
    PROVE  RestOfAuth'
<1>a. MaxAuthFaults \in Nat
  BY AuthAssumption
<1>1. CASE UNCHANGED authVars
  BY <1>1 DEF authVars, RestOfAuth
<1>2. ASSUME NEW i \in Tabs, StartRefresh(i) \/ SendRefresh(i) PROVE RestOfAuth'
  BY <1>2 DEF StartRefresh, SendRefresh, RestOfAuth
<1>3. CASE SendLogout \/ Login
  BY <1>3 DEF SendLogout, Login, RestOfAuth
<1>4. ASSUME NEW r \in Requests, Answer(r) PROVE RestOfAuth'
  BY <1>4 DEF Answer, RestOfAuth
<1>5. ASSUME NEW r \in Requests, Lose(r) PROVE RestOfAuth'
  BY <1>a, <1>5 DEF Lose, RestOfAuth
<1>6. ASSUME NEW r \in Requests, TxRefused(r) PROVE RestOfAuth'
  BY <1>a, <1>6 DEF TxRefused, RestOfAuth
<1>7. ASSUME NEW r \in Requests, Serve(r) PROVE RestOfAuth'
  <2>1. request[r].token \in Tokens
    <3>1. r \in InFlight
      BY <1>7 DEF Serve, TxSelect, TxWake, TxRotate, TxReplay, TxTheft, Logout, InFlight
    <3> QED BY <3>1, PresentsToken
  <2>2. CASE TxSelect(r) \/ TxWake(r)
    BY <2>2 DEF TxSelect, TxWake, RestOfAuth
  <2>3. CASE TxRotate(r) \/ TxReplay(r) \/ Logout(r)
    BY <2>1, <2>3 DEF TxRotate, TxReplay, Logout, RestOfAuth
  <2>4. CASE TxTheft(r)
    BY <2>1, <2>4 DEF TxTheft, Family, RestOfAuth
  <2> QED BY <1>7, <2>2, <2>3, <2>4 DEF Serve
<1>8. ASSUME NEW t \in Tokens, GraceEnds(t) PROVE RestOfAuth'
  BY <1>8 DEF GraceEnds, RestOfAuth
<1> QED BY <1>1, <1>2, <1>3, <1>4, <1>5, <1>6, <1>7, <1>8 DEF AuthNext

\* The types of a session, of tabs and their requests.
LEMMA AuthTypes == AuthSpec => []AuthTypeOK
<1>1. AuthInit => RestOfAuth
  <2>1. MaxAuthFaults \in Nat
    BY AuthAssumption
  <2> QED BY <2>1 DEF AuthInit, RestOfAuth
<1>2. ChainInv /\ RestOfAuth => AuthTypeOK
  BY DEF ChainInv, SessionTypes, RestOfAuth, AuthTypeOK
<1>3. ChainInv /\ RestOfAuth /\ [AuthNext]_authVars => RestOfAuth'
  BY RestOfAuthStep
<1> QED BY <1>1, <1>2, <1>3, ChainAlways, PTL DEF AuthSpec

\* The types of the agent's runs and their page.
LEMMA AgentTypes == AgentSpec => []AgentTypeOK
<1>1. AgentInv => AgentTypeOK
  BY DEF AgentInv, AgentShape, Page, Transcript, AgentTypeOK
<1> QED BY <1>1, AgentInitial, AgentStep, PTL DEF AgentSpec

\* The types of the others are a part of what was proved of each.
LEMMA GateTypes == GateSpec => []GateTypeOK
<1>1. GateInv => GateTypeOK
  BY DEF GateInv
<1> QED BY <1>1, GateInitial, GateStep, PTL DEF GateSpec

LEMMA SyncTypes == SyncSpec => []SyncTypeOK
<1>1. SyncInv => SyncTypeOK
  BY DEF SyncInv
<1> QED BY <1>1, SyncInitial, SyncStepInv, PTL DEF SyncSpec

LEMMA WatcherTypes == WatcherSpec => []WatcherTypeOK
<1>1. WatcherInv => WatcherTypeOK
  BY DEF WatcherInv
<1> QED BY <1>1, WatcherInitial, WatcherStep, PTL DEF WatcherSpec

LEMMA OutboxTypes == OutboxSpec => []OutboxTypeOK
<1>1. OutboxInv => OutboxTypeOK
  BY DEF OutboxInv
<1> QED BY <1>1, OutboxInitial, OutboxStep, PTL DEF OutboxSpec

LEMMA AlertTypes == AlertSpec => []AlertTypeOK
<1>1. AlertInv => AlertTypeOK
  BY DEF AlertInv
<1> QED BY <1>1, AlertInitial, AlertStep, PTL DEF AlertSpec

LEMMA PagesTypes == PagesSpec => []PagesTypeOK
<1>1. PagesOK => PagesTypeOK
  BY DEF PagesOK
<1>2. PagesOK /\ [PagesNext]_pageVars => PagesOK'
  BY PagesStep
<1> QED BY <1>1, <1>2, PagesInitial, PTL DEF PagesSpec

-----------------------------------------------------------------------------
(* The composition. *)

\* A step of the composition is one of a component, or none of it.
LEMMA StepOfEach ==
    ASSUME [ServicesNext]_ServicesVars
    PROVE  /\ [GateNext]_gateVars /\ [SyncNext]_syncVars /\ [WatcherNext]_watcherVars
           /\ [AuthNext]_authVars /\ [OutboxNext]_outboxVars /\ [AlertNext]_alertVars
           /\ [AgentNext]_agentVars /\ [LogNext]_logVars /\ [PagesNext]_pageVars
           /\ focus' = focus
BY DEF ServicesNext, ServicesVars, Only

(* A behaviour of the composition is one of each component, whichever it is  *)
(* about: the components share no state, and none is changed by the steps of *)
(* another.                                                                  *)
THEOREM ServicesImplementEach ==
    ServicesSpec => /\ GateSpec /\ SyncSpec /\ WatcherSpec /\ AuthSpec /\ OutboxSpec
                    /\ AlertSpec /\ AgentSpec /\ LogSpec /\ PagesSpec
<1>1. ServicesInit => /\ GateInit /\ SyncInit /\ WatcherInit /\ AuthInit /\ OutboxInit
                      /\ AlertInit /\ AgentInit /\ LogInit /\ PagesInit
  BY DEF ServicesInit
<1>2. [ServicesNext]_ServicesVars =>
         /\ [GateNext]_gateVars /\ [SyncNext]_syncVars /\ [WatcherNext]_watcherVars
         /\ [AuthNext]_authVars /\ [OutboxNext]_outboxVars /\ [AlertNext]_alertVars
         /\ [AgentNext]_agentVars /\ [LogNext]_logVars /\ [PagesNext]_pageVars
  BY StepOfEach
<1> QED BY <1>1, <1>2, PTL DEF ServicesSpec, GateSpec, SyncSpec, WatcherSpec, AuthSpec, OutboxSpec,
                               AlertSpec, AgentSpec, LogSpec, PagesSpec

(* The types of all components, in the composition. *)
THEOREM ServicesTypeCorrect ==
    ASSUME FocusSet \subseteq Components
    PROVE  ServicesSpec => []ServicesTypeOK
<1>1. ServicesInit => focus \in Components
  BY DEF ServicesInit
<1>2. focus \in Components /\ [ServicesNext]_ServicesVars => (focus \in Components)'
  BY StepOfEach
<1>3. ServicesSpec => [](focus \in Components)
  BY <1>1, <1>2, PTL DEF ServicesSpec
<1>4. /\ focus \in Components
      /\ GateTypeOK /\ SyncTypeOK /\ WatcherTypeOK /\ AuthTypeOK /\ OutboxTypeOK
      /\ AlertTypeOK /\ AgentTypeOK /\ LogTypeOK /\ PagesTypeOK
      => ServicesTypeOK
  BY DEF ServicesTypeOK
<1> QED BY <1>3, <1>4, ServicesImplementEach, GateTypes, SyncTypes, WatcherTypes, AuthTypes, OutboxTypes,
           AlertTypes, AgentTypes, LogTypeCorrect, PagesTypes, PTL

(* The regression check grows with the change wherever the run evaluates it. *)
THEOREM RegressionAlwaysGrows == ServicesSpec => []RegressionGrows
<1>1. RegressionGrows
  BY VerdictAlwaysGrows DEF RegressionGrows
<1> QED BY <1>1, PTL
=============================================================================
