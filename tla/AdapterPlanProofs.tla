-------------------------- MODULE AdapterPlanProofs --------------------------
(* Theorems about adapter planning, for all configurations and dispatches.  *)
EXTENDS AdapterPlan, SequenceTheorems, TLAPS

(* The invariant: the daemon's capabilities are those of its configuration, *)
(* and the plan that was just made is authorised by it.                     *)
Discovered == config \in Configs /\ capabilities = discover(config)

PlanInv == Discovered /\ PlanIsAuthorised

(* A job that passes and needs an adapter has found an entry with its id.  *)
LEMMA PassingFindsEntry ==
    ASSUME NEW d, NEW caps, NEW flags, Passes(d, caps, flags),
           d.adapter \notin {"Noop", "Echo"}
    PROVE  \E n \in DOMAIN Advertised(d.adapter, caps) :
              /\ d.adapter_id = {Advertised(d.adapter, caps)[n].id}
              /\ \A m \in 1..(n - 1) : d.adapter_id # {Advertised(d.adapter, caps)[m].id}
              /\ Advertised(d.adapter, caps)[n] \in Lookup(d, caps)
<1>1. ~Refuses("MissingCapability", d, caps, flags)
  <2>1. 1 \in DOMAIN CheckOrder /\ CheckOrder[1] = "MissingCapability"
    BY DEF CheckOrder
  <2> QED BY <2>1 DEF Passes
<1>2. Lookup(d, caps) # {}
  BY <1>1 DEF Refuses, GateRefuses
<1> QED BY <1>2 DEF Lookup, Found

(* None of the checks refuses a job that passes. *)
LEMMA PassingIsRefusedByNone ==
    ASSUME NEW d, NEW caps, NEW flags, Passes(d, caps, flags)
    PROVE  /\ ~Refuses("feature_flag_disabled", d, caps, flags)
           /\ ~Refuses("policy_capability_not_allowed", d, caps, flags)
           /\ ~Refuses("unsupported_isolation_mode", d, caps, flags)
           /\ ~Refuses("unsupported_network_mode", d, caps, flags)
           /\ ~Refuses("MalformedResult", d, caps, flags)
           /\ ~Refuses("command_arg_not_allowlisted", d, caps, flags)
           /\ ~Refuses("env_not_allowlisted", d, caps, flags)
<1>1. /\ DOMAIN CheckOrder = 1..8
      /\ CheckOrder[2] = "feature_flag_disabled"
      /\ CheckOrder[3] = "policy_capability_not_allowed"
      /\ CheckOrder[4] = "unsupported_isolation_mode"
      /\ CheckOrder[5] = "unsupported_network_mode"
      /\ CheckOrder[6] = "MalformedResult"
      /\ CheckOrder[7] = "command_arg_not_allowlisted"
      /\ CheckOrder[8] = "env_not_allowlisted"
  BY DEF CheckOrder
<1>2. \A n \in 2..8 : ~Refuses(CheckOrder[n], d, caps, flags)
  BY <1>1 DEF Passes
<1> HIDE DEF Refuses
<1> QED BY <1>1, <1>2

(* The entry a passing job found permits it: each boundary that holds for  *)
(* the entry was checked on it.                                            *)
LEMMA PassingIsPermitted ==
    ASSUME NEW d, NEW caps, NEW flags, Passes(d, caps, flags),
           d.adapter \notin {"Noop", "Echo"}, NEW k \in Nat,
           DOMAIN Advertised(d.adapter, caps) = 1..k
    PROVE  \E n \in DOMAIN Advertised(d.adapter, caps) :
              /\ Permits(Advertised(d.adapter, caps), n, d)
              /\ PlannedId(d, caps) = Advertised(d.adapter, caps)[n].id
<1> DEFINE list == Advertised(d.adapter, caps)
<1>1. PICK n \in DOMAIN list :
         /\ d.adapter_id = {list[n].id}
         /\ \A m \in 1..(n - 1) : d.adapter_id # {list[m].id}
         /\ list[n] \in Lookup(d, caps)
  BY PassingFindsEntry
<1> HIDE DEF list
<1>2. \A m \in DOMAIN list : m < n => list[m].id # list[n].id
  BY <1>1 DEF list
<1>3. d.adapter \in ExternalAgent =>
         /\ d.root_strategy \in list[n].supported_isolation_modes
         /\ d.network_mode \in list[n].supported_network_modes
  BY <1>1, PassingIsRefusedByNone DEF Refuses, GateRefuses
<1>4. d.adapter = "AllowlistedCommand" =>
         /\ d.args \subseteq list[n].allowed_args
         /\ d.allowed_env \subseteq list[n].allowed_env
  BY <1>1, PassingIsRefusedByNone DEF Refuses, GateRefuses, EnvRefuses
<1>5. PlannedId(d, caps) = list[n].id
  BY <1>1 DEF PlannedId
<1>6. Permits(list, n, d)
  BY <1>1, <1>2, <1>3, <1>4 DEF Permits
<1> QED BY <1>5, <1>6 DEF list

(* A plan made from the capabilities of a configuration is authorised by   *)
(* that configuration.                                                     *)
LEMMA PlanStep ==
    ASSUME Discovered, NEW d \in Dispatches, plan_ok(d)
    PROVE  PlanIsAuthorised'
<1> DEFINE id == PlannedId(d, capabilities)
<1>1. /\ decision' = [outcome |-> "Ok", dispatch |-> d, adapter_id |-> id]
      /\ config' = config
      /\ Passes(d, capabilities, config.feature_flags)
  BY DEF plan_ok
<1> HIDE DEF id
<1>2. decision'.dispatch = d /\ decision'.adapter_id = id
  BY <1>1
<1>3. d.adapter \in AdapterKind
  BY DispatchesAssumption DEF Dispatch
<1>4. CASE d.adapter = "Noop"
  BY <1>1, <1>2, <1>4 DEF PlanIsAuthorised, id, PlannedId
<1>5. CASE d.adapter = "Echo"
  BY <1>1, <1>2, <1>5 DEF PlanIsAuthorised, id, PlannedId
<1>6. CASE d.adapter \in LocalLlm
  <2>1. Advertised(d.adapter, capabilities) = config.local_llm_endpoints
    BY <1>6 DEF Discovered, discover, Advertised, LocalLlm, ExternalAgent
  <2>2. config.local_llm_endpoints \in Seq([id : AdapterIds])
    BY ConfigsAssumption DEF Discovered, Config
  <2>3. config.feature_flags["local_llm_enabled"]
        /\ "remote.local_llm_exposure" \in d.allowed_capabilities
    <3>1. required_capability(d.adapter) = {"LocalLlmExposure"}
      BY <1>6 DEF required_capability, LocalLlm, ExternalAgent
    <3> QED BY <3>1, <1>1, PassingIsRefusedByNone DEF Refuses, GateRefuses, GateFlag, ContractName
  <2>4. \E n \in DOMAIN config.local_llm_endpoints :
           Permits(config.local_llm_endpoints, n, d) /\ id = config.local_llm_endpoints[n].id
    <3>1. PICK k \in Nat : DOMAIN config.local_llm_endpoints = 1..k
      BY <2>2
    <3> QED BY <3>1, <2>1, <1>1, <1>6, PassingIsPermitted DEF id, LocalLlm
  <2> QED BY <1>1, <1>2, <1>6, <2>3, <2>4 DEF PlanIsAuthorised
<1>7. CASE d.adapter \in ExternalAgent
  <2>1. Advertised(d.adapter, capabilities) = config.external_agent_adapters
    BY <1>7 DEF Discovered, discover, Advertised, LocalLlm, ExternalAgent
  <2>2. config.external_agent_adapters \in
           Seq([id : AdapterIds, runtime : Runtimes,
                supported_isolation_modes : SUBSET IsolationModes,
                supported_network_modes : SUBSET NetworkModes])
    BY ConfigsAssumption DEF Discovered, Config
  <2>3. config.feature_flags["external_agent_adapters_enabled"]
        /\ "remote.external_agent_runtime_adapter" \in d.allowed_capabilities
    <3>1. required_capability(d.adapter) = {"ExternalAgentRuntimeAdapter"}
      BY <1>7 DEF required_capability, LocalLlm, ExternalAgent
    <3> QED BY <3>1, <1>1, PassingIsRefusedByNone DEF Refuses, GateRefuses, GateFlag, ContractName
  <2>4. \E n \in DOMAIN config.external_agent_adapters :
           /\ Permits(config.external_agent_adapters, n, d)
           /\ id = config.external_agent_adapters[n].id
    <3>1. PICK k \in Nat : DOMAIN config.external_agent_adapters = 1..k
      BY <2>2
    <3> QED BY <3>1, <2>1, <1>1, <1>7, PassingIsPermitted DEF id, ExternalAgent
  <2> QED BY <1>1, <1>2, <1>7, <2>3, <2>4 DEF PlanIsAuthorised
<1>8. CASE d.adapter = "AllowlistedCommand"
  <2>1. Advertised(d.adapter, capabilities) = config.allowlisted_command_adapters
    BY <1>8 DEF Discovered, discover, Advertised, LocalLlm, ExternalAgent
  <2>2. config.allowlisted_command_adapters \in
           Seq([id : AdapterIds, allowed_args : SUBSET Args, allowed_env : SUBSET EnvNames])
    BY ConfigsAssumption DEF Discovered, Config
  <2>3. config.feature_flags["local_tools_enabled"]
        /\ "remote.local_tool_execution" \in d.allowed_capabilities
    <3>1. required_capability(d.adapter) = {"LocalToolExecution"}
      BY <1>8 DEF required_capability, LocalLlm, ExternalAgent
    <3> QED BY <3>1, <1>1, PassingIsRefusedByNone DEF Refuses, GateRefuses, GateFlag, ContractName
  <2>4. \E n \in DOMAIN config.allowlisted_command_adapters :
           /\ Permits(config.allowlisted_command_adapters, n, d)
           /\ id = config.allowlisted_command_adapters[n].id
    <3>1. PICK k \in Nat : DOMAIN config.allowlisted_command_adapters = 1..k
      BY <2>2
    <3> QED BY <3>1, <2>1, <1>1, <1>8, PassingIsPermitted DEF id
  <2> QED BY <1>1, <1>2, <1>8, <2>3, <2>4 DEF PlanIsAuthorised
<1> QED BY <1>3, <1>4, <1>5, <1>6, <1>7, <1>8 DEF AdapterKind

(* Whatever the control plane knew and however often the daemon was        *)
(* started, a job is planned only within the running configuration.        *)
THEOREM PlansAreAuthorised == Spec => []PlanIsAuthorised
<1>1. Init => PlanInv
  BY DEF Init, PlanInv, Discovered, PlanIsAuthorised, NoDecision
<1>2. PlanInv /\ [Next]_vars => PlanInv'
  <2> SUFFICES ASSUME PlanInv, [Next]_vars PROVE PlanInv'
    OBVIOUS
  <2>1. Discovered'
    BY DEF PlanInv, Discovered, Next, vars, start_daemon, report_capabilities,
           plan_adapter_execution, plan_ok, plan_refused
  <2>2. PlanIsAuthorised'
    <3>1. CASE \E c \in Configs : start_daemon(c)
      BY <3>1 DEF start_daemon, PlanIsAuthorised, NoDecision
    <3>2. CASE report_capabilities
      BY <3>2 DEF report_capabilities, PlanIsAuthorised, NoDecision
    <3>3. ASSUME NEW d \in Dispatches, plan_ok(d) PROVE PlanIsAuthorised'
      BY <3>3, PlanStep DEF PlanInv
    <3>4. ASSUME NEW d \in Dispatches, plan_refused(d) PROVE PlanIsAuthorised'
      <4>1. PICK n \in DOMAIN CheckOrder : decision'.outcome = CheckOrder[n]
        BY <3>4 DEF plan_refused
      <4>2. CheckOrder[n] # "Ok"
        BY DEF CheckOrder
      <4> QED BY <4>1, <4>2 DEF PlanIsAuthorised
    <3>5. CASE UNCHANGED vars
      BY <3>5 DEF vars, PlanInv, PlanIsAuthorised, Permits
    <3> QED BY <3>1, <3>2, <3>3, <3>4, <3>5 DEF Next, plan_adapter_execution
  <2> QED BY <2>1, <2>2 DEF PlanInv
<1>3. PlanInv => PlanIsAuthorised
  BY DEF PlanInv
<1> QED BY <1>1, <1>2, <1>3, PTL DEF Spec
-----------------------------------------------------------------------------
(* Type correctness *)

(* The id a plan names is that of a configured adapter, or of a built-in.  *)
LEMMA PlannedIdIsTyped ==
    ASSUME NEW d \in Dispatches, NEW caps, NEW flags, Passes(d, caps, flags)
    PROVE  PlannedId(d, caps) \in AdapterIds \cup {"noop", "echo"}
<1>1. CASE d.adapter \in {"Noop", "Echo"}
  BY <1>1 DEF PlannedId
<1>2. CASE d.adapter \notin {"Noop", "Echo"}
  <2>1. PICK x : d.adapter_id = {x}
    BY <1>2, PassingFindsEntry
  <2>2. d.adapter_id \subseteq AdapterIds
    BY DispatchesAssumption DEF Dispatch
  <2>3. PlannedId(d, caps) = x
    BY <1>2, <2>1 DEF PlannedId
  <2> QED BY <2>1, <2>2, <2>3
<1> QED BY <1>1, <1>2

(* Whatever is configured, reported and asked for, a decision is a plan    *)
(* that names a configured or built-in adapter, or one of the eight        *)
(* refusals of plan_adapter_execution; and the daemon's and the control    *)
(* plane's inventories are those of configurations.                        *)
THEOREM SpecTypeOK == Spec => []TypeOK
<1>1. Init => TypeOK
  BY DEF Init, TypeOK
<1>2. TypeOK /\ [Next]_vars => TypeOK'
  <2> SUFFICES ASSUME TypeOK, [Next]_vars PROVE TypeOK'
    OBVIOUS
  <2>1. CASE \E c \in Configs : start_daemon(c)
    BY <2>1 DEF start_daemon, TypeOK
  <2>2. CASE report_capabilities
    BY <2>2 DEF report_capabilities, TypeOK
  <2>3. ASSUME NEW d \in Dispatches, plan_ok(d) PROVE TypeOK'
    <3> DEFINE id == PlannedId(d, capabilities)
    <3>1. id \in AdapterIds \cup {"noop", "echo"}
      BY <2>3, PlannedIdIsTyped DEF plan_ok
    <3>2. decision' = [outcome |-> "Ok", dispatch |-> d, adapter_id |-> id]
      BY <2>3 DEF plan_ok
    <3> HIDE DEF id
    <3>3. decision' \in [outcome : {"Ok"}, dispatch : Dispatches,
                         adapter_id : AdapterIds \cup {"noop", "echo"}]
      BY <3>1, <3>2
    <3> QED BY <2>3, <3>3 DEF plan_ok, TypeOK
  <2>4. ASSUME NEW d \in Dispatches, plan_refused(d) PROVE TypeOK'
    <3>1. PICK n \in DOMAIN CheckOrder : decision' = [outcome |-> CheckOrder[n], dispatch |-> d]
      BY <2>4 DEF plan_refused
    <3>2. decision' \in [outcome : {CheckOrder[m] : m \in DOMAIN CheckOrder},
                         dispatch : Dispatches]
      BY <3>1
    <3> QED BY <2>4, <3>2 DEF plan_refused, TypeOK
  <2>5. CASE UNCHANGED vars
    BY <2>5 DEF vars, TypeOK
  <2> QED BY <2>1, <2>2, <2>3, <2>4, <2>5 DEF Next, plan_adapter_execution
<1> QED BY <1>1, <1>2, PTL DEF Spec

-----------------------------------------------------------------------------
(* What the inventory promises *)

(* The lookup finds the entry that permits a job, and no other.            *)
LEMMA LookupIsPermitted ==
    ASSUME NEW d, NEW caps, NEW k \in Nat, DOMAIN Advertised(d.adapter, caps) = 1..k,
           NEW n \in 1..k, Permits(Advertised(d.adapter, caps), n, d)
    PROVE  Lookup(d, caps) = {Advertised(d.adapter, caps)[n]}
<1> DEFINE list == Advertised(d.adapter, caps)
<1>1. /\ d.adapter_id = {list[n].id}
      /\ \A m \in 1..k : m < n => list[m].id # list[n].id
  BY DEF Permits
<1> HIDE DEF list
<1>2. \A m \in 1..(n - 1) : d.adapter_id # {list[m].id}
  BY <1>1
<1>3. \A m \in 1..k : d.adapter_id = {list[m].id} /\ (\A j \in 1..(m - 1) : d.adapter_id # {list[j].id})
                       => m = n
  BY <1>1
<1>4. DOMAIN list = 1..k
  BY DEF list
<1>5. Found(list, d.adapter_id) = {list[n]}
  <2>1. {m \in DOMAIN list : d.adapter_id = {list[m].id}
            /\ (\A j \in 1..(m - 1) : d.adapter_id # {list[j].id})} = {n}
    BY <1>1, <1>2, <1>3, <1>4
  <2> QED BY <2>1 DEF Found
<1> QED BY <1>5 DEF Lookup, list

(* The lists a configuration holds are finite sequences of entries, and    *)
(* the arguments an allowlisted command allows are strings.                *)
LEMMA AdvertisedIsASequence ==
    ASSUME Discovered, NEW d \in Dispatches
    PROVE  /\ \E k \in Nat : DOMAIN Advertised(d.adapter, capabilities) = 1..k
           /\ d.adapter = "AllowlistedCommand" =>
                 \A n \in DOMAIN Advertised(d.adapter, capabilities) :
                    Advertised(d.adapter, capabilities)[n].allowed_args \subseteq Args
<1>1. /\ config.local_llm_endpoints \in Seq([id : AdapterIds])
      /\ config.external_agent_adapters \in
            Seq([id : AdapterIds, runtime : Runtimes,
                 supported_isolation_modes : SUBSET IsolationModes,
                 supported_network_modes : SUBSET NetworkModes])
      /\ config.allowlisted_command_adapters \in
            Seq([id : AdapterIds, allowed_args : SUBSET Args, allowed_env : SUBSET EnvNames])
  BY ConfigsAssumption DEF Discovered, Config
<1>2. /\ d.adapter \in LocalLlm => Advertised(d.adapter, capabilities) = config.local_llm_endpoints
      /\ d.adapter \in ExternalAgent =>
            Advertised(d.adapter, capabilities) = config.external_agent_adapters
      /\ d.adapter = "AllowlistedCommand" =>
            Advertised(d.adapter, capabilities) = config.allowlisted_command_adapters
      /\ d.adapter \in {"Noop", "Echo"} => Advertised(d.adapter, capabilities) = <<>>
  BY DEF Discovered, discover, Advertised, LocalLlm, ExternalAgent
<1>3. d.adapter \in AdapterKind
  BY DispatchesAssumption DEF Dispatch
<1>4. \E k \in Nat : DOMAIN Advertised(d.adapter, capabilities) = 1..k
  BY <1>1, <1>2, <1>3, SMTT(30) DEF AdapterKind
<1>5. \A n \in DOMAIN config.allowlisted_command_adapters :
         config.allowlisted_command_adapters[n].allowed_args \subseteq Args
  <2> SUFFICES ASSUME NEW n \in DOMAIN config.allowlisted_command_adapters
               PROVE  config.allowlisted_command_adapters[n].allowed_args \subseteq Args
    OBVIOUS
  <2>1. config.allowlisted_command_adapters[n] \in
           [id : AdapterIds, allowed_args : SUBSET Args, allowed_env : SUBSET EnvNames]
    BY <1>1, LenProperties, ElementOfSeq
  <2> QED BY <2>1
<1> QED BY <1>2, <1>4, <1>5

(* The gate of a capability asks the flag that the inventory advertises.   *)
LEMMA GatesAreAdvertised ==
    ASSUME Discovered, NEW h \in HighRiskCapability
    PROVE  capabilities.high_risk_capabilities[h] = config.feature_flags[GateFlag[h]]
<1>1. GateFlag[h] = AdvertisedFlag[h]
  BY DEF HighRiskCapability, GateFlag, AdvertisedFlag
<1> QED BY <1>1 DEF Discovered, discover

(* None of the eight checks refuses a job that the inventory welcomes.     *)
LEMMA WelcomeIsNotRefused ==
    ASSUME Discovered, NEW d \in Dispatches, Welcome(d, capabilities), NEW check
    PROVE  ~Refuses(check, d, capabilities, config.feature_flags)
<1> DEFINE list == Advertised(d.adapter, capabilities)
<1>1. \A h \in required_capability(d.adapter) :
         config.feature_flags[GateFlag[h]] /\ ContractName[h] \in d.allowed_capabilities
  <2>1. required_capability(d.adapter) \subseteq HighRiskCapability
    BY DEF required_capability, HighRiskCapability
  <2> QED BY <2>1, GatesAreAdvertised DEF Welcome
<1>2. CASE d.adapter \in {"Noop", "Echo"}
  <2>1. d.adapter \notin ExternalAgent /\ d.adapter # "AllowlistedCommand"
    BY <1>2 DEF ExternalAgent
  <2> QED BY <1>1, <1>2, <2>1 DEF Refuses, GateRefuses
<1>3. CASE d.adapter \notin {"Noop", "Echo"}
  <2>1. PICK n \in DOMAIN list : Permits(list, n, d)
    BY <1>3 DEF Welcome
  <2>2. Lookup(d, capabilities) = {list[n]}
    <3>1. PICK k \in Nat : DOMAIN list = 1..k
      BY AdvertisedIsASequence
    <3>2. n \in 1..k
      BY <2>1, <3>1
    <3> QED BY <2>1, <3>1, <3>2, LookupIsPermitted
  <2>3. d.adapter = "AllowlistedCommand" => Malformed \notin d.args
    BY <2>1, AdvertisedIsASequence, MalformedAssumption DEF Permits
  <2> QED BY <1>1, <2>1, <2>2, <2>3 DEF Refuses, GateRefuses, EnvRefuses, Permits
<1> QED BY <1>2, <1>3

(* While the control plane's inventory is the daemon's, every job that it  *)
(* shows to be welcome is planned: what discover advertises is what the    *)
(* gates and the checks of plan_adapter_execution ask, and they ask        *)
(* nothing else.                                                           *)
THEOREM InventoriesAreHonoured == Spec => InventoryIsHonoured
<1> DEFINE Honoured ==
       /\ decision'.outcome # "none"
       /\ inventory = {capabilities}
       /\ Welcome(decision'.dispatch, capabilities)
       => decision'.outcome = "Ok"
<1>1. Discovered /\ [Next]_vars => [Honoured]_vars
  <2> SUFFICES ASSUME Discovered, Next PROVE Honoured
    OBVIOUS
  <2>1. CASE \E c \in Configs : start_daemon(c)
    BY <2>1 DEF start_daemon, NoDecision
  <2>2. CASE report_capabilities
    BY <2>2 DEF report_capabilities, NoDecision
  <2>3. ASSUME NEW d \in Dispatches, plan_ok(d) PROVE Honoured
    BY <2>3 DEF plan_ok
  <2>4. ASSUME NEW d \in Dispatches, plan_refused(d) PROVE Honoured
    <3>1. PICK n \in DOMAIN CheckOrder :
             /\ Refuses(CheckOrder[n], d, capabilities, config.feature_flags)
             /\ decision' = [outcome |-> CheckOrder[n], dispatch |-> d]
      BY <2>4 DEF plan_refused, IsFirstRefusal
    <3>2. decision'.dispatch = d
      BY <3>1
    <3>3. ~Welcome(d, capabilities)
      BY <3>1, WelcomeIsNotRefused
    <3> QED BY <3>2, <3>3
  <2> QED BY <2>1, <2>2, <2>3, <2>4 DEF Next, plan_adapter_execution
<1>2. Discovered /\ [Next]_vars => Discovered'
  BY DEF Discovered, Next, vars, start_daemon, report_capabilities,
         plan_adapter_execution, plan_ok, plan_refused
<1>3. Init => Discovered
  BY DEF Init, Discovered
<1> HIDE DEF Honoured
<1>4. Spec => [][Honoured]_vars
  BY <1>1, <1>2, <1>3, PTL DEF Spec
<1> QED BY <1>4 DEF InventoryIsHonoured, Honoured
=============================================================================
