----------------------------- MODULE AdapterPlan -----------------------------
(***************************************************************************)
(* Which adapter a dispatched job may run on, and within which boundaries  *)
(* (src/adapters.rs, src/gates.rs), decided from the capabilities a daemon *)
(* discovered from its configuration when it started                       *)
(* (src/capabilities.rs).  The control plane chooses jobs by the inventory *)
(* it last received, and the operator may have started the daemon with     *)
(* another configuration since.                                            *)
(***************************************************************************)
EXTENDS Integers, Sequences

CONSTANTS
    AdapterIds,      \* ids of configured adapters
    Runtimes,        \* runtimes of external agents
    IsolationModes,  \* workspace root strategies
    NetworkModes,    \* network policy modes
    Args,            \* command arguments
    EnvNames,        \* names of environment variables
    Malformed,       \* what is no string, or no array of them
    Configs,         \* the configurations a daemon may be started with
    Dispatches       \* the dispatches a control plane may send

LocalLlm == {"OpenAiCompatibleLocalLlm", "OllamaLocalLlm", "SelfHostedLocalLlm"}
ExternalAgent == {"CodexAgent", "ClaudeCodeAgent"}
AdapterKind == {"Noop", "Echo", "AllowlistedCommand"} \cup LocalLlm \cup ExternalAgent

HighRiskCapability ==
    {"LocalToolExecution", "LocalLlmExposure", "ExternalAgentRuntimeAdapter", "ComputerUseExecution"}

FeatureFlag ==
    {"local_tools_enabled", "local_llm_enabled", "external_agent_adapters_enabled",
     "computer_use_enabled"}

ContractName ==
    [LocalToolExecution |-> "remote.local_tool_execution",
     LocalLlmExposure |-> "remote.local_llm_exposure",
     ExternalAgentRuntimeAdapter |-> "remote.external_agent_runtime_adapter",
     ComputerUseExecution |-> "remote.computer_use_execution"]

(* The parts of RemoteConfig that adapters are planned from; an allowlist  *)
(* is the set of its elements.                                             *)
Config ==
    [local_llm_endpoints : Seq([id : AdapterIds]),
     external_agent_adapters :
        Seq([id : AdapterIds, runtime : Runtimes, supported_isolation_modes : SUBSET IsolationModes,
             supported_network_modes : SUBSET NetworkModes]),
     allowlisted_command_adapters :
        Seq([id : AdapterIds, allowed_args : SUBSET Args, allowed_env : SUBSET EnvNames]),
     feature_flags : [FeatureFlag -> BOOLEAN]]

(* The parts of JobDispatch.  adapter_id is what input names, if it is a   *)
(* string that is not blank; args is what input asks for, with Malformed   *)
(* among them unless it is an array of strings.                            *)
Dispatch ==
    [adapter : AdapterKind, adapter_id : SUBSET AdapterIds, args : SUBSET (Args \cup {Malformed}),
     allowed_capabilities : SUBSET {ContractName[c] : c \in HighRiskCapability},
     root_strategy : IsolationModes, network_mode : NetworkModes, allowed_env : SUBSET EnvNames]

ASSUME ConfigsAssumption == Configs \subseteq Config
ASSUME DispatchesAssumption == Dispatches \subseteq Dispatch
ASSUME MalformedAssumption == Malformed \notin Args
ASSUME IdsAssumption == {"noop", "echo"} \cap AdapterIds = {}

-----------------------------------------------------------------------------
(* Capabilities and gates *)

(* Deviation: two gates are advertised under each other's flag. *)
AdvertisedFlagSwapped ==
    [LocalToolExecution |-> "local_tools_enabled",
     LocalLlmExposure |-> "external_agent_adapters_enabled",
     ExternalAgentRuntimeAdapter |-> "local_llm_enabled",
     ComputerUseExecution |-> "computer_use_enabled"]

(* The flag high_risk_capabilities advertises for a capability... *)
AdvertisedFlag ==
    [LocalToolExecution |-> "local_tools_enabled",
     LocalLlmExposure |-> "local_llm_enabled",
     ExternalAgentRuntimeAdapter |-> "external_agent_adapters_enabled",
     ComputerUseExecution |-> "computer_use_enabled"]

(* ... and the flag the gate asks (flag_enabled). *)
GateFlag ==
    [LocalToolExecution |-> "local_tools_enabled",
     LocalLlmExposure |-> "local_llm_enabled",
     ExternalAgentRuntimeAdapter |-> "external_agent_adapters_enabled",
     ComputerUseExecution |-> "computer_use_enabled"]

(* RunnerCapabilities::discover *)
discover(c) ==
    [local_llm_endpoints |-> c.local_llm_endpoints,
     external_agent_adapters |-> c.external_agent_adapters,
     allowlisted_command_adapters |-> c.allowlisted_command_adapters,
     high_risk_capabilities |->
        [h \in HighRiskCapability |-> c.feature_flags[AdvertisedFlag[h]]]]

required_capability(adapter) ==
    CASE adapter \in LocalLlm -> {"LocalLlmExposure"}
      [] adapter \in ExternalAgent -> {"ExternalAgentRuntimeAdapter"}
      [] adapter = "AllowlistedCommand" -> {"LocalToolExecution"}
      [] OTHER -> {}

(* The advertised list an adapter kind is looked up in. *)
Advertised(adapter, caps) ==
    CASE adapter \in LocalLlm -> caps.local_llm_endpoints
      [] adapter \in ExternalAgent -> caps.external_agent_adapters
      [] adapter = "AllowlistedCommand" -> caps.allowlisted_command_adapters
      [] OTHER -> <<>>

(* Iterator::find: the first entry with the id asked for, if any. *)
Found(list, id) ==
    {list[n] : n \in {n \in DOMAIN list :
        /\ id = {list[n].id}
        /\ \A m \in 1..(n - 1) : id # {list[m].id}}}

Lookup(d, caps) == Found(Advertised(d.adapter, caps), d.adapter_id)

-----------------------------------------------------------------------------
(* The decision *)

(* The checks of plan_adapter_execution in the order in which they are     *)
(* made, each named for its error or reason code.                          *)
CheckOrder ==
    <<"MissingCapability", "feature_flag_disabled", "policy_capability_not_allowed",
      "unsupported_isolation_mode", "unsupported_network_mode", "MalformedResult",
      "command_arg_not_allowlisted", "env_not_allowlisted">>

(* Deviation: only a job that asks for arguments has its environment       *)
(* looked at.                                                              *)
EnvRefusesWithArgs(d, entry) ==
    d.args # {} /\ ~(d.allowed_env \subseteq entry.allowed_env)

EnvRefuses(d, entry) == ~(d.allowed_env \subseteq entry.allowed_env)

(* evaluate_high_risk_capability: the policy is asked only where the flag  *)
(* is on.                                                                  *)
GateRefuses(check, h, d, flags) ==
    \/ check = "feature_flag_disabled" /\ ~flags[GateFlag[h]]
    \/ /\ check = "policy_capability_not_allowed"
       /\ flags[GateFlag[h]]
       /\ ContractName[h] \notin d.allowed_capabilities

(* The check refuses d; flags are the feature flags the gate is given. *)
Refuses(check, d, caps, flags) ==
    \/ /\ check = "MissingCapability"
       /\ d.adapter \notin {"Noop", "Echo"}
       /\ Lookup(d, caps) = {}
    \/ \E h \in required_capability(d.adapter) : GateRefuses(check, h, d, flags)
    \/ /\ d.adapter \in ExternalAgent
       /\ \E entry \in Lookup(d, caps) :
             \/ /\ check = "unsupported_isolation_mode"
                /\ d.root_strategy \notin entry.supported_isolation_modes
             \/ /\ check = "unsupported_network_mode"
                /\ d.network_mode \notin entry.supported_network_modes
    \/ /\ d.adapter = "AllowlistedCommand"
       /\ \E entry \in Lookup(d, caps) :
             \/ check = "MalformedResult" /\ Malformed \in d.args
             \/ /\ check = "command_arg_not_allowlisted"
                /\ Malformed \notin d.args
                /\ ~(d.args \subseteq entry.allowed_args)
             \/ check = "env_not_allowlisted" /\ EnvRefuses(d, entry)

(* Deviation: the plan names the kind. *)
PlannedKind(d, caps) == d.adapter

(* resolve_adapter_id, of a job that has an adapter. *)
PlannedId(d, caps) ==
    CASE d.adapter = "Noop" -> "noop"
      [] d.adapter = "Echo" -> "echo"
      [] OTHER -> CHOOSE id \in d.adapter_id : TRUE

Passes(d, caps, flags) == \A n \in DOMAIN CheckOrder : ~Refuses(CheckOrder[n], d, caps, flags)

IsFirstRefusal(n, d, caps, flags) ==
    /\ Refuses(CheckOrder[n], d, caps, flags)
    /\ \A m \in 1..(n - 1) : ~Refuses(CheckOrder[m], d, caps, flags)

-----------------------------------------------------------------------------
(* State *)

VARIABLES
    config,        \* RunnerDaemon.config
    capabilities,  \* RunnerDaemon.capabilities
    inventory,     \* the capability snapshot the control plane received last, if any
    decision       \* the plan or refusal of this step, or NoDecision

vars == <<config, capabilities, inventory, decision>>

NoDecision == [outcome |-> "none"]

Init ==
    /\ config \in Configs
    /\ capabilities = discover(config)
    /\ inventory = {}
    /\ decision = NoDecision

(* RunnerDaemon::new, with the configuration the operator gives it. *)
start_daemon(c) ==
    /\ config' = c
    /\ capabilities' = discover(c)
    /\ decision' = NoDecision
    /\ UNCHANGED inventory

(* capability_snapshot_payload, received. *)
report_capabilities ==
    /\ inventory' = {capabilities}
    /\ decision' = NoDecision
    /\ UNCHANGED <<config, capabilities>>

(* plan_adapter_execution returns a plan.  It leaves nothing behind, so    *)
(* that one decision between two other steps stands for any number.        *)
plan_ok(d) ==
    /\ decision = NoDecision
    /\ Passes(d, capabilities, config.feature_flags)
    /\ decision' = [outcome |-> "Ok", dispatch |-> d, adapter_id |-> PlannedId(d, capabilities)]
    /\ UNCHANGED <<config, capabilities, inventory>>

plan_refused(d) ==
    /\ decision = NoDecision
    /\ \E n \in DOMAIN CheckOrder :
          /\ IsFirstRefusal(n, d, capabilities, config.feature_flags)
          /\ decision' = [outcome |-> CheckOrder[n], dispatch |-> d]
    /\ UNCHANGED <<config, capabilities, inventory>>

plan_adapter_execution(d) == plan_ok(d) \/ plan_refused(d)

Next ==
    \/ \E c \in Configs : start_daemon(c)
    \/ report_capabilities
    \/ \E d \in Dispatches : plan_adapter_execution(d)

Spec == Init /\ [][Next]_vars

-----------------------------------------------------------------------------
(* Properties *)

(* Type invariant. *)
TypeOK ==
    /\ config \in Configs
    /\ capabilities \in {discover(c) : c \in Configs}
    /\ inventory \subseteq {discover(c) : c \in Configs}
    /\ decision \in {NoDecision}
          \cup [outcome : {"Ok"}, dispatch : Dispatches, adapter_id : AdapterIds \cup {"noop", "echo"}]
          \cup [outcome : {CheckOrder[n] : n \in DOMAIN CheckOrder}, dispatch : Dispatches]

(* The operator's configuration lets d run on its entry n of its list. *)
Permits(list, n, d) ==
    /\ d.adapter_id = {list[n].id}
    /\ \A m \in DOMAIN list : m < n => list[m].id # list[n].id
    /\ d.adapter \in ExternalAgent =>
          /\ d.root_strategy \in list[n].supported_isolation_modes
          /\ d.network_mode \in list[n].supported_network_modes
    /\ d.adapter = "AllowlistedCommand" =>
          /\ d.args \subseteq list[n].allowed_args
          /\ d.allowed_env \subseteq list[n].allowed_env

(* A job is planned only on an adapter the operator configured for jobs of *)
(* its sort, within that adapter's boundaries, with the operator's flag on *)
(* and the policy's allowance (lines 46-66 and 159-209): whatever          *)
(* inventory the control plane chose it by, and whichever of several       *)
(* entries share the id.                                                   *)
PlanIsAuthorised ==
    decision.outcome = "Ok" =>
        LET d == decision.dispatch
        IN  \/ d.adapter = "Noop" /\ decision.adapter_id = "noop"
            \/ d.adapter = "Echo" /\ decision.adapter_id = "echo"
            \/ /\ d.adapter \in LocalLlm
               /\ config.feature_flags["local_llm_enabled"]
               /\ "remote.local_llm_exposure" \in d.allowed_capabilities
               /\ \E n \in DOMAIN config.local_llm_endpoints :
                     /\ Permits(config.local_llm_endpoints, n, d)
                     /\ decision.adapter_id = config.local_llm_endpoints[n].id
            \/ /\ d.adapter \in ExternalAgent
               /\ config.feature_flags["external_agent_adapters_enabled"]
               /\ "remote.external_agent_runtime_adapter" \in d.allowed_capabilities
               /\ \E n \in DOMAIN config.external_agent_adapters :
                     /\ Permits(config.external_agent_adapters, n, d)
                     /\ decision.adapter_id = config.external_agent_adapters[n].id
            \/ /\ d.adapter = "AllowlistedCommand"
               /\ config.feature_flags["local_tools_enabled"]
               /\ "remote.local_tool_execution" \in d.allowed_capabilities
               /\ \E n \in DOMAIN config.allowlisted_command_adapters :
                     /\ Permits(config.allowlisted_command_adapters, n, d)
                     /\ decision.adapter_id = config.allowlisted_command_adapters[n].id

(* A control plane that goes by the inventory can tell that d is welcome. *)
Welcome(d, inv) ==
    /\ \A h \in required_capability(d.adapter) :
          inv.high_risk_capabilities[h] /\ ContractName[h] \in d.allowed_capabilities
    /\ d.adapter \in {"Noop", "Echo"}
          \/ \E n \in DOMAIN Advertised(d.adapter, inv) : Permits(Advertised(d.adapter, inv), n, d)

(* While the inventory the control plane holds is the daemon's, a job that *)
(* the inventory welcomes is planned: the gates advertised by discover     *)
(* (capabilities.rs, lines 100-122) are those evaluated when the job       *)
(* arrives (gates.rs, lines 33-40), and nothing but what the inventory     *)
(* shows is asked of a job.                                                *)
InventoryIsHonoured ==
    [][/\ decision'.outcome # "none"
       /\ inventory = {capabilities}
       /\ Welcome(decision'.dispatch, capabilities)
       => decision'.outcome = "Ok"]_vars

(* A codex runtime runs no Claude Code job.  The list an id is looked up   *)
(* in is that of both kinds of agent, and the runtime is never compared    *)
(* (lines 141-146).                                                        *)
MatchingRuntime ==
    decision.outcome = "Ok" /\ decision.dispatch.adapter = "ClaudeCodeAgent" =>
        \A entry \in Lookup(decision.dispatch, capabilities) : entry.runtime # "codex"
=============================================================================
