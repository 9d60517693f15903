--------------------------- MODULE MCAdapterPlan ---------------------------
(* Configurations after examples/remote.toml, and every dispatch over their *)
(* vocabulary.                                                              *)
EXTENDS AdapterPlan

Endpoint(id) == [id |-> id]
Agent(id, runtime, isolation, network) ==
    [id |-> id, runtime |-> runtime, supported_isolation_modes |-> isolation,
     supported_network_modes |-> network]
Command(id, args, env) == [id |-> id, allowed_args |-> args, allowed_env |-> env]
Flags(on) == [f \in FeatureFlag |-> f \in on]
Configured(endpoints, agents, commands, on) ==
    [local_llm_endpoints |-> endpoints, external_agent_adapters |-> agents,
     allowlisted_command_adapters |-> commands, feature_flags |-> Flags(on)]

(* Nothing configured; everything, with all flags on; all but the local    *)
(* models on, the agents wider and the command narrower; one id for        *)
(* adapters of all sorts and twice in each list, the first entry narrower, *)
(* with the tools off.                                                     *)
Bare == Configured(<<>>, <<>>, <<>>, {})
Full == Configured(<<Endpoint("llm")>>, <<Agent("agent", "codex", {"temporary"}, {"deny_all"})>>,
                   <<Command("command", {"test"}, {"PATH"})>>, FeatureFlag)
Shifted == Configured(<<Endpoint("llm")>>,
                      <<Agent("agent", "claude_code", IsolationModes, NetworkModes)>>,
                      <<Command("command", {}, {"PATH"})>>, FeatureFlag \ {"local_llm_enabled"})
OneId == Configured(<<Endpoint("agent"), Endpoint("agent")>>,
                    <<Agent("agent", "codex", {"host"}, {}), Agent("agent", "codex", IsolationModes, NetworkModes)>>,
                    <<Command("agent", {}, {}), Command("agent", {"test"}, {"PATH"})>>,
                    FeatureFlag \ {"local_tools_enabled"})
MCConfigs == {Bare, Full, Shifted, OneId}

MCDispatches ==
    [adapter : AdapterKind, adapter_id : {{}} \cup {{id} : id \in AdapterIds},
     args : {{}, {"test"}, {"test", "run"}, {"test", Malformed}},
     allowed_capabilities :
        {{}, {ContractName[h] : h \in HighRiskCapability}, {"remote.local_llm_exposure"}},
     root_strategy : IsolationModes, network_mode : NetworkModes, allowed_env : {{}, {"PATH"}, {"PATH", "HOME"}}]
=============================================================================
