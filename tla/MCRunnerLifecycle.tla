------------------------- MODULE MCRunnerLifecycle -------------------------
(* Two scenarios after fixtures/runner/credential-lifecycle-simulator.json, *)
(* cut down to what the calls can tell apart.                               *)
EXTENDS RunnerLifecycle

TokenFixture(expires, by) == [expires_at_tick |-> expires, used_by_runner_id |-> by]
CredentialFixture(expires, active) == [expires_at_tick |-> expires, active |-> active]
RunnerFixture(state, token, ref) ==
    [state |-> state, registration_token_id |-> token, credential_ref |-> ref]

MCTicks == 0..3

(* Two runners on one credential, one of them withdrawn, and a runner that *)
(* has no record; two usable tokens.                                       *)
SharedHolders ==
    [now_tick |-> 2,
     registration_tokens |->
        [t \in {"available", "spare", "used"} |->
            TokenFixture(3, IF t = "used" THEN "registered" ELSE None)],
     credentials |->
        [c \in {"active", "rotated", "next"} |-> CredentialFixture(3, TRUE)],
     runners |->
        [r \in {"registered", "withdrawn"} |->
            RunnerFixture(IF r = "registered" THEN "Registered" ELSE "Disabled", "used", "active")]]

(* Expired, inactive and missing credentials, an expired token and records *)
(* without a credential.                                                   *)
Lapsed ==
    [now_tick |-> 2,
     registration_tokens |->
        [t \in {"available", "spare"} |-> TokenFixture(IF t = "spare" THEN 2 ELSE 3, None)],
     credentials |->
        [c \in {"active", "rotated", "next"} |->
            CredentialFixture(IF c = "rotated" THEN 2 ELSE 3, c # "next")],
     runners |->
        [r \in {"registered", "withdrawn", "absent"} |->
            CASE r = "registered" -> RunnerFixture("Expired", "used", "rotated")
              [] r = "withdrawn" -> RunnerFixture("Registered", "used", "missing")
              [] OTHER -> RunnerFixture("Unregistered", None, None)]]

MCScenarios == {SharedHolders, Lapsed}
=============================================================================
