--------------------------- MODULE RunnerLifecycle ---------------------------
(***************************************************************************)
(* The runner registration and credential lifecycle                        *)
(* (src/runner_lifecycle.rs, RunnerLifecycleSimulator): registering a      *)
(* runner with a one-time token, rotating its credential, and deciding     *)
(* whether it may take a lease.  Any caller may make any call in any       *)
(* order; each call is one step.                                           *)
(*                                                                         *)
(* The simulator's clock is fixed when it is built (nothing assigns        *)
(* now_tick), so time moves only from one scenario to the next.            *)
(***************************************************************************)
EXTENDS Integers, Sequences

CONSTANTS
    RunnerIds,        \* runner ids, of runners in the scenario or not
    TokenIds,         \* registration token ids
    CredentialRefs,   \* credential references
    Ticks,            \* points in time
    None,             \* Option::None
    Scenarios         \* the scenarios from_scenario may be given

RunnerLifecycleState ==
    {"Registered", "Unregistered", "Expired", "Disabled", "Draining", "Shared", "Quarantined"}

Token == [expires_at_tick : Ticks, used_by_runner_id : RunnerIds \cup {None}]

Credential == [expires_at_tick : Ticks, active : BOOLEAN]

Runner ==
    [state : RunnerLifecycleState, registration_token_id : TokenIds \cup {None},
     credential_ref : CredentialRefs \cup {None}]

(* A HashMap is a function on the keys it holds. *)
IsMap(f, S, T) == DOMAIN f \subseteq S /\ f \in [DOMAIN f -> T]

IsScenario(s) ==
    /\ s.now_tick \in Ticks
    /\ IsMap(s.registration_tokens, TokenIds, Token)
    /\ IsMap(s.credentials, CredentialRefs, Credential)
    /\ IsMap(s.runners, RunnerIds, Runner)

ASSUME TicksAssumption == Ticks \subseteq Nat
ASSUME NoneAssumption == None \notin RunnerIds \cup TokenIds \cup CredentialRefs
ASSUME ScenariosAssumption == \A s \in Scenarios : IsScenario(s)

-----------------------------------------------------------------------------
(* State *)

VARIABLES
    scenario,             \* history: the scenario the simulator was built from
    registration_tokens,
    credentials,
    runners,
    reply,                \* what the last call returned
    registrations,        \* history: the successful registrations, in order
    grants,               \* history: the credential last granted to each runner
    retired               \* history: the credentials a rotation took out of service

simulator == <<registration_tokens, credentials, runners>>
history == <<registrations, grants, retired>>
vars == <<scenario, simulator, reply, history>>

now_tick == scenario.now_tick

(* A function with one more or one changed entry. *)
With(f, k, v) == [x \in DOMAIN f \cup {k} |-> IF x = k THEN v ELSE f[x]]

(* An Option or the error of a Result is a set of at most one element. *)

(* get and validate_credential: the error of using ref, if any. *)
CredentialError(ref) ==
    {e \in {"RunnerCredentialNotFound", "RunnerCredentialInactive", "RunnerCredentialExpired"} :
        \/ e = "RunnerCredentialNotFound" /\ ref \notin DOMAIN credentials
        \/ /\ e = "RunnerCredentialInactive"
           /\ ref \in DOMAIN credentials
           /\ ~credentials[ref].active
        \/ /\ e = "RunnerCredentialExpired"
           /\ ref \in DOMAIN credentials
           /\ credentials[ref].active
           /\ credentials[ref].expires_at_tick <= now_tick}

(* Deviation: a used token is not refused. *)
TokenErrorExpiryOnly(t) ==
    {e \in {"RegistrationTokenNotFound", "RegistrationTokenExpired"} :
        \/ e = "RegistrationTokenNotFound" /\ t \notin DOMAIN registration_tokens
        \/ /\ e = "RegistrationTokenExpired"
           /\ t \in DOMAIN registration_tokens
           /\ registration_tokens[t].expires_at_tick <= now_tick}

(* The error of using a token, if any. *)
TokenError(t) ==
    {e \in {"RegistrationTokenNotFound", "RegistrationTokenExpired", "RegistrationTokenAlreadyUsed"} :
        \/ e = "RegistrationTokenNotFound" /\ t \notin DOMAIN registration_tokens
        \/ /\ e = "RegistrationTokenExpired"
           /\ t \in DOMAIN registration_tokens
           /\ registration_tokens[t].expires_at_tick <= now_tick
        \/ /\ e = "RegistrationTokenAlreadyUsed"
           /\ t \in DOMAIN registration_tokens
           /\ registration_tokens[t].expires_at_tick > now_tick
           /\ registration_tokens[t].used_by_runner_id # None}

(* The token is checked first, then the credential. *)
RegisterError(t, ref) == IF TokenError(t) # {} THEN TokenError(t) ELSE CredentialError(ref)

(* The checks of a rotation that come before the current credential is     *)
(* deactivated.                                                            *)
CurrentError(r, current) ==
    {e \in {"RunnerNotFound", "RunnerCredentialRotationMismatch", "RunnerCredentialNotFound"} :
        \/ e = "RunnerNotFound" /\ r \notin DOMAIN runners
        \/ /\ e = "RunnerCredentialRotationMismatch"
           /\ r \in DOMAIN runners
           /\ runners[r].credential_ref # current
        \/ /\ e = "RunnerCredentialNotFound"
           /\ r \in DOMAIN runners
           /\ runners[r].credential_ref = current
           /\ current \notin DOMAIN credentials}

-----------------------------------------------------------------------------
(* Lease decisions *)

StateReason ==
    [Registered |-> {},
     Unregistered |-> {"runner is not registered"},
     Expired |-> {"runner credential expired; rotate before accepting leases"},
     Disabled |-> {"runner is disabled"},
     Draining |-> {"runner is draining"},
     Shared |-> {"runner credential is shared; rotate before accepting leases"},
     Quarantined |-> {"runner is quarantined"}]

CredentialReason(ref) ==
    {e \in {"runner credential expired; rotate before accepting leases",
            "runner credential unavailable"} :
        /\ CredentialError(ref) # {}
        /\ e = "runner credential unavailable" <=>
              (ref \in DOMAIN credentials => credentials[ref].expires_at_tick > now_tick)}

(* lease_rejection_reason: the record, its state, then its credential. *)
lease_rejection_reason(r) ==
    IF r \notin DOMAIN runners THEN {"runner is not registered"}
    ELSE IF StateReason[runners[r].state] # {} THEN StateReason[runners[r].state]
    ELSE CredentialReason(runners[r].credential_ref)

Accepts(r) == lease_rejection_reason(r) = {}

-----------------------------------------------------------------------------
(* Actions *)

(* from_scenario *)
Init ==
    /\ scenario \in Scenarios
    /\ registration_tokens = scenario.registration_tokens
    /\ credentials = scenario.credentials
    /\ runners = scenario.runners
    /\ reply = [call |-> "from_scenario", result |-> {}]
    /\ registrations = <<>>
    /\ grants = [r \in {} |-> None]
    /\ retired = {}

(* Deviation: the token records its own id. *)
RegisterSwapped(t, r, ref) ==
    /\ RegisterError(t, ref) = {}
    /\ registration_tokens' = [registration_tokens EXCEPT ![t].used_by_runner_id = t]
    /\ runners' = With(runners, r,
          [state |-> "Registered", registration_token_id |-> t, credential_ref |-> ref])
    /\ reply' = [call |-> "register_runner", result |-> {}]
    /\ registrations' = Append(registrations, [token |-> t, runner |-> r])
    /\ grants' = With(grants, r, ref)
    /\ UNCHANGED <<scenario, credentials, retired>>

(* register_runner on success: the token is spent and the runner's record, *)
(* whatever it was, becomes a registered one with this credential.         *)
register_runner_ok(t, r, ref) ==
    /\ RegisterError(t, ref) = {}
    /\ registration_tokens' = [registration_tokens EXCEPT ![t].used_by_runner_id = r]
    /\ runners' = With(runners, r,
          [state |-> "Registered", registration_token_id |-> t, credential_ref |-> ref])
    /\ reply' = [call |-> "register_runner", result |-> {}]
    /\ registrations' = Append(registrations, [token |-> t, runner |-> r])
    /\ grants' = With(grants, r, ref)
    /\ UNCHANGED <<scenario, credentials, retired>>

register_runner_err(t, ref) ==
    /\ RegisterError(t, ref) # {}
    /\ reply' = [call |-> "register_runner", result |-> RegisterError(t, ref)]
    /\ UNCHANGED <<scenario, simulator, history>>

(* Deviation: the current credential stays active. *)
StillActive(current) == credentials

Deactivated(current) == [credentials EXCEPT ![current].active = FALSE]

(* The next credential is looked up after the current one is deactivated. *)
NextError(current, next) ==
    IF next = current THEN {"RunnerCredentialInactive"} ELSE CredentialError(next)

rotate_credential_ok(r, current, next) ==
    /\ CurrentError(r, current) = {}
    /\ NextError(current, next) = {}
    /\ credentials' = Deactivated(current)
    /\ runners' = [runners EXCEPT ![r].state = "Registered", ![r].credential_ref = next]
    /\ reply' = [call |-> "rotate_credential", result |-> {}]
    /\ grants' = With(grants, r, next)
    /\ retired' = retired \cup {current}
    /\ UNCHANGED <<scenario, registration_tokens, registrations>>

(* The rotation fails after the current credential is deactivated: nothing *)
(* activates it again.                                                     *)
rotate_credential_half(r, current, next) ==
    /\ CurrentError(r, current) = {}
    /\ NextError(current, next) # {}
    /\ credentials' = Deactivated(current)
    /\ reply' = [call |-> "rotate_credential", result |-> NextError(current, next)]
    /\ retired' = retired \cup {current}
    /\ UNCHANGED <<scenario, registration_tokens, runners, registrations, grants>>

rotate_credential_err(r, current) ==
    /\ CurrentError(r, current) # {}
    /\ reply' = [call |-> "rotate_credential", result |-> CurrentError(r, current)]
    /\ UNCHANGED <<scenario, simulator, history>>

(* evaluate_lease only reads. *)
evaluate_lease(r) ==
    /\ reply' = [call |-> "evaluate_lease", result |-> lease_rejection_reason(r)]
    /\ UNCHANGED <<scenario, simulator, history>>

register_runner(t, r, ref) == register_runner_ok(t, r, ref) \/ register_runner_err(t, ref)

rotate_credential(r, current, next) ==
    \/ rotate_credential_ok(r, current, next)
    \/ rotate_credential_half(r, current, next)
    \/ rotate_credential_err(r, current)

Next ==
    \/ \E t \in TokenIds, r \in RunnerIds, ref \in CredentialRefs : register_runner(t, r, ref)
    \/ \E r \in RunnerIds, current, next \in CredentialRefs : rotate_credential(r, current, next)
    \/ \E r \in RunnerIds : evaluate_lease(r)

Spec == Init /\ [][Next]_vars

-----------------------------------------------------------------------------
(* Properties *)

(* Type invariant. *)
TypeOK ==
    /\ scenario \in Scenarios
    /\ registration_tokens \in [DOMAIN scenario.registration_tokens -> Token]
    /\ credentials \in [DOMAIN scenario.credentials -> Credential]
    /\ IsMap(runners, RunnerIds, Runner)
    /\ registrations \in Seq([token : TokenIds, runner : RunnerIds])
    /\ IsMap(grants, RunnerIds, CredentialRefs)
    /\ retired \subseteq CredentialRefs

(* Every token registers at most one runner, only a token that was unused  *)
(* and unexpired does, and the token names that runner from then on: no    *)
(* failed call spends a token (lines 120-136) and no later registration,   *)
(* of the same runner id or another, frees one.                            *)
TokensAccounted ==
    /\ \A m, n \in DOMAIN registrations :
          registrations[m].token = registrations[n].token => m = n
    /\ \A t \in DOMAIN registration_tokens :
          LET was == scenario.registration_tokens[t]
              by == {registrations[n].runner :
                        n \in {n \in DOMAIN registrations : registrations[n].token = t}}
          IN  IF by = {} THEN registration_tokens[t] = was
              ELSE /\ was.used_by_runner_id = None
                   /\ was.expires_at_tick > now_tick
                   /\ by = {registration_tokens[t].used_by_runner_id}

(* What the scenario itself lets a runner do. *)
AcceptedInScenario(r) ==
    /\ r \in DOMAIN scenario.runners
    /\ scenario.runners[r].state = "Registered"
    /\ scenario.runners[r].credential_ref \in DOMAIN scenario.credentials
    /\ scenario.credentials[scenario.runners[r].credential_ref].active
    /\ scenario.credentials[scenario.runners[r].credential_ref].expires_at_tick > now_tick

(* A runner may take a lease exactly while the credential last granted to  *)
(* it, or the scenario's if none was, has not been taken out of service by *)
(* a rotation, its own or that of another holder, successful or not        *)
(* (lines 167-183).  So a credential once rotated out never serves again,  *)
(* a refused registration or rotation moves no runner to another           *)
(* credential, and no call disturbs a runner that holds another one.       *)
LeasesFollowGrants ==
    \A r \in RunnerIds :
        Accepts(r) <=>
            IF r \in DOMAIN grants THEN grants[r] \notin retired
            ELSE AcceptedInScenario(r) /\ scenario.runners[r].credential_ref \notin retired

(* A runner the scenario disables or quarantines is never offered a lease  *)
(* (test disabled_and_quarantined_runners_do_not_receive_new_leases, line  *)
(* 324).  Rotating its credential, or registering its id again, reinstates *)
(* it (lines 139 and 178).                                                 *)
WithdrawnGetNoLease ==
    \A r \in DOMAIN scenario.runners :
        scenario.runners[r].state \in {"Disabled", "Quarantined"} => ~Accepts(r)
=============================================================================
