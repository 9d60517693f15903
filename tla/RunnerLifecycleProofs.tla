------------------------ MODULE RunnerLifecycleProofs ------------------------
(* Theorems about the runner lifecycle, for all scenarios and calls.       *)
EXTENDS RunnerLifecycle, SequenceTheorems, TLAPS

(* A credential a lease or a registration may rest on. *)
Usable(creds, ref) ==
    /\ ref \in DOMAIN creds
    /\ creds[ref].active
    /\ creds[ref].expires_at_tick > now_tick

(* A token that was unused and unexpired when the scenario was loaded. *)
Fresh(t) ==
    /\ t \in DOMAIN scenario.registration_tokens
    /\ scenario.registration_tokens[t].used_by_runner_id = None
    /\ scenario.registration_tokens[t].expires_at_tick > now_tick

(* Each registration spent a token of its own. *)
TokensDistinct ==
    \A m, n \in DOMAIN registrations :
        registrations[m].token = registrations[n].token => m = n

(* A token a registration used was fresh, and names its runner. *)
RegistrationsSpend ==
    \A n \in DOMAIN registrations :
        /\ Fresh(registrations[n].token)
        /\ registration_tokens[registrations[n].token].used_by_runner_id
              = registrations[n].runner

Spent(t) == \E n \in DOMAIN registrations : registrations[n].token = t

(* A token no registration used is the scenario's. *)
OthersKept ==
    \A t \in DOMAIN registration_tokens :
        Spent(t) \/ registration_tokens[t] = scenario.registration_tokens[t]

TokenInv == TokensDistinct /\ RegistrationsSpend /\ OthersKept

(* Rotations deactivate credentials, and nothing else changes one. *)
RetiredAreInactive ==
    \A c \in DOMAIN credentials :
        /\ credentials[c].expires_at_tick = scenario.credentials[c].expires_at_tick
        /\ credentials[c].active <=> scenario.credentials[c].active /\ c \notin retired

(* A runner that was granted a credential is registered and holds it, and  *)
(* the credential was usable when the scenario was loaded.                 *)
GrantsAreHeld ==
    \A r \in DOMAIN grants :
        /\ r \in DOMAIN runners
        /\ runners[r].state = "Registered"
        /\ runners[r].credential_ref = grants[r]
        /\ Usable(scenario.credentials, grants[r])

(* A runner that was granted none is as the scenario has it. *)
UngrantedAreKept ==
    \A r \in RunnerIds \ DOMAIN grants :
        /\ r \in DOMAIN runners <=> r \in DOMAIN scenario.runners
        /\ r \in DOMAIN runners => runners[r] = scenario.runners[r]

LeaseInv == RetiredAreInactive /\ GrantsAreHeld /\ UngrantedAreKept

-----------------------------------------------------------------------------
(* What the operators compute *)

(* What a scenario that can be loaded holds. *)
LEMMA ScenarioIsTyped ==
    ASSUME scenario \in Scenarios
    PROVE  /\ now_tick \in Int
           /\ DOMAIN scenario.registration_tokens \subseteq TokenIds
           /\ scenario.registration_tokens \in [DOMAIN scenario.registration_tokens -> Token]
           /\ DOMAIN scenario.credentials \subseteq CredentialRefs
           /\ scenario.credentials \in [DOMAIN scenario.credentials -> Credential]
           /\ IsMap(scenario.runners, RunnerIds, Runner)
<1>1. IsScenario(scenario)
  BY ScenariosAssumption
<1>2. now_tick \in Int
  <2>1. scenario.now_tick \in Ticks
    BY <1>1, Zenon DEF IsScenario
  <2>2. ASSUME NEW x \in Ticks PROVE x \in Int
    BY TicksAssumption
  <2> QED BY <2>1, <2>2, Zenon DEF now_tick
<1> QED BY <1>1, <1>2 DEF IsMap, IsScenario

(* The fields of the records a well typed state holds. *)
LEMMA StateIsTyped ==
    ASSUME TypeOK
    PROVE  /\ now_tick \in Int
           /\ \A t \in DOMAIN registration_tokens :
                 /\ t \in TokenIds
                 /\ registration_tokens[t].expires_at_tick \in Int
           /\ \A c \in DOMAIN credentials :
                 /\ c \in CredentialRefs
                 /\ credentials[c].expires_at_tick \in Int
                 /\ credentials[c].active \in BOOLEAN
           /\ \A r \in DOMAIN runners :
                 /\ r \in RunnerIds
                 /\ runners[r].state \in RunnerLifecycleState
<1>1. /\ registration_tokens \in [DOMAIN scenario.registration_tokens -> Token]
      /\ credentials \in [DOMAIN scenario.credentials -> Credential]
      /\ DOMAIN runners \subseteq RunnerIds
      /\ runners \in [DOMAIN runners -> Runner]
  BY DEF IsMap, TypeOK
<1>2. \A t \in DOMAIN registration_tokens :
         t \in TokenIds /\ registration_tokens[t].expires_at_tick \in Int
  BY <1>1, ScenarioIsTyped, TicksAssumption DEF TypeOK, Token
<1>3. \A c \in DOMAIN credentials :
         /\ c \in CredentialRefs
         /\ credentials[c].expires_at_tick \in Int
         /\ credentials[c].active \in BOOLEAN
  BY <1>1, ScenarioIsTyped, TicksAssumption DEF TypeOK, Credential
<1>4. \A r \in DOMAIN runners : r \in RunnerIds /\ runners[r].state \in RunnerLifecycleState
  BY <1>1 DEF Runner
<1>5. now_tick \in Int
  BY ScenarioIsTyped DEF TypeOK
<1> QED BY <1>2, <1>3, <1>4, <1>5

(* A credential may be used exactly when it exists, is active and has not  *)
(* expired.                                                                *)
LEMMA CredentialErrorIsUsable ==
    ASSUME TypeOK, NEW ref
    PROVE  CredentialError(ref) = {} <=> Usable(credentials, ref)
<1>1. ref \in DOMAIN credentials => credentials[ref].expires_at_tick \in Int /\ now_tick \in Int
  BY StateIsTyped
<1> QED BY <1>1 DEF CredentialError, Usable

(* A token may be used exactly when it exists, has not expired and was not *)
(* used.                                                                   *)
LEMMA TokenErrorIsUse ==
    ASSUME TypeOK, NEW t
    PROVE  TokenError(t) = {} <=>
              /\ t \in DOMAIN registration_tokens
              /\ registration_tokens[t].used_by_runner_id = None
              /\ registration_tokens[t].expires_at_tick > now_tick
<1>1. t \in DOMAIN registration_tokens =>
         registration_tokens[t].expires_at_tick \in Int /\ now_tick \in Int
  BY StateIsTyped
<1> QED BY <1>1 DEF TokenError

(* A credential gives no reason to refuse a lease exactly when it may be   *)
(* used.                                                                   *)
LEMMA CredentialReasonIsError ==
    ASSUME NEW ref
    PROVE  CredentialReason(ref) = {} <=> CredentialError(ref) = {}
<1> DEFINE Later == ref \in DOMAIN credentials => credentials[ref].expires_at_tick > now_tick
<1>1. CredentialError(ref) # {} /\ Later =>
         "runner credential unavailable" \in CredentialReason(ref)
  BY DEF CredentialReason
<1>2. CredentialError(ref) # {} /\ ~Later =>
         "runner credential expired; rotate before accepting leases" \in CredentialReason(ref)
  BY DEF CredentialReason
<1>3. CredentialError(ref) = {} => CredentialReason(ref) = {}
  BY DEF CredentialReason
<1> QED BY <1>1, <1>2, <1>3

(* A runner may take a lease exactly when it has a record that is          *)
(* registered and holds a credential that may be used.                     *)
LEMMA AcceptsIsRegisteredAndUsable ==
    ASSUME TypeOK, NEW r
    PROVE  Accepts(r) <=>
              /\ r \in DOMAIN runners
              /\ runners[r].state = "Registered"
              /\ Usable(credentials, runners[r].credential_ref)
<1>1. CASE r \notin DOMAIN runners
  BY <1>1 DEF Accepts, lease_rejection_reason
<1>2. CASE r \in DOMAIN runners
  <2>1. runners[r].state \in RunnerLifecycleState
    BY <1>2, StateIsTyped
  <2>2. StateReason[runners[r].state] = {} <=> runners[r].state = "Registered"
    <3>1. ASSUME NEW s \in RunnerLifecycleState PROVE StateReason[s] = {} <=> s = "Registered"
      <4>1. /\ StateReason["Registered"] = {}
            /\ StateReason["Unregistered"] # {}
            /\ StateReason["Expired"] # {}
            /\ StateReason["Disabled"] # {}
            /\ StateReason["Draining"] # {}
            /\ StateReason["Shared"] # {}
            /\ StateReason["Quarantined"] # {}
        BY DEF StateReason
      <4> QED BY <4>1 DEF RunnerLifecycleState
    <3> QED BY <2>1, <3>1
  <2> QED
    BY <1>2, <2>2, CredentialReasonIsError, CredentialErrorIsUsable
       DEF Accepts, lease_rejection_reason
<1> QED BY <1>1, <1>2

(* With adds or replaces one entry. *)
LEMMA WithType ==
    ASSUME NEW f, NEW S, f \in [DOMAIN f -> S], NEW k, NEW v \in S
    PROVE  /\ DOMAIN With(f, k, v) = DOMAIN f \cup {k}
           /\ With(f, k, v) \in [DOMAIN With(f, k, v) -> S]
           /\ With(f, k, v)[k] = v
           /\ \A x \in DOMAIN f : x # k => With(f, k, v)[x] = f[x]
BY DEF With

(* The next credential of a rotation is another one, and may be used.      *)
LEMMA NextErrorIsUsable ==
    ASSUME TypeOK, NEW current, NEW next
    PROVE  NextError(current, next) = {} <=> next # current /\ Usable(credentials, next)
BY CredentialErrorIsUsable DEF NextError

-----------------------------------------------------------------------------
(* Type correctness *)

(* Every scenario is one from_scenario can load, so the initial state is   *)
(* typed.                                                                  *)
LEMMA InitTypeOK == Init => TypeOK
<1> SUFFICES ASSUME Init PROVE TypeOK OBVIOUS
<1>1. scenario \in Scenarios
  BY DEF Init
<1>2. /\ registration_tokens \in [DOMAIN scenario.registration_tokens -> Token]
      /\ credentials \in [DOMAIN scenario.credentials -> Credential]
      /\ IsMap(runners, RunnerIds, Runner)
  BY <1>1, ScenarioIsTyped DEF Init
<1>3. registrations \in Seq([token : TokenIds, runner : RunnerIds])
  BY DEF Init
<1>4. IsMap(grants, RunnerIds, CredentialRefs)
  BY DEF IsMap, Init
<1>5. retired \subseteq CredentialRefs
  BY DEF Init
<1> QED
  BY <1>1, <1>2, <1>3, <1>4, <1>5 DEF TypeOK

(* Adding or replacing an entry keeps a map one. *)
LEMMA WithIsMap ==
    ASSUME NEW S, NEW T, NEW f, IsMap(f, S, T), NEW k \in S, NEW v \in T
    PROVE  IsMap(With(f, k, v), S, T)
<1>1. DOMAIN f \subseteq S /\ f \in [DOMAIN f -> T]
  BY DEF IsMap
<1>2. DOMAIN With(f, k, v) \subseteq S /\ With(f, k, v) \in [DOMAIN With(f, k, v) -> T]
  BY <1>1 DEF With
<1> QED BY <1>2 DEF IsMap

(* A registration keeps the state typed. *)
LEMMA RegisterTypeOK ==
    ASSUME TypeOK, NEW t \in TokenIds, NEW r \in RunnerIds, NEW ref \in CredentialRefs,
           register_runner_ok(t, r, ref)
    PROVE  TypeOK'
<1>1. t \in DOMAIN registration_tokens
  BY TokenErrorIsUse DEF register_runner_ok, RegisterError
<1>2. registration_tokens' \in [DOMAIN scenario.registration_tokens -> Token]
  <2>1. /\ registration_tokens \in [DOMAIN scenario.registration_tokens -> Token]
        /\ registration_tokens' = [registration_tokens EXCEPT ![t].used_by_runner_id = r]
    BY DEF TypeOK, register_runner_ok
  <2> QED BY <1>1, <2>1 DEF Token
<1>3. IsMap(runners', RunnerIds, Runner)
  <2>1. [state |-> "Registered", registration_token_id |-> t, credential_ref |-> ref] \in Runner
    BY DEF Runner, RunnerLifecycleState
  <2> QED BY <2>1, WithIsMap DEF TypeOK, register_runner_ok
<1>4. registrations' \in Seq([token : TokenIds, runner : RunnerIds])
  BY DEF TypeOK, register_runner_ok
<1>5. IsMap(grants', RunnerIds, CredentialRefs)
  BY WithIsMap DEF TypeOK, register_runner_ok
<1>6. UNCHANGED <<scenario, credentials, retired>>
  BY DEF register_runner_ok
<1> QED
  BY <1>2, <1>3, <1>4, <1>5, <1>6 DEF TypeOK

(* So does taking a credential out of service. *)
LEMMA DeactivatedIsTyped ==
    ASSUME TypeOK, NEW current
    PROVE  Deactivated(current) \in [DOMAIN scenario.credentials -> Credential]
<1>1. credentials \in [DOMAIN scenario.credentials -> Credential]
  BY DEF TypeOK
<1> QED BY <1>1 DEF Deactivated, Credential

(* A rotation keeps the state typed, successful or half done. *)
LEMMA RotateTypeOK ==
    ASSUME TypeOK, NEW r \in RunnerIds, NEW current \in CredentialRefs,
           NEW next \in CredentialRefs,
           rotate_credential_ok(r, current, next) \/ rotate_credential_half(r, current, next)
    PROVE  TypeOK'
<1>1. /\ credentials' = Deactivated(current)
      /\ retired' = retired \cup {current}
      /\ UNCHANGED <<scenario, registration_tokens, registrations>>
  BY DEF rotate_credential_ok, rotate_credential_half
<1>2. credentials' \in [DOMAIN scenario.credentials -> Credential]
  BY <1>1, DeactivatedIsTyped
<1>3. IsMap(runners', RunnerIds, Runner)
  <2>1. CASE rotate_credential_half(r, current, next)
    BY <2>1 DEF TypeOK, rotate_credential_half
  <2>2. CASE rotate_credential_ok(r, current, next)
    <3>1. /\ DOMAIN runners \subseteq RunnerIds
          /\ runners \in [DOMAIN runners -> Runner]
      BY DEF IsMap, TypeOK
    <3>2. runners' = [runners EXCEPT ![r].state = "Registered", ![r].credential_ref = next]
      BY <2>2 DEF rotate_credential_ok
    <3>3. DOMAIN runners' = DOMAIN runners /\ runners' = [s \in DOMAIN runners |-> runners'[s]]
      BY <3>1, <3>2
    <3>4. ASSUME NEW s \in DOMAIN runners PROVE runners'[s] \in Runner
      <4>1. runners[s] \in Runner
        BY <3>1
      <4>2. CASE s # r
        BY <3>2, <4>1, <4>2
      <4>3. CASE s = r
        <5>1. runners'[s] = [runners[s] EXCEPT !.state = "Registered", !.credential_ref = next]
          BY <3>2, <4>3
        <5> QED BY <4>1, <5>1 DEF Runner, RunnerLifecycleState
      <4> QED BY <4>2, <4>3
    <3>5. runners' \in [DOMAIN runners' -> Runner]
      BY <3>3, <3>4
    <3> QED BY <3>1, <3>3, <3>5 DEF IsMap
  <2> QED BY <2>1, <2>2
<1>4. IsMap(grants', RunnerIds, CredentialRefs)
  BY WithIsMap DEF TypeOK, rotate_credential_ok, rotate_credential_half
<1> QED
  BY <1>1, <1>2, <1>3, <1>4 DEF TypeOK
(* A call that changes nothing but its reply keeps everything. *)
LEMMA TypeOKStep == TypeOK /\ [Next]_vars => TypeOK'
<1> SUFFICES ASSUME TypeOK, [Next]_vars PROVE TypeOK' OBVIOUS
<1>1. CASE UNCHANGED <<scenario, simulator, history>>
  BY <1>1 DEF TypeOK, simulator, history
<1>2. ASSUME NEW t \in TokenIds, NEW r \in RunnerIds, NEW ref \in CredentialRefs,
             register_runner(t, r, ref)
      PROVE  TypeOK'
  BY <1>1, <1>2, RegisterTypeOK DEF register_runner, register_runner_err
<1>3. ASSUME NEW r \in RunnerIds, NEW current \in CredentialRefs, NEW next \in CredentialRefs,
             rotate_credential(r, current, next)
      PROVE  TypeOK'
  BY <1>1, <1>3, RotateTypeOK DEF rotate_credential, rotate_credential_err
<1>4. ASSUME NEW r \in RunnerIds, evaluate_lease(r) PROVE TypeOK'
  BY <1>1, <1>4 DEF evaluate_lease
<1>5. CASE UNCHANGED vars
  BY <1>1, <1>5 DEF vars
<1> QED BY <1>2, <1>3, <1>4, <1>5 DEF Next

(* Every call of register_runner, rotate_credential and evaluate_lease, in *)
(* any order and from any scenario, leaves the simulator's three maps      *)
(* well typed: no call writes a field of the wrong kind and none adds a    *)
(* token or a credential.                                                  *)
THEOREM SpecTypeOK == Spec => []TypeOK
<1> QED BY InitTypeOK, TypeOKStep, PTL DEF Spec

-----------------------------------------------------------------------------
(* Tokens *)

(* A registration spends a fresh token that no registration has used.      *)
LEMMA RegisterSpendsFresh ==
    ASSUME TypeOK, TokenInv, NEW t, NEW r, NEW ref, register_runner_ok(t, r, ref)
    PROVE  Fresh(t) /\ ~Spent(t) /\ t \in DOMAIN registration_tokens
<1>1. /\ t \in DOMAIN registration_tokens
      /\ registration_tokens[t].used_by_runner_id = None
      /\ registration_tokens[t].expires_at_tick > now_tick
  BY TokenErrorIsUse DEF register_runner_ok, RegisterError
<1>2. ~Spent(t)
  <2> SUFFICES ASSUME NEW n \in DOMAIN registrations, registrations[n].token = t
               PROVE  FALSE
    BY DEF Spent
  <2>1. registrations[n].runner = None
    BY <1>1 DEF TokenInv, RegistrationsSpend
  <2>2. registrations[n].runner \in RunnerIds
    <3>1. registrations \in Seq([token : TokenIds, runner : RunnerIds])
      BY DEF TypeOK
    <3>2. registrations[n] \in [token : TokenIds, runner : RunnerIds]
      BY <3>1, LenProperties, ElementOfSeq
    <3> QED BY <3>2
  <2> QED BY <2>1, <2>2, NoneAssumption
<1>3. registration_tokens[t] = scenario.registration_tokens[t]
  BY <1>1, <1>2 DEF TokenInv, OthersKept
<1>4. t \in DOMAIN scenario.registration_tokens
  BY <1>1 DEF TypeOK
<1> QED BY <1>1, <1>2, <1>3, <1>4 DEF Fresh

(* A registration that succeeds keeps the account of the tokens. *)
LEMMA RegisterTokenInv ==
    ASSUME TypeOK, TokenInv, NEW t \in TokenIds, NEW r \in RunnerIds,
           NEW ref \in CredentialRefs, register_runner_ok(t, r, ref)
    PROVE  TokenInv'
<1> DEFINE k == Len(registrations)
           one == [token |-> t, runner |-> r]
<1>1. Fresh(t) /\ ~Spent(t) /\ t \in DOMAIN registration_tokens
  BY RegisterSpendsFresh
<1>2. /\ k \in Nat
      /\ DOMAIN registrations = 1..k
      /\ DOMAIN registrations' = 1..(k + 1)
      /\ registrations'[k + 1] = one
      /\ \A n \in 1..k : registrations'[n] = registrations[n]
  BY DEF TypeOK, register_runner_ok
<1>3. \A n \in DOMAIN registrations' :
         \/ n \in DOMAIN registrations /\ registrations'[n] = registrations[n]
         \/ n = k + 1 /\ registrations'[n] = one
  BY <1>2
<1>4. scenario' = scenario
  BY DEF register_runner_ok
<1>5. /\ DOMAIN registration_tokens' = DOMAIN registration_tokens
      /\ registration_tokens'[t].used_by_runner_id = r
      /\ \A u \in DOMAIN registration_tokens : u # t =>
            registration_tokens'[u] = registration_tokens[u]
  <2>1. /\ registration_tokens \in [DOMAIN scenario.registration_tokens -> Token]
        /\ registration_tokens' = [registration_tokens EXCEPT ![t].used_by_runner_id = r]
    BY DEF TypeOK, register_runner_ok
  <2> QED BY <1>1, <2>1 DEF Token
<1>6. TokensDistinct'
  <2> SUFFICES ASSUME NEW m \in DOMAIN registrations', NEW n \in DOMAIN registrations',
                      registrations'[m].token = registrations'[n].token
               PROVE  m = n
    BY DEF TokensDistinct
  <2> QED BY <1>1, <1>3 DEF TokenInv, TokensDistinct, Spent
<1>7. RegistrationsSpend'
  <2> SUFFICES ASSUME NEW n \in DOMAIN registrations'
               PROVE  /\ Fresh(registrations'[n].token)
                      /\ registration_tokens'[registrations'[n].token].used_by_runner_id
                            = registrations'[n].runner
    <3>1. \A u : Fresh(u)' <=> Fresh(u)
      BY <1>4 DEF Fresh, now_tick
    <3> QED BY <1>4 DEF RegistrationsSpend, Fresh, now_tick
  <2>1. CASE n \in DOMAIN registrations /\ registrations'[n] = registrations[n]
    <3>1. /\ Fresh(registrations[n].token)
          /\ registration_tokens[registrations[n].token].used_by_runner_id
                = registrations[n].runner
      BY <2>1 DEF TokenInv, RegistrationsSpend
    <3>2. registrations[n].token # t /\ registrations[n].token \in DOMAIN registration_tokens
      BY <1>1, <2>1, <3>1 DEF Spent, Fresh, TypeOK
    <3>3. registration_tokens'[registrations[n].token] = registration_tokens[registrations[n].token]
      BY <1>5, <3>2
    <3> QED BY <2>1, <3>1, <3>3
  <2>2. CASE n = k + 1 /\ registrations'[n] = one
    BY <1>1, <1>5, <2>2
  <2> QED BY <1>3, <2>1, <2>2
<1>8. OthersKept'
  <2>1. \A u : Spent(u) => Spent(u)'
    BY <1>2 DEF Spent
  <2>2. Spent(t)'
    BY <1>2 DEF Spent
  <2> SUFFICES ASSUME NEW u \in DOMAIN registration_tokens
               PROVE  Spent(u)' \/ registration_tokens'[u] = scenario.registration_tokens[u]
    BY <1>4, <1>5 DEF OthersKept
  <2> QED BY <1>5, <2>1, <2>2 DEF TokenInv, OthersKept
<1> QED BY <1>6, <1>7, <1>8 DEF TokenInv

(* The account of the tokens depends on the scenario, the tokens and the   *)
(* registrations alone.                                                    *)
LEMMA TokenInvKept ==
    ASSUME TokenInv, UNCHANGED <<scenario, registration_tokens, registrations>>
    PROVE  TokenInv'
BY DEF TokenInv, TokensDistinct, RegistrationsSpend, OthersKept, Fresh, Spent, now_tick

(* When a scenario is loaded no token is spent. *)
LEMMA InitTokenInv == Init => TokenInv
BY DEF Init, TokenInv, TokensDistinct, RegistrationsSpend, OthersKept

(* No call breaks the accounts of the tokens. *)
LEMMA TokenInvStep == TypeOK /\ TokenInv /\ [Next]_vars => TokenInv'
<1> SUFFICES ASSUME TypeOK, TokenInv, [Next]_vars PROVE TokenInv' OBVIOUS
<1>1. CASE UNCHANGED <<scenario, simulator, history>>
  BY <1>1, TokenInvKept DEF simulator, history
<1>2. ASSUME NEW t \in TokenIds, NEW r \in RunnerIds, NEW ref \in CredentialRefs,
             register_runner(t, r, ref)
      PROVE  TokenInv'
  BY <1>1, <1>2, RegisterTokenInv DEF register_runner, register_runner_err
<1>3. ASSUME NEW r \in RunnerIds, NEW current \in CredentialRefs, NEW next \in CredentialRefs,
             rotate_credential(r, current, next)
      PROVE  TokenInv'
  BY <1>1, <1>3, TokenInvKept
     DEF rotate_credential, rotate_credential_ok, rotate_credential_half, rotate_credential_err
<1>4. ASSUME NEW r \in RunnerIds, evaluate_lease(r) PROVE TokenInv'
  BY <1>1, <1>4 DEF evaluate_lease
<1>5. CASE UNCHANGED vars
  BY <1>1, <1>5 DEF vars
<1> QED BY <1>2, <1>3, <1>4, <1>5 DEF Next
(* A token that registrations used names the runner of the one that did.   *)
LEMMA TokenInvAccounts == TypeOK /\ TokenInv => TokensAccounted
<1> SUFFICES ASSUME TypeOK, TokenInv PROVE TokensAccounted OBVIOUS
<1> SUFFICES ASSUME NEW t \in DOMAIN registration_tokens
             PROVE  LET was == scenario.registration_tokens[t]
                        by == {registrations[n].runner :
                                  n \in {n \in DOMAIN registrations : registrations[n].token = t}}
                    IN  IF by = {} THEN registration_tokens[t] = was
                        ELSE /\ was.used_by_runner_id = None
                             /\ was.expires_at_tick > now_tick
                             /\ by = {registration_tokens[t].used_by_runner_id}
  BY DEF TokensAccounted, TokenInv, TokensDistinct
<1> DEFINE by == {registrations[n].runner :
                     n \in {n \in DOMAIN registrations : registrations[n].token = t}}
<1>1. CASE ~Spent(t)
  <2>1. by = {}
    BY <1>1 DEF Spent
  <2> QED BY <1>1, <2>1 DEF TokenInv, OthersKept
<1>2. CASE Spent(t)
  <2>1. PICK n \in DOMAIN registrations : registrations[n].token = t
    BY <1>2 DEF Spent
  <2>2. \A m \in DOMAIN registrations : registrations[m].token = t => m = n
    BY <2>1 DEF TokenInv, TokensDistinct
  <2>3. by = {registrations[n].runner}
    BY <2>1, <2>2
  <2>4. /\ Fresh(t)
        /\ registration_tokens[t].used_by_runner_id = registrations[n].runner
    BY <2>1 DEF TokenInv, RegistrationsSpend
  <2> QED BY <2>3, <2>4 DEF Fresh
<1> QED BY <1>1, <1>2

(* A registration token registers at most one runner, only one that was    *)
(* unused and unexpired does, and it names that runner from then on,       *)
(* whatever calls of register_runner and rotate_credential follow.         *)
THEOREM SpecTokensAccounted == Spec => []TokensAccounted
<1>1. Spec => []TokenInv
  BY SpecTypeOK, InitTokenInv, TokenInvStep, PTL DEF Spec
<1> QED BY <1>1, SpecTypeOK, TokenInvAccounts, PTL

-----------------------------------------------------------------------------
(* Leases *)

(* In a scenario as it is loaded nothing is granted and nothing retired. *)
LEMMA InitLeaseInv == Init => LeaseInv
<1> SUFFICES ASSUME Init PROVE LeaseInv OBVIOUS
<1>1. TypeOK
  BY InitTypeOK
<1>2. RetiredAreInactive
  BY DEF Init, RetiredAreInactive
<1>3. GrantsAreHeld
  BY DEF Init, GrantsAreHeld
<1>4. UngrantedAreKept
  BY DEF Init, UngrantedAreKept
<1> QED BY <1>2, <1>3, <1>4 DEF LeaseInv

(* A credential that may be used could be used when the scenario was       *)
(* loaded, and none was retired since.                                     *)
LEMMA UsableIsUnretired ==
    ASSUME TypeOK, RetiredAreInactive, NEW ref
    PROVE  Usable(credentials, ref) <=> Usable(scenario.credentials, ref) /\ ref \notin retired
<1>1. DOMAIN credentials = DOMAIN scenario.credentials
  BY DEF TypeOK
<1> QED BY <1>1 DEF Usable, RetiredAreInactive

(* Granting a runner a usable credential keeps the other runners' grants.  *)
LEMMA GrantLeaseInv ==
    ASSUME TypeOK, LeaseInv, NEW r \in RunnerIds, NEW ref \in CredentialRefs,
           Usable(credentials, ref), scenario' = scenario, grants' = With(grants, r, ref),
           r \in DOMAIN runners', DOMAIN runners' = DOMAIN runners \cup {r},
           runners'[r].state = "Registered", runners'[r].credential_ref = ref,
           \A s \in DOMAIN runners : s # r => runners'[s] = runners[s]
    PROVE  GrantsAreHeld' /\ UngrantedAreKept'
<1>1. /\ DOMAIN grants' = DOMAIN grants \cup {r}
      /\ grants'[r] = ref
      /\ \A s \in DOMAIN grants : s # r => grants'[s] = grants[s]
  BY DEF With
<1>2. Usable(scenario.credentials, ref)
  BY UsableIsUnretired DEF LeaseInv
<1>3. GrantsAreHeld'
  <2> SUFFICES ASSUME NEW s \in DOMAIN grants'
               PROVE  /\ s \in DOMAIN runners'
                      /\ runners'[s].state = "Registered"
                      /\ runners'[s].credential_ref = grants'[s]
                      /\ Usable(scenario.credentials, grants'[s])
    BY DEF GrantsAreHeld, Usable, now_tick
  <2>1. CASE s = r
    BY <1>1, <1>2, <2>1
  <2>2. CASE s # r
    BY <1>1, <2>2 DEF LeaseInv, GrantsAreHeld
  <2> QED BY <2>1, <2>2
<1>4. UngrantedAreKept'
  BY <1>1 DEF LeaseInv, UngrantedAreKept
<1> QED BY <1>3, <1>4

(* A registration grants its runner a credential that is usable, and      *)
(* leaves every other runner as it is.                                     *)
LEMMA RegisterLeaseInv ==
    ASSUME TypeOK, LeaseInv, NEW t \in TokenIds, NEW r \in RunnerIds,
           NEW ref \in CredentialRefs, register_runner_ok(t, r, ref)
    PROVE  LeaseInv'
<1>1. Usable(credentials, ref)
  BY CredentialErrorIsUsable DEF register_runner_ok, RegisterError
<1>2. RetiredAreInactive'
  BY DEF register_runner_ok, LeaseInv, RetiredAreInactive
<1>3. GrantsAreHeld' /\ UngrantedAreKept'
  <2>1. /\ r \in DOMAIN runners'
        /\ DOMAIN runners' = DOMAIN runners \cup {r}
        /\ runners'[r].state = "Registered"
        /\ runners'[r].credential_ref = ref
        /\ \A s \in DOMAIN runners : s # r => runners'[s] = runners[s]
    BY DEF register_runner_ok, With
  <2>2. scenario' = scenario /\ grants' = With(grants, r, ref)
    BY DEF register_runner_ok
  <2> QED BY <1>1, <2>1, <2>2, GrantLeaseInv
<1> QED BY <1>2, <1>3 DEF LeaseInv

(* Taking a credential out of service retires it and no other one.         *)
LEMMA DeactivateRetires ==
    ASSUME TypeOK, LeaseInv, NEW current, scenario' = scenario,
           credentials' = Deactivated(current), retired' = retired \cup {current}
    PROVE  RetiredAreInactive'
<1>1. credentials \in [DOMAIN scenario.credentials -> Credential]
  BY DEF TypeOK
<1>2. /\ DOMAIN credentials' = DOMAIN credentials
      /\ \A c \in DOMAIN credentials :
            /\ credentials'[c].expires_at_tick = credentials[c].expires_at_tick
            /\ credentials'[c].active <=> credentials[c].active /\ c # current
  BY <1>1 DEF Deactivated, Credential
<1>3. \A c \in DOMAIN credentials : c \in retired' <=> c \in retired \/ c = current
  OBVIOUS
<1> QED BY <1>2, <1>3 DEF LeaseInv, RetiredAreInactive

(* A rotation retires the credential it began from, also where it then     *)
(* fails, and grants its runner the next only where it succeeds.           *)
LEMMA RotateLeaseInv ==
    ASSUME TypeOK, LeaseInv, NEW r \in RunnerIds, NEW current \in CredentialRefs,
           NEW next \in CredentialRefs,
           rotate_credential_ok(r, current, next) \/ rotate_credential_half(r, current, next)
    PROVE  LeaseInv'
<1>1. RetiredAreInactive'
  BY DeactivateRetires DEF rotate_credential_ok, rotate_credential_half
<1>2. CASE rotate_credential_half(r, current, next)
  <2>1. GrantsAreHeld' /\ UngrantedAreKept'
    BY <1>2 DEF rotate_credential_half, LeaseInv, GrantsAreHeld, UngrantedAreKept, Usable, now_tick
  <2> QED BY <1>1, <2>1 DEF LeaseInv
<1>3. CASE rotate_credential_ok(r, current, next)
  <2>1. Usable(credentials, next)
    BY <1>3, NextErrorIsUsable DEF rotate_credential_ok
  <2>2. r \in DOMAIN runners
    BY <1>3 DEF rotate_credential_ok, CurrentError
  <2>3. runners \in [DOMAIN runners -> Runner]
    BY DEF IsMap, TypeOK
  <2>4. /\ DOMAIN runners' = DOMAIN runners \cup {r}
        /\ r \in DOMAIN runners'
        /\ runners'[r].state = "Registered"
        /\ runners'[r].credential_ref = next
        /\ \A s \in DOMAIN runners : s # r => runners'[s] = runners[s]
    BY <1>3, <2>2, <2>3 DEF rotate_credential_ok, Runner
  <2>5. scenario' = scenario /\ grants' = With(grants, r, next)
    BY <1>3 DEF rotate_credential_ok
  <2>6. GrantsAreHeld' /\ UngrantedAreKept'
    BY <2>1, <2>4, <2>5, GrantLeaseInv
  <2> QED BY <1>1, <2>6 DEF LeaseInv
<1> QED BY <1>2, <1>3

(* No call breaks what is known of grants and rotations. *)
LEMMA LeaseInvStep == TypeOK /\ LeaseInv /\ [Next]_vars => LeaseInv'
<1> SUFFICES ASSUME TypeOK, LeaseInv, [Next]_vars PROVE LeaseInv' OBVIOUS
<1>1. CASE UNCHANGED <<scenario, simulator, history>>
  BY <1>1 DEF simulator, history, LeaseInv, RetiredAreInactive, GrantsAreHeld,
              UngrantedAreKept, Usable, now_tick
<1>2. ASSUME NEW t \in TokenIds, NEW r \in RunnerIds, NEW ref \in CredentialRefs,
             register_runner(t, r, ref)
      PROVE  LeaseInv'
  BY <1>1, <1>2, RegisterLeaseInv DEF register_runner, register_runner_err
<1>3. ASSUME NEW r \in RunnerIds, NEW current \in CredentialRefs, NEW next \in CredentialRefs,
             rotate_credential(r, current, next)
      PROVE  LeaseInv'
  BY <1>1, <1>3, RotateLeaseInv DEF rotate_credential, rotate_credential_err
<1>4. ASSUME NEW r \in RunnerIds, evaluate_lease(r) PROVE LeaseInv'
  BY <1>1, <1>4 DEF evaluate_lease
<1>5. CASE UNCHANGED vars
  BY <1>1, <1>5 DEF vars
<1> QED BY <1>2, <1>3, <1>4, <1>5 DEF Next

(* Who may take a lease is decided by the grants and the rotations alone.  *)
LEMMA LeaseInvFollows == TypeOK /\ LeaseInv => LeasesFollowGrants
<1> SUFFICES ASSUME TypeOK, LeaseInv, NEW r \in RunnerIds
             PROVE  Accepts(r) <=>
                       IF r \in DOMAIN grants THEN grants[r] \notin retired
                       ELSE AcceptedInScenario(r) /\ scenario.runners[r].credential_ref \notin retired
  BY DEF LeasesFollowGrants
<1>1. Accepts(r) <=>
         /\ r \in DOMAIN runners
         /\ runners[r].state = "Registered"
         /\ Usable(credentials, runners[r].credential_ref)
  BY AcceptsIsRegisteredAndUsable
<1>2. Accepts(r) <=>
         /\ r \in DOMAIN runners
         /\ runners[r].state = "Registered"
         /\ Usable(scenario.credentials, runners[r].credential_ref)
         /\ runners[r].credential_ref \notin retired
  BY <1>1, UsableIsUnretired DEF LeaseInv
<1>3. CASE r \in DOMAIN grants
  BY <1>2, <1>3 DEF LeaseInv, GrantsAreHeld
<1>4. CASE r \notin DOMAIN grants
  BY <1>2, <1>4 DEF LeaseInv, UngrantedAreKept, AcceptedInScenario, Usable
<1> QED BY <1>3, <1>4

(* A runner may take a lease exactly while the credential it was last      *)
(* granted, or the scenario's if none was, has not been rotated out by     *)
(* anyone: in particular a rotation that fails half way stops every holder *)
(* of the credential it deactivated, for good, and no runner that holds    *)
(* another one.                                                            *)
THEOREM SpecLeasesFollowGrants == Spec => []LeasesFollowGrants
<1>1. Spec => []LeaseInv
  BY SpecTypeOK, InitLeaseInv, LeaseInvStep, PTL DEF Spec
<1> QED BY <1>1, SpecTypeOK, LeaseInvFollows, PTL
=============================================================================
