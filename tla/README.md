# A verification project for taskotter-remote

TLA+ models of the runner in `src/`, TLC configurations that check them, and
TLAPS proofs about each of its parts. Source paths below are relative to the repository;
`dispatch_auth.rs` and the other bare names are in `src/src/`.

## The system

taskotter-remote is the runner of a control plane: a library and a small command
line. It keeps no thread, socket, file or database of its own at this commit. Its
state is in values that a caller owns (a replay cache, a lifecycle simulator, a
job lifecycle), so concurrency and failure come from outside: what the transport
delivers, in which order callers call, and when the process ends.

| part | state | operations | talks to |
| --- | --- | --- | --- |
| signed dispatch boundary, `dispatch_auth.rs` | replay keys seen (`InMemoryDispatchReplayCache`); the registry, the clock and the runner id are arguments of every call | `sign_dispatch_instruction`, `verify_dispatch_instruction`, registry lookup, cache | the control plane through a transport; wire types |
| runner lifecycle simulator, `runner_lifecycle.rs` | tokens, credentials, runner records, a fixed tick | `register_runner`, `rotate_credential`, `evaluate_lease` | any caller |
| job lifecycle and built-in adapters, `job.rs` | one `JobState` per job | `transition`, `run_noop_or_echo`, `simulate_noop_lifecycle`, `lease_from_dispatch` | the daemon; wire types |
| one-shot daemon, `daemon.rs`, `main.rs` | configuration and capability snapshot of a process that runs one command | load the file, `run_once` makes nine envelopes, print them | the operator's file; job lifecycle, capabilities |
| adapter planning, `adapters.rs` | none | `plan_adapter_execution`, `validate_adapter_result_phase` | gates, capabilities |
| gates, inventory, configuration: `gates.rs`, `capabilities.rs`, `config.rs` | none (a snapshot is made at start) | `evaluate_high_risk_capability`, `discover`, `validate` | adapter planning, daemon |
| job isolation and redaction, `isolation.rs` | a plan per dispatch, which its caller keeps | `plan_job_isolation`, `owns`, `assert_cleanup_safe`, `redact_*` | job code, logs |
| operator diagnostics, `diagnostics.rs` | a JSON value redacted in place | `operator_diagnostics`, redaction by key name | configuration, capabilities |
| wire types and schemas: `protocol.rs`, `src/schemas/` | none | protocol version check | all |

What is hard, and what makes each part correct:

* **Signed dispatch boundary.** Messages are lost, repeated, reordered, delayed
  past their window and damaged; keys rotate while instructions are under way; the
  clock is whatever the caller passes and does not have to advance; a restart
  empties the cache. Correct means: only what signers made is accepted, in its
  window, at its addressee and under a key in force; an identity is accepted at
  most once per life of the cache; a refused call leaves no trace; a genuine, fresh
  instruction is not lost; and an answer of `ReplayDetected` is true.
* **Runner lifecycle.** Several runners share a credential; operations fail half
  way; ids are registered again. Correct means: a token is spent once and only by a
  registration that succeeded, and lease decisions follow exactly the grants and
  rotations so far.
* **Job lifecycle.** Any caller may ask for any transition, and the functions that
  drive it choose their evidence apart from the transitions they ask for. Correct
  means: the way a job ended tells what it went through, and the evidence agrees
  with it.
* **Planning, gates, inventory.** The control plane chooses a job by an inventory that
  may be older than the running configuration; flags are advertised by one table and
  gated by another; adapter ids may repeat. Correct means: a plan is authorised by the
  configuration it is made under, and a current inventory promises nothing that is
  then refused.
* **Redaction and diagnostics.** A scan that restarts on the rest of the text behind
  each secret, with a prefix inside another run, a run that ends with the text, a count
  of letters just too low; chunks that are redacted again on their way; trees redacted
  by key and by shape, with sensitive keys over lists and objects. Correct means:
  exactly the secret-shaped stretches and what stands under sensitive keys go, flags
  are true, diagnostics still tell the operator what they are for, and every redaction
  ends.
* **Isolation.** Directories are labels joined from ids; the environment changes between
  plans, and a job may be dispatched twice with other boundaries; files are left and
  cleaned up in several attempts, some of which fail. Correct means: the directories of
  two jobs never overlap, a plan holds what its own dispatch and moment gave it, a job
  is let at that and no more, and the guard passes only where nothing sensitive is left.
* **One-shot daemon.** The file is edited while processes run, and a process may die
  between any two envelopes. Correct means: what is printed of a job stands on a lease
  and heartbeat printed before, agrees with one valid file, and stays in its boundaries.

`PROJECT.json` lists the hazards one by one, at their lines, with the properties
that cover them.

## Modules

| module | what it is |
| --- | --- |
| `DispatchAuth` | the signed dispatch boundary with its environment |
| `DispatchGate` | what that boundary promises, without keys, clocks and transport |
| `MCDispatchAuth` | constants for its runs |
| `DispatchAuthProofs` | theorems about it |
| `RunnerLifecycle`, `MCRunnerLifecycle` | the lifecycle simulator and two scenarios |
| `RunnerLifecycleProofs` | theorems about it, for every scenario |
| `JobLifecycle` | a job and what drives it |
| `JobPhases` | the phases a job goes through as the control plane sees it |
| `JobLifecycleProofs` | theorems about the lifecycle, its implementing `JobPhases` included |
| `AdapterPlan`, `MCAdapterPlan` | the adapter a job is planned on, with the gates, the daemon's configuration and the inventory; four configurations and every dispatch over their words |
| `AdapterPlanProofs` | theorems about it, for every set of configurations and jobs |
| `JobIsolation`, `MCJobIsolation` | the plans of several jobs, their accesses, and cleaning up after them |
| `JobIsolationProofs` | theorems about it |
| `Redaction` | the scan for secret-shaped values, turn by turn, and the redaction of a chunk |
| `Redactors`, `MCRedactors` | extends it: the redaction of chunks, of JSON values by shape and by key, and of the operator diagnostics |
| `RedactionProofs` | lemmas about secrets in texts of any length |
| `RedactorsProofs` | theorems about the redaction of chunks and of JSON values |
| `OneShotDaemon`, `MCOneShotDaemon` | processes of the command line, the operator's file, and what is printed |
| `OneShotDaemonProofs` | theorems about it, for every set of files |

Operators introduced by a comment "Deviation:" are no part of a model. Each is a
variant of the definition after it, with a plausible mistake; put in its place,
it must break the property `PROJECT.json` pairs it with.

### DispatchAuth

`seen` is the cache. `net` is the transport: an instruction once on it may arrive
any number of times, in any order, or never. `issued`, `accepted` and `life` are
history: what signers made, what was accepted in which life of the cache, and which
life this is. `call` holds the verification of this step with its arguments and its
outcome.

* `sign_dispatch_instruction` and `sign_refused`: signing (lines 116-138). A signer
  chooses a dispatch, a key pair, a key id and a window; nothing ties the key id to
  the pair.
* `verify_accepts`, `verify_refuses`: the whole of `verify_dispatch_instruction`
  (lines 140-197), as one step, because it takes the cache by `&mut`. `CheckOrder`
  lists the errors in the order of the checks and `Fails` gives the condition of
  each, so that the outcome is the first check that fails. The time, the registry
  and the runner id are chosen afresh in every call.
* `Garble`: a transport fault that changes one field of an instruction, or cuts or
  exchanges its signature bytes.
* `Restart`: the process starts again with an empty cache.

Signatures are ideal: bytes are the pair (key, payload) and verify only under that
key and for that payload. `canonical_signing_payload` is injective on what it
covers, which is what sorting the keys of a JSON object gives. Identifiers are
sequences of characters since `replay_key` joins them with colons; everything else
a dispatch carries is one atom, `input`.

### RunnerLifecycle

`registration_tokens`, `credentials` and `runners` are the three maps of
`RunnerLifecycleSimulator`; a map is a function on the keys it holds. `scenario`,
`registrations`, `grants` and `retired` are history. Each call is one step and each
of its ways out one disjunct: `rotate_credential_half` is the rotation that
deactivates the current credential (line 170) and then fails on the next one.

### JobLifecycle

`driver` is what drives the job: a caller of the library, who may ask for any
transition, or one of the two functions with their arguments. `Course` is the
sequence of transitions a function asks for; it asks one per step, ends with the
first that is refused, and otherwise returns `Answer`. `trail` is history.
`JobPhases` is implemented through the map `Phase` from states to phases.

### AdapterPlan

`config` and `capabilities` are the two fields of `RunnerDaemon`, set together by
`start_daemon` (`RunnerDaemon::new`); `inventory` is the capability snapshot the
control plane received last, which a later start does not take back; `decision` is
the plan or refusal of this step.

* `discover` is `RunnerCapabilities::discover`, with the flags advertised for each
  high-risk capability (`AdvertisedFlag`). `GateFlag` is the other table, in
  `gates.rs`.
* `Lookup` is `resolve_adapter_id`: the list of the job's sort, the first entry with
  the id. `CheckOrder` and `Refuses` are the checks of `plan_adapter_execution` with
  `validate_capability_boundaries`, in their order, the first refusal being the answer.
* `plan_ok` and `plan_refused` are the whole call. A job that names no adapter id, or
  a blank one, has `adapter_id = {}`; arguments that are no array of strings hold
  `Malformed`.

### JobIsolation

`ambient` is the environment the caller would pass now; `planned` holds each plan
with the dispatch and environment it was made from; `access` and `verdict` are what
`owns` and `assert_cleanup_safe` returned in this step. `disk` and `evidence` are the
files left and the evidence gathered about them.

* `plan_job` is `plan_job_isolation` (lines 58-86). Labels are sequences of characters
  with the words `jobs`, `workspaces` and `artifacts` as one character each, which may
  occur in ids too. `LastValue` is what collecting pairs into a `BTreeMap` keeps.
* `check_access` is `JobIsolationPlan::owns` for a plan and a resource that some plan
  gives its job; `environment_changes`, `leave_file` and `clean_up` are the surroundings.
* `assert_cleanup_safe` (lines 114-124) is asked once every file still there is reported
  as `Residual`: the guard sees evidence only, so what it can promise depends on that.

### Redaction and Redactors

`text` is the input, `cursor`, `output` and `redacted` the three local variables of
`redact_secret_shaped_values` (lines 165-183); `replace` and `copy_rest` are the two
branches of a turn of its loop. What `find_secret_shaped_substring` finds depends only
on the text from the cursor on, so that the slice it is given is a position. The marker
is one character, since no prefix begins in it and its brackets end every run.
`emitted` is the chunk the adapter emitted, `chunk` the chunk as it is;
`redact_log_chunk` is the return of that function, `call_again` another call of it on
the way. The scan belongs to a chunk, or in `Redactors` to the string at position `at`
of a JSON value.

In `Redactors` a JSON value is the function from its positions (sequences of keys and
indices) to what is there; `IsTree` says which functions are values. A key is a text like
any other, of which a whole word (`token`, `registration`) is one character and counts as
one letter; the underscores between words are characters of their own. So a placeholder,
which repeats its key, can look like a secret (`RedactedKey`), as in the code. `[REDACTED:`
is one character that ends every run, because of its colon, and so is `]`.

`due` holds the positions whose call of the redactor last asked for is still to come:
`redact_json_value` and `redact_sensitive_values` are one recursive call each, on the
value in place. `operator_diagnostics` starts the second on a `Snapshot`. `original` and
`passes` are history, from which `Reference` says what must come out.

### OneShotDaemon

`file` is the configuration file, edited by the operator at any time (`edit_file`);
`command`, `status`, `config`, `due` and `out` are the process: what it was started for,
how far it is, the configuration it loaded, what it has yet to print and has printed.
`load_config` and `load_config_fails` are one reading of the file (`LoadResult` is
`from_path`, `from_toml_str` and `validate`); `ToPrint` is what each command makes of it
in one piece; `print_next` is one `println!`; `kill` and `start` end and restart
processes. `Blank` is the set of texts of which `trim` leaves nothing; a file with such a
control plane or variable name does not pass `validate`.

## Runs

| run | what it explores and shows |
| --- | --- |
| `delivery` | two instructions out of three dispatches (a retry of the same identity with another lease and body, another idempotency key), signed by either key, over two lives: at most one acceptance of an identity per life, an exact cache, true replay answers, and the refinement of `DispatchGate` |
| `windows` | one instruction of many signing times and expiries and a copy with one field changed, at every time, against every stage of a rotation, with another addressee, an unsupported version and a blank field: accepted only when genuine, and always when genuine and fresh; the copy is not accepted, does not use up the identity and is not answered as a replay |
| `lifecycle` | every order of calls over two scenarios (two holders of one credential, one of them withdrawn; lapsed, inactive and missing credentials): tokens accounted for, lease decisions equal to what grants and rotations say |
| `job` | all of `JobLifecycle`, which is finite: the earned end of a job, courses never refused, true evidence, and the refinement of `JobPhases` |
| `plan` | starts with four configurations in any order, inventories that are current or not, and every dispatch over their words: plans are authorised, current inventories are honoured |
| `isolation` | two plans out of five dispatches (ids empty, beginning each other, or words of the labels; one job three times), a changing environment, up to two files and two attempts to clean up: directories apart, environments scoped, accesses by plan, a guard that means clean |
| `redaction` | every line of up to seven characters as a chunk, flagged or not, once or twice: exactly the secrets replaced, none left, a true flag; values up to three deep, one of their keys itself secret-shaped, and diagnostics under both redactors, up to twice in either order: exactly the sensitive gone, the state kept; an end to every redaction |
| `one_shot` | every command over sixteen good files and eight bad ones, edits and kills at any time: evidence stands on a lease, output agrees with one valid file in all settings it shows, runs stay in their boundaries of credential and group |
| `colon` | violated: see below |
| `not_before` | violated: see below |
| `withdrawn` | violated: see below |
| `runtime` | violated: see below |

Four runs end in a counterexample, each a disagreement of the code with what the
repository says of it:

* `colon`: `replay_key` joins runner, job and idempotency key with `:` and escapes
  nothing. Job `j:i` with key `i` and job `j` with key `i:i` have one replay key, so
  after one the other is refused as a replay of something that never arrived.
* `not_before`: the schema's validation summary of a signed instruction says
  `reject_expired_or_not_yet_valid`; `verify_dispatch_instruction` never reads
  `not_before`.
* `withdrawn`: the test named
  `disabled_and_quarantined_runners_do_not_receive_new_leases` looks at the scenario
  as it is given; a rotation, or a registration under the same id, makes a
  disabled runner `Registered` again.
* `runtime`: `src/README.md`:146-147 says that `plan_adapter_execution` verifies that
  the runner advertised a matching capability. The id of a Claude Code job is looked
  up among all external agents and the runtime is not compared, so that the job is
  planned on an adapter of runtime `codex`.

Four more observations are kept in words and have no run:

* `plan_job_isolation` (`isolation.rs`:79) joins ids with slashes and escapes none: job
  `a` with workspace `a/workspaces/a` and job `a/workspaces/a` with workspace `a` have one
  workspace root. The test at line 255 is named
  `concurrent_jobs_do_not_share_workspace_artifact_or_unique_credential_refs`; its ids are
  plain words. `RootsAreApart` is checked and proved for ids without a slash.
* `src/README.md`:39 says that `allowed_working_groups` "scopes where the runner may accept
  work". `example_dispatch` (`daemon.rs`:167) takes its first entry; where the list is
  empty, its default, the run is for the bundled dispatch's own group, and nothing
  compares a dispatch's group with the list. `RunStaysInBoundaries` is about lists that
  are not empty.
* `redact_sensitive_values` replaces whatever a sensitive key holds, so that diagnostics
  without a credential placeholder (`null`) show `[REDACTED:credential_ref]` as those with
  one do.
* The placeholder of a sensitive key repeats the key (`diagnostics.rs`:103). A long one that
  begins with a secret prefix, such as `secret_manager_service_account_token`, makes the
  placeholder secret-shaped: `redact_json_value` after `redact_sensitive_values` leaves
  `[REDACTED:` and a marker and `]`, the other order shows the key. Nothing in `src/` applies
  the two to one value. `Reference` states which of the two comes out.

### Bounds

* `MaxU64` is 3 or 4, the last second of the clock. The code compares times and adds
  a skew once, so a clock needs room for times before, at and after each boundary
  and for a sum that passes its end; the rotation of `windows` has such a sum
  (retired at 2, skew 3).
* `MaxIssued`, `MaxNet`: two instructions are what a replay takes, and one damaged
  copy beside its original. Where `MaxNet` equals `MaxIssued`, as in `delivery`, nothing
  can be garbled; `windows` has room for a garbled copy.
* The contexts of `windows` sign at every time, under the old key's name, with expiries
  from 2 on: both retirements and ends of verification lie inside.
* `MaxLives` is 2: a life that may remember and one that must not.
* Identifiers have one character, three in `colon`; that is where they can collide.
* `RunnerLifecycle` has three runners, three tokens and four credential references,
  one of them in no scenario; tokens bound the registrations, and credentials only
  ever become inactive, so its state space is finite without another bound.
* `MCConfigs`: nothing configured; everything; the same adapters with other runtimes,
  boundaries and flags, so that an inventory goes stale in each direction; one id in
  every list and twice in each. The state of `AdapterPlan` is finite without a bound.
* `MaxLength` is 7, with one letter for all letters and digits, a space for all that
  ends a run, two prefixes of different length for lines and one for keys, and a least
  count of 2 for the 20 of the code: room for a secret, text that is none, and a second
  secret, and for runs one letter too short.
* `MaxCalls` and `MaxPasses` are 2: a redaction, and one of what is redacted already by
  the same or the other redactor. `MCValues` has each sort of key over each sort of
  value, next to another member, in lists and below lists; deeper nesting repeats the
  same call.
* `MaxPlans` is 2, since every property of plans speaks of two at most; `MaxFiles` and
  `MaxEvidence` are 2: a file that is done away with and one that stays, or two attempts
  at one file. The theorems cover all ids, plans and files.
* `MCFiles`: a file with and without each optional field a property reads, and one for
  each fault, two faults included, with three blank texts (none, a space, a tab). Its
  states are finite without a bound.

### Fairness

`Redactors` assumes `WF_vars(Work)`, where `Work` is the turns and calls of a redaction
that was asked for, one synchronous call that nothing interrupts; asking again is left
out of it. `Terminates` follows.

The other modules assume none and state no liveness. Every operation is a
synchronous call that returns; nothing in the repository schedules a second one,
retries or polls, and a transport that may lose everything promises no delivery.
That a genuine instruction is not lost is stated as a property of the step in which
it is verified (`GenuineIsAccepted`), which needs no fairness.

`job` and `redaction` turn deadlock checking off: a function that has returned is
done.

## Proofs

`DispatchAuthProofs` proves, for every value of the constants that satisfies the
assumptions of `DispatchAuth` (types of inputs; `Malformed` is no signature):

* `TypeCorrect`, `Spec => []TypeOK`, by the plain induction; one step per action.
* `ExactCache` and `OncePerLife`, from the invariant `CacheInv`: the cache is exactly
  the set of replay keys of this life's acceptances, no acceptance is from a later
  life, and no identity occurs twice in one life. `AtMostOncePerLife` alone is not
  inductive: without the exact cache the next acceptance could repeat an identity.
  The step needs that dispatches of one identity have one replay key.
* `Authenticity`, from `AuthInv`: all well-formed signature bytes on the transport
  are bytes some signer made, over the dispatch and metadata issued with them. A garbled
  message may carry them elsewhere, but bytes that verify fix every signed field, so
  the accepted instruction is an issued one. `SaturationIsExact` is where the
  saturating sum of the code is shown to agree with the unlimited sum of the property.
* `GateImplemented`, `Spec => ImplementsGate`: initial states map to initial states
  and every step to a step of `DispatchGate` or a stutter, from `CacheInv` and
  `AuthInv`.
* `Completeness`: where no identifier of a dispatch holds a colon (`ColonFree`), a
  genuine instruction whose identity is fresh is accepted. Its core is
  `JoinSplits`: colon-free texts can be read off their join. The assumption is
  needed: `colon` shows the behaviour without it.
* `ReplayAnswers`, also under `ColonFree`: an answer of `ReplayDetected` is about an
  instruction that a signer made and whose identity this life accepted. `CacheInv` gives
  the accepted identity behind the key, `AuthInv` the signer, because the signature is
  checked before the cache is asked.

`JobIsolationProofs` proves, for every set of dispatches and of environments:

* `TypeCorrect`, `DirectoriesAreApart`, `VariablesAreScoped` and `AccessIsByPlan`, from
  the invariant `PlanInv`: every plan is the plan of the dispatch and environment it is
  kept with. It is needed because a new plan is compared with all earlier ones, of which
  `RootsAreApart` alone does not say what they look like. `AccessInv` adds that a check
  was made of a resource that some plan gives.
* `DirectoriesAreApart` assumes `NoSlash`, that ids are made of characters other than
  the slash. `WorkspaceLabel` and `ArtifactLabel` say character by character what a label
  is; by `SameJob` two labels of which one begins the other name one job, since the slash
  behind the shorter id would be a character of the longer; then the word behind that
  slash tells workspaces from artifacts (`LabelsApart`). Without the assumption the
  theorem is false, see the observations below.
* `VariablesAreScoped` rests on `LastValueIs`: that a name which occurs has a last place.
* `PassedIsClean`, `Spec => []SafeMeansClean`, which is inductive.

`AdapterPlanProofs` proves, for every set of configurations and of dispatches that
satisfies the assumptions of `AdapterPlan`, also where adapters share ids:

* `PlansAreAuthorised`, `Spec => []PlanIsAuthorised`. The property speaks of the
  configuration and the plan is made from the capabilities, so that it is not inductive
  alone: `PlanInv` adds `Discovered`, which says that the capabilities are those
  discovered from the running configuration. `PassingIsPermitted` shows for a list of
  any length that passing the checks is being permitted by the first entry of the id.
* `InventoriesAreHonoured`, `Spec => InventoryIsHonoured`, an action property: each of
  the eight refusals contradicts what a current inventory shows of a welcome job. It is
  where the two tables of flags (`AdvertisedFlag` and `GateFlag`) have to agree.
* `SpecTypeOK`.

`RunnerLifecycleProofs` proves, for every scenario that can be loaded and calls in any
number and order:

* `SpecTypeOK`, the plain induction.
* `SpecTokensAccounted`, from `TokenInv`: no two registrations spent one token, each
  token they spent was fresh and names their runner, and every other one is as the
  scenario has it. The property compares a token with the set of its registrations; the
  invariant says the same one registration at a time, so that the next, whose token
  must name nobody yet, is seen to spend another.
* `SpecLeasesFollowGrants`, from `LeaseInv`: a credential is active exactly if the
  scenario has it active and no rotation retired it; a runner with a grant is
  `Registered` on that grant, which the scenario had usable; a runner without one is
  as the scenario has it. The property alone does not say what a rotation that
  fails half way leaves of the other holders of its credential.

`JobLifecycleProofs` proves, for callers that ask for any number of transitions:

* `SpecDriversAreNotRefused`, from `TrailInv` and `DriverInv`: a trail is
  the beginning of the main course, but for a last step that may be one of
  `Interruptions`; a driving function has behind it the beginning of its course and
  nothing was refused. By `TrailInv` a trail has at most nine states, so that the
  numbers in it are cases.
* `SpecTerminalIsEarned` and `SpecEvidenceIsTrue`, read off the same invariant.
* `JobImplementsPhases`, `Spec => ImplementsPhases`: each pair of `can_transition` is a
  step of `JobPhases` or a stutter.

`OneShotDaemonProofs` proves, for every set of files that satisfies `FilesAssumption`
(each field absent or of its type; no file need be valid) and every `Blank` that holds
the empty text:

* `SpecTypeOK`, `SpecEvidence`, `SpecBoundaries` and `SpecOneValidConfig`, from `PrintInv`:
  a process that prints has loaded one file that can be loaded, and what it printed
  followed by what is due is what its command makes of that file. The properties speak
  of what was printed only, while the file may be another one by now; the invariant
  keeps the file that was read as a witness. What remains is about the nine envelopes
  of `run_once`, of which a process that dies has printed a beginning.

`RedactionProofs` and `RedactorsProofs` prove, for all alphabets, sets of prefixes,
least counts and texts of any length that satisfy the assumptions of `Redaction`
(prefixes are made of the characters that runs are made of, the marker is none of them):

* `SpecNoSecretSurvives`, from `RedactInv`: the output so far is clean (no secret begins in
  it) and is empty or ends with a marker while the scan goes on. The property alone
  says nothing of a scan half way, whose output could join with the rest to a secret. The core
  is `CleanJoin`: clean texts with a marker between them are clean together, since no run
  crosses a marker; and what precedes the first secret of the rest is clean because a
  secret that began there would have been found first (`BeforeTurn`, `ReplaceIsClean`).
  `SecretMoves` says that being a secret depends on the run alone.
* `SpecFlagIsTrue`: the flag says that the line was changed. It rests on the same
  invariant, because the second redaction of a chunk must find nothing.
* `RunEnd` and `Find` are chosen with `CHOOSE`, and that there is something to choose is a
  claim about least numbers. `LeastElement` proves it without an induction rule, from the
  well-foundedness of strict inclusion of finite sets, with the sets `1..n`; `Reaches` is
  induction along an interval, over the set of the numbers reached.
* `SpecExactlySecrets`, from `ExactInv`: a scan has put out what `Redacted`, which has no
  order of search, makes of the text before the cursor, and the cursor is at a
  `Boundary` that no run passes. `UpToFollows` shows by `Reaches` that the recursive
  function in `Redacted` exists and obeys its equation; `CopiesPlain` and `MarksSecret`
  say what it makes of a stretch that is secret nowhere or everywhere; `PlainBefore` and
  `RunIsSecret` that the scan's stretches are such. A second redaction changes nothing
  because clean texts are kept (`CleanIsKept`).
* `SpecRedactedExactly`, for JSON values of any shape and size and any number of redactions
  in any order. `RedactedExactly` speaks of the value at rest only; `TreeInv` says what it
  is half way: a tree on its way from `Before`, what all passes but the last make of the
  original, to `Target`, what the last makes of it. In `Passing`, every node is as before or as
  it will be, and is as it will be unless a call is due at or above it; calls of the pass
  by keys are due under no sensitive key. `CallHandsOn`, `StringReturns` and
  `MembersReplaced` are the three kinds of step: a call hands on to the children, a string is
  replaced, the members under sensitive keys are cut off and replaced. A repeated pass
  changes nothing, and of the order of the passes only the last one matters, for the
  placeholders alone (`MadeScansTo`, `MadeKeysTo`): a scanned text is clean and stays as it
  is (`RedactedIsClean`, `RedactedStays`), whereas a placeholder is made anew by every pass
  by keys and scanned like any string by a pass by shape.
* `SpecTypeOK` of the same module, from that invariant and `RestInv`. `SnapshotTells` shows
  that what `operator_diagnostics` redacts is a value for every configuration, and which
  keys, texts and positions it has.
* `SpecDiagnostics`, `Spec => []DiagnosticsTellTheState`, for every configuration and
  options. `SpecRedactedExactly` says what a value at rest is in terms of what it was made
  from; `AskedInv` adds that this was the snapshot of what was asked about, and that
  `redact_sensitive_values` is among its passes. Of the keys of a snapshot only
  `credential_ref` is sensitive (`OnlyTheCredential`): a key with a sensitive ending has the
  sensitive word last (`SensitiveByItsLast`), which `token_env_name` has not. So everything
  else comes out as it went in, and the credential as a mark, unless `redact_json_value`
  was applied too, which the property leaves out. A text equal to the credential
  can come out only where another setting is that very text.

These two assume that callers' values are trees, that fields of configurations and
options are texts, an optional one one text at most, that `[REDACTED:` and `]` end a run,
and that the words of the snapshot's field names are letters in lower case, so that
`Lower` keeps them. Keys of callers' values are any texts. That a word counts as one letter
remains an abstraction: the theorems hold for every least count, but not with a weight of
its own for every word.

Model-checked only:

* `Terminates`: liveness is out of the prover's reach.
* What the four violated runs show.


## Not modelled

* Cryptography, JSON text and base64; see the abstractions above.
* In `OneShotDaemon`, constants, versions and times of the envelopes, the tables of the
  capability inventory (see `AdapterPlan`), logging, the warning about an unset token
  variable, and the text of TOML: a file is the fields it sets.
* In `Redactors`, members of the snapshot that are constants, numbers or tables with
  nothing to redact; the endpoints of the inventory stand for its lists of objects.
* The wire types without behaviour, which copy fields, and the schemas.
* Probing the host for runtimes (`capabilities.rs`, `which`): input.
* The metadata of an adapter plan, which copies fields of the configuration.

## Plan

Done: all modules above and their proofs; every safety invariant, action property and
refinement that a passing run checks is also a theorem. What would be next is `Runner`, a
composition in which a verified dispatch is planned, isolated and run by the job
lifecycle. The repository does not make this composition itself: nothing in `src/` calls
`verify_dispatch_instruction` or plans the isolation of a job it runs. It is to be stated once
there is code that does.

Recursive definitions stay recursive functions or folds in modules with theorems.
