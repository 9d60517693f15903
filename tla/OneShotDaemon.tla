---------------------------- MODULE OneShotDaemon ----------------------------
(***************************************************************************)
(* The runner's command line (src/main.rs): a process loads the            *)
(* configuration file (src/config.rs), makes what its command prints, the  *)
(* evidence of one run of the bundled echo dispatch among it               *)
(* (src/daemon.rs), and prints it piece by piece.  The operator edits the  *)
(* file at any time, and the process may be killed, or lose its output, at *)
(* any time and be started again.                                          *)
(*                                                                         *)
(* An Option is a set of at most one element.  A field of a configuration  *)
(* file that may be absent is an Option too.                               *)
(***************************************************************************)
EXTENDS Integers, Sequences

CONSTANTS
    Files,  \* contents the operator gives the configuration file
    Blank   \* texts of which nothing is left when white space is trimmed

Commands == {"PrintCapabilities", "Register", "RunOnce", "Diagnostics"}

Unreadable == [is |-> "unreadable"]
NotToml == [is |-> "not TOML"]

ASSUME BlankAssumption == "" \in Blank /\ Blank \subseteq STRING

IsOption(o, S) == o \subseteq S /\ \A x, y \in o : x = y

(* RemoteConfig as a TOML file may give it. *)
IsFile(f) ==
    \/ f \in {Unreadable, NotToml}
    \/ /\ IsOption(f.control_plane_url, STRING)
       /\ IsOption(f.runner_id, STRING)
       /\ IsOption(f.registration_token_env, STRING)
       /\ IsOption(f.credential_placeholder, STRING)
       /\ IsOption(f.max_concurrency, 0..(2^16 - 1))
       /\ IsOption(f.allowed_working_groups, Seq(STRING))
       /\ IsOption(f.env_allowlist, Seq(STRING))
       /\ IsOption(f.risky_action_allowlist, Seq(STRING))
       /\ IsOption(f.job_timeout_seconds, Nat)

ASSUME FilesAssumption == \A f \in Files : IsFile(f)

(* fixtures/control-plane/job-dispatch-echo.json. *)
Fixture ==
    [lease_id |-> "lease_fixture_001",
     job_id |-> "job_fixture_echo_001",
     runner_id |-> "local-dev-runner",
     correlation_id |-> "corr_fixture_echo_001",
     timeout_seconds |-> 60,
     working_group_id |-> "wg-dev",
     allowed_env |-> <<"PATH", "TMPDIR">>,
     risky_actions |-> <<"write_job_workspace">>,
     scoped_credential_ref |-> {"runner-scoped-credential-ref"}]

-----------------------------------------------------------------------------
(* Configuration *)

OptionOf(S, default) == IF S = {} THEN default ELSE CHOOSE x \in S : TRUE

Required == {"control_plane_url", "registration_token_env"}

(* The file as deserialized, with the defaults of absent fields. *)
Parsed(f) ==
    [control_plane_url |-> OptionOf(f.control_plane_url, ""),
     runner_id |-> f.runner_id,
     registration_token_env |-> OptionOf(f.registration_token_env, ""),
     credential_placeholder |-> f.credential_placeholder,
     max_concurrency |-> OptionOf(f.max_concurrency, 1),
     allowed_working_groups |-> OptionOf(f.allowed_working_groups, <<>>),
     env_allowlist |-> OptionOf(f.env_allowlist, <<>>),
     risky_action_allowlist |-> OptionOf(f.risky_action_allowlist, <<>>),
     job_timeout_seconds |-> OptionOf(f.job_timeout_seconds, 1800)]

Parses(f) ==
    /\ f \notin {Unreadable, NotToml}
    /\ \A field \in Required : f[field] # {}

(* RemoteConfig::validate *)
validate(c) ==
    IF c.control_plane_url \in Blank THEN "EmptyControlPlaneUrl"
    ELSE IF c.registration_token_env \in Blank THEN "EmptyRegistrationTokenEnv"
    ELSE IF c.max_concurrency = 0 THEN "EmptyConcurrency"
    ELSE "Ok"

(* What loading the file answers. *)
LoadResult(f) ==
    IF f = Unreadable THEN "Read"
    ELSE IF ~Parses(f) THEN "Parse"
    ELSE validate(Parsed(f))

-----------------------------------------------------------------------------
(* What is printed.  Versions, and values that are always the same, are    *)
(* left out unless a property reads them.                                  *)

RunnerId(c) == OptionOf(c.runner_id, "unregistered-local-runner")

(* Deviation: the fixture's credential stays where none is configured. *)
DispatchKeepingCredential(c) ==
    [Fixture EXCEPT
        !.runner_id = RunnerId(c),
        !.timeout_seconds = c.job_timeout_seconds,
        !.allowed_env = c.env_allowlist,
        !.risky_actions = c.risky_action_allowlist,
        !.working_group_id =
            IF c.allowed_working_groups = <<>> THEN @ ELSE Head(c.allowed_working_groups),
        !.scoped_credential_ref =
            IF c.credential_placeholder = {} THEN @ ELSE c.credential_placeholder]

(* The bundled dispatch under the boundaries of the configuration. *)
example_dispatch(c) ==
    [Fixture EXCEPT
        !.runner_id = RunnerId(c),
        !.timeout_seconds = c.job_timeout_seconds,
        !.allowed_env = c.env_allowlist,
        !.risky_actions = c.risky_action_allowlist,
        !.working_group_id =
            IF c.allowed_working_groups = <<>> THEN @ ELSE Head(c.allowed_working_groups),
        !.scoped_credential_ref = c.credential_placeholder]

lease_from_dispatch(d) ==
    [lease_id |-> d.lease_id, job_id |-> d.job_id, runner_id |-> d.runner_id,
     working_group_id |-> d.working_group_id, correlation_id |-> d.correlation_id,
     timeout_seconds |-> d.timeout_seconds, allowed_env |-> d.allowed_env,
     risky_actions |-> d.risky_actions]

registration_payload(c) ==
    [message_type |-> "runner.registration.request",
     runner_id |-> c.runner_id,
     display_name |-> RunnerId(c),
     requested_working_groups |-> c.allowed_working_groups,
     registration_token_env |-> c.registration_token_env]

capability_snapshot_payload(c) ==
    [message_type |-> "runner.capability.snapshot",
     max_concurrency |-> c.max_concurrency,
     allowed_working_groups |-> c.allowed_working_groups]

(* print-capabilities and diagnostics print no envelope. *)
Capabilities(c) == [capability_snapshot_payload(c) EXCEPT !.message_type = "none"]

Diagnostics(c) ==
    [message_type |-> "none",
     runner_id |-> RunnerId(c),
     control_plane_url |-> c.control_plane_url,
     registration_token_env_name |-> c.registration_token_env,
     available_concurrency |-> c.max_concurrency]

Heartbeat(c) ==
    [message_type |-> "runner.heartbeat",
     runner_id |-> RunnerId(c),
     health |-> "Online",
     active_job_ids |-> {},
     available_concurrency |-> c.max_concurrency]

(* A record with the fields of another one in front. *)
And(r, s) ==
    [field \in DOMAIN r \cup DOMAIN s |-> IF field \in DOMAIN s THEN s[field] ELSE r[field]]

Of(message_type, job) ==
    [message_type |-> message_type, job_id |-> job.job_id, runner_id |-> job.runner_id]

Artifacts == <<"stdout.txt">>

(* The report run_once makes from the lease and its own runner id. *)
UsageReport(c, lease) ==
    [job_id |-> lease.job_id, runner_id |-> RunnerId(c),
     correlation_id |-> {lease.correlation_id}, status |-> "Succeeded"]

AdapterResult(c, d) ==
    [message_type |-> "job.final_result",
     job_id |-> d.job_id,
     runner_id |-> RunnerId(c),
     phase |-> "Completed",
     exit_code |-> {0},
     usage |-> UsageReport(c, lease_from_dispatch(d)),
     artifacts |-> Artifacts,
     scoped_credential_refs |-> d.scoped_credential_ref,
     audit_working_group |-> d.working_group_id]

Announcement(c) == <<registration_payload(c), capability_snapshot_payload(c), Heartbeat(c)>>

JobLeaseAcceptance(c, d) ==
    [message_type |-> "job.lease.accepted", lease_id |-> d.lease_id, job_id |-> d.job_id,
     runner_id |-> RunnerId(c), accepted |-> TRUE]

(* The log and the manifest come from run_noop_or_echo and name the        *)
(* dispatch's runner, the others the one run_once knows.                   *)
Evidence(c, d) ==
    LET job == [d EXCEPT !.runner_id = RunnerId(c)]
    IN  <<And(Of("job.progress", job), [phase |-> "running", percent |-> 100]),
          And(Of("job.log", d), [redacted |-> FALSE]),
          And(Of("job.artifacts", d), [artifacts |-> Artifacts]),
          And(Of("job.usage.report", job), UsageReport(c, lease_from_dispatch(d))),
          AdapterResult(c, d)>>

(* Deviation: the lease is accepted when the work is done. *)
RunOnceLeasingLate(c) ==
    LET d == example_dispatch(c)
    IN  Announcement(c) \o Evidence(c, d) \o <<JobLeaseAcceptance(c, d)>>

(* The envelopes of RunnerDaemon::run_once. *)
run_once(c) ==
    LET d == example_dispatch(c)
    IN  Announcement(c) \o <<JobLeaseAcceptance(c, d)>> \o Evidence(c, d)

ToPrint(command, c) ==
    CASE command = "PrintCapabilities" -> <<Capabilities(c)>>
      [] command = "Register" -> <<registration_payload(c)>>
      [] command = "RunOnce" -> run_once(c)
      [] command = "Diagnostics" -> <<Diagnostics(c)>>

-----------------------------------------------------------------------------
(* State *)

VARIABLES
    file,      \* the configuration file
    command,   \* the command of the process
    status,    \* "none", "started", "printing", "ok", "failed" or "killed"
    config,    \* the Option of a configuration it has loaded
    due,       \* what it has yet to print
    out        \* what it has printed

vars == <<file, command, status, config, due, out>>

Running == status \in {"started", "printing"}

Init ==
    /\ file \in Files
    /\ command \in Commands
    /\ status = "none"
    /\ config = {}
    /\ due = <<>>
    /\ out = <<>>

(* External: the operator saves another file. *)
edit_file(f) ==
    /\ file' = f
    /\ UNCHANGED <<command, status, config, due, out>>

(* External: the operator runs a command. *)
start(c) ==
    /\ ~Running
    /\ command' = c
    /\ status' = "started"
    /\ config' = {}
    /\ due' = <<>>
    /\ out' = <<>>
    /\ UNCHANGED file

load_config_fails ==
    /\ status = "started"
    /\ LoadResult(file) # "Ok"
    /\ status' = "failed"
    /\ UNCHANGED <<file, command, config, due, out>>

(* Deviation: what is parsed is not validated. *)
LoadUnvalidated ==
    /\ status = "started"
    /\ Parses(file)
    /\ config' = {Parsed(file)}
    /\ due' = ToPrint(command, Parsed(file))
    /\ status' = "printing"
    /\ UNCHANGED <<file, command, out>>

(* The configuration is loaded and all that is to be printed is made. *)
load_config ==
    /\ status = "started"
    /\ LoadResult(file) = "Ok"
    /\ config' = {Parsed(file)}
    /\ due' = ToPrint(command, Parsed(file))
    /\ status' = "printing"
    /\ UNCHANGED <<file, command, out>>

(* Deviation: every piece is made anew from the file as it is now. *)
PrintFromFile ==
    /\ status = "printing"
    /\ due # <<>>
    /\ out' = Append(out,
          IF LoadResult(file) = "Ok" THEN ToPrint(command, Parsed(file))[Len(out) + 1]
          ELSE Head(due))
    /\ due' = Tail(due)
    /\ UNCHANGED <<file, command, status, config>>

print_next ==
    /\ status = "printing"
    /\ due # <<>>
    /\ out' = Append(out, Head(due))
    /\ due' = Tail(due)
    /\ UNCHANGED <<file, command, status, config>>

finish ==
    /\ status = "printing"
    /\ due = <<>>
    /\ status' = "ok"
    /\ UNCHANGED <<file, command, config, due, out>>

(* External: the process is killed, or no one reads its output any more. *)
kill ==
    /\ Running
    /\ status' = "killed"
    /\ UNCHANGED <<file, command, config, due, out>>

Next ==
    \/ load_config_fails
    \/ load_config
    \/ print_next
    \/ finish
    \/ \E f \in Files : edit_file(f)
    \/ \E c \in Commands : start(c)
    \/ kill

Spec == Init /\ [][Next]_vars

-----------------------------------------------------------------------------
(* Properties *)

(* Type invariant: who failed to load has nothing, who printed has loaded, *)
(* and what is printed and what is due are the command's output.           *)
TypeOK ==
    /\ file \in Files
    /\ command \in Commands
    /\ status \in {"none", "started", "printing", "ok", "failed", "killed"}
    /\ status \in {"none", "started", "failed"} => config = {} /\ due = <<>> /\ out = <<>>
    /\ \A c \in config : validate(c) = "Ok"
    /\ status \in {"printing", "ok"} => \E c \in config : Len(out \o due) = Len(ToPrint(command, c))

Printed(message_type) == {n \in DOMAIN out : out[n].message_type = message_type}

JobMessages ==
    {"job.progress", "job.log", "job.artifacts", "job.usage.report", "job.final_result"}

(* However early the process dies, what it printed of a job stands on an   *)
(* accepted lease of that job and runner printed before, and a final       *)
(* result on the artifacts and the usage it states; the job's runner is    *)
(* the one whose heartbeat was sent, registered or not (lines 49-156 of    *)
(* src/daemon.rs; the log and the manifest take it from the dispatch).     *)
EvidenceStandsOnALease ==
    \A message_type \in JobMessages : \A n \in Printed(message_type) :
        /\ \E m \in Printed("job.lease.accepted") :
              /\ m < n
              /\ out[m].accepted
              /\ out[m].job_id = out[n].job_id
              /\ out[m].runner_id = out[n].runner_id
        /\ \E m \in Printed("runner.heartbeat") : m < n /\ out[m].runner_id = out[n].runner_id
        /\ message_type = "job.final_result" =>
              /\ \E m \in Printed("job.artifacts") : m < n /\ out[m].artifacts = out[n].artifacts
              /\ \E m \in Printed("job.usage.report") :
                    m < n /\ \A field \in DOMAIN out[n].usage : out[m][field] = out[n].usage[field]

(* The settings that messages show, by the names they show them under. *)
SettingOf ==
    [control_plane_url |-> "control_plane_url",
     registration_token_env |-> "registration_token_env",
     registration_token_env_name |-> "registration_token_env",
     max_concurrency |-> "max_concurrency",
     available_concurrency |-> "max_concurrency",
     requested_working_groups |-> "allowed_working_groups",
     allowed_working_groups |-> "allowed_working_groups",
     scoped_credential_refs |-> "credential_placeholder"]

(* Whether a printed message could come from configuration c. *)
Agrees(message, c) ==
    /\ IF message.message_type = "runner.registration.request" THEN message.runner_id = c.runner_id
       ELSE "runner_id" \in DOMAIN message => message.runner_id = RunnerId(c)
    /\ \A field \in DOMAIN message \cap DOMAIN SettingOf : message[field] = c[SettingOf[field]]
    /\ "audit_working_group" \in DOMAIN message /\ c.allowed_working_groups # <<>> =>
          message.audit_working_group = Head(c.allowed_working_groups)

(* All that a process prints agrees with one file, in the runner, the      *)
(* control plane, the name of the token's variable, the concurrency, the   *)
(* working groups and the credential; that file names a control plane and  *)
(* a variable for the token and leaves room for a job, however the file is *)
(* edited meanwhile (src/main.rs 76-111, src/config.rs 115-137).           *)
PrintsOneValidConfig ==
    out # <<>> =>
        \E f \in Files \ {Unreadable, NotToml} :
            /\ f.control_plane_url # {} /\ f.control_plane_url \cap Blank = {}
            /\ f.registration_token_env # {} /\ f.registration_token_env \cap Blank = {}
            /\ f.max_concurrency # {0}
            /\ \A n \in DOMAIN out : Agrees(out[n], Parsed(f))

Results == {out[n] : n \in Printed("job.final_result")}

(* A run stays inside the boundaries of the local configuration whatever   *)
(* the bundled dispatch says: it uses no credential but the configured one *)
(* and works for a group the operator listed, if any is (src/daemon.rs     *)
(* 158-173).                                                               *)
RunStaysInBoundaries ==
    \A result \in Results, c \in config :
        /\ result.scoped_credential_refs \subseteq c.credential_placeholder
        /\ c.allowed_working_groups # <<>> =>
              \E n \in DOMAIN c.allowed_working_groups :
                  result.audit_working_group = c.allowed_working_groups[n]
=============================================================================
