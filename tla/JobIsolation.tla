----------------------------- MODULE JobIsolation -----------------------------
(***************************************************************************)
(* The isolation of the jobs of one runner (src/isolation.rs): the plan    *)
(* made for each dispatch, the ownership check a job's accesses go         *)
(* through, and the guard on what cleaning up leaves behind.  Plans are    *)
(* made from the policy of the dispatch and from the environment the       *)
(* runner has at that moment; they are values, and later changes of the    *)
(* environment or further dispatches of the job do not reach them.         *)
(*                                                                         *)
(* A label is a sequence of characters in which the words jobs, workspaces *)
(* and artifacts count as one character each.                              *)
(***************************************************************************)
EXTENDS Integers, Sequences, FiniteSets

CONSTANTS
    Chars,           \* characters of ids
    EnvNames,        \* names of environment variables
    EnvValues,       \* their values
    CredentialRefs,  \* scoped credential references
    Dispatches,      \* the dispatches jobs come in
    Environments,    \* what the caller may pass as ambient_env
    PathLabels,      \* labels of the files jobs leave
    MaxPlans,        \* bound: plans made
    MaxFiles,        \* bound: files on the disk
    MaxEvidence      \* bound: pieces of cleanup evidence

Id == Seq(Chars)

(* The parts of JobDispatch that isolation reads.  An Option is a set of   *)
(* at most one element; allowed_env is the set of its elements.            *)
Dispatch ==
    [job_id : Id, workspace_id : Id, allowed_env : SUBSET EnvNames,
     scoped_credential_ref : SUBSET CredentialRefs]

Pairs == EnvNames \X EnvValues

ScopedResourceKind == {"Workspace", "Artifact", "Credential", "EnvironmentVariable"}

CleanupDisposition == {"Removed", "Quarantined", "Residual"}

CleanupEvidence ==
    [job_id : Id, path_label : PathLabels, sensitive : BOOLEAN, disposition : CleanupDisposition]

ASSUME DispatchesAssumption == Dispatches \subseteq Dispatch
ASSUME EnvironmentsAssumption == Environments \subseteq Seq(Pairs)

-----------------------------------------------------------------------------
(* Plans *)

(* Deviation: the label leaves the job out. *)
WorkspaceRootOfWorkspace(d) == <<"workspaces", "/">> \o d.workspace_id

workspace_root_label(d) ==
    <<"jobs", "/">> \o d.job_id \o <<"/", "workspaces", "/">> \o d.workspace_id

(* Deviation: the artifacts are put in the workspace. *)
ArtifactRootInWorkspace(d) == workspace_root_label(d) \o <<"/", "artifacts">>

artifact_root_label(d) == <<"jobs", "/">> \o d.job_id \o <<"/", "artifacts">>

(* Deviation: of a variable passed twice the first value is taken. *)
FirstValue(name, environment) ==
    LET n == CHOOSE n \in DOMAIN environment :
                /\ environment[n][1] = name
                /\ \A m \in DOMAIN environment : environment[m][1] = name => n <= m
    IN  environment[n][2]

(* Collecting pairs into a map keeps the last value of a name. *)
LastValue(name, environment) ==
    LET n == CHOOSE n \in DOMAIN environment :
                /\ environment[n][1] = name
                /\ \A m \in DOMAIN environment : environment[m][1] = name => m <= n
    IN  environment[n][2]

Names(environment) == {environment[n][1] : n \in DOMAIN environment}

plan_job_isolation(d, ambient_env) ==
    [job_id |-> d.job_id,
     workspace_root_label |-> workspace_root_label(d),
     artifact_root_label |-> artifact_root_label(d),
     allowed_env |-> [name \in Names(ambient_env) \cap d.allowed_env |->
                         LastValue(name, ambient_env)],
     scoped_credential_ref |-> d.scoped_credential_ref]

(* Deviation: the job is compared only where nothing else is. *)
OwnsByKind(plan, resource) ==
    CASE resource.kind \in {"Workspace", "Artifact"} ->
            IF resource.job_id = plan.job_id THEN "Ok" ELSE "CrossJobResourceAccess"
      [] resource.kind = "EnvironmentVariable" ->
            IF resource.name \in DOMAIN plan.allowed_env THEN "Ok"
            ELSE "EnvironmentVariableNotAllowlisted"
      [] resource.kind = "Credential" ->
            IF resource.name \in plan.scoped_credential_ref THEN "Ok" ELSE "CredentialNotScoped"

(* JobIsolationPlan::owns *)
owns(plan, resource) ==
    CASE resource.job_id # plan.job_id -> "CrossJobResourceAccess"
      [] /\ resource.job_id = plan.job_id
         /\ resource.kind = "EnvironmentVariable"
         /\ resource.name \notin DOMAIN plan.allowed_env -> "EnvironmentVariableNotAllowlisted"
      [] /\ resource.job_id = plan.job_id
         /\ resource.kind = "Credential"
         /\ resource.name \notin plan.scoped_credential_ref -> "CredentialNotScoped"
      [] OTHER -> "Ok"

(* Deviation: only the first piece of evidence is looked at. *)
ResidualsAtFirst(evidence) ==
    {n \in DOMAIN evidence \cap {1} : evidence[n].sensitive /\ evidence[n].disposition = "Residual"}

Residuals(evidence) ==
    {n \in DOMAIN evidence : evidence[n].sensitive /\ evidence[n].disposition = "Residual"}

(* The verdict of assert_cleanup_safe: the first sensitive residual, if any. *)
Verdict(evidence) ==
    IF Residuals(evidence) = {} THEN [result |-> "Ok"]
    ELSE [result |-> "UnsafeSensitiveResidual",
          path_label |-> evidence[CHOOSE n \in Residuals(evidence) :
                                      \A m \in Residuals(evidence) : n <= m].path_label]

-----------------------------------------------------------------------------
(* State *)

VARIABLES
    ambient,   \* the environment of the runner's process
    planned,   \* the plans made, each with the dispatch and environment it was made from
    access,    \* the ownership check of this step, or NoCheck
    disk,      \* the files jobs left and no one removed or quarantined
    evidence,  \* the evidence gathered while cleaning up
    verdict    \* what assert_cleanup_safe returned in this step, or NoCheck

vars == <<ambient, planned, access, disk, evidence, verdict>>

NoCheck == [result |-> "none"]

Jobs == {p.dispatch.job_id : p \in planned}

(* What a plan gives its job to use. *)
Resources(plan) ==
    {[job_id |-> plan.job_id, kind |-> "Workspace", name |-> plan.workspace_root_label],
     [job_id |-> plan.job_id, kind |-> "Artifact", name |-> plan.artifact_root_label]}
      \cup {[job_id |-> plan.job_id, kind |-> "Credential", name |-> c] :
               c \in plan.scoped_credential_ref}
      \cup {[job_id |-> plan.job_id, kind |-> "EnvironmentVariable", name |-> v] :
               v \in DOMAIN plan.allowed_env}

Init ==
    /\ ambient \in Environments
    /\ planned = {}
    /\ access = NoCheck
    /\ disk = {}
    /\ evidence = <<>>
    /\ verdict = NoCheck

(* The environment the caller would pass now is another one. *)
environment_changes(environment) ==
    /\ ambient' = environment
    /\ access' = NoCheck
    /\ verdict' = NoCheck
    /\ UNCHANGED <<planned, disk, evidence>>

plan_job(d) ==
    /\ Cardinality(planned) < MaxPlans
    /\ planned' = planned \cup
          {[dispatch |-> d, environment |-> ambient, plan |-> plan_job_isolation(d, ambient)]}
    /\ access' = NoCheck
    /\ verdict' = NoCheck
    /\ UNCHANGED <<ambient, disk, evidence>>

(* A job with plan p uses a resource that some job was given. *)
check_access(p, resource) ==
    /\ access' = [plan |-> p, resource |-> resource, result |-> owns(p.plan, resource)]
    /\ verdict' = NoCheck
    /\ UNCHANGED <<ambient, planned, disk, evidence>>

(* External: a job leaves a file. *)
leave_file(job_id, path_label, sensitive) ==
    /\ Cardinality(disk) < MaxFiles
    /\ disk' = disk \cup {[job_id |-> job_id, path_label |-> path_label, sensitive |-> sensitive]}
    /\ access' = NoCheck
    /\ verdict' = NoCheck
    /\ UNCHANGED <<ambient, planned, evidence>>

(* External: whoever cleans up does away with a file, or fails to, and     *)
(* says so.                                                                *)
clean_up(file, disposition) ==
    /\ Len(evidence) < MaxEvidence
    /\ evidence' = Append(evidence,
          [job_id |-> file.job_id, path_label |-> file.path_label, sensitive |-> file.sensitive,
           disposition |-> disposition])
    /\ disk' = IF disposition = "Residual" THEN disk ELSE disk \ {file}
    /\ access' = NoCheck
    /\ verdict' = NoCheck
    /\ UNCHANGED <<ambient, planned>>

(* The guard is asked when every file still there has been reported. *)
Reported ==
    \A file \in disk : \E n \in DOMAIN evidence :
        /\ evidence[n].job_id = file.job_id
        /\ evidence[n].path_label = file.path_label
        /\ evidence[n].sensitive = file.sensitive
        /\ evidence[n].disposition = "Residual"

assert_cleanup_safe ==
    /\ Reported
    /\ verdict' = Verdict(evidence)
    /\ access' = NoCheck
    /\ UNCHANGED <<ambient, planned, disk, evidence>>

Next ==
    \/ \E environment \in Environments : environment_changes(environment)
    \/ \E d \in Dispatches : plan_job(d)
    \/ \E p, q \in planned : \E resource \in Resources(q.plan) : check_access(p, resource)
    \/ \E job_id \in Jobs, path_label \in PathLabels, sensitive \in BOOLEAN :
          leave_file(job_id, path_label, sensitive)
    \/ \E file \in disk, disposition \in CleanupDisposition : clean_up(file, disposition)
    \/ assert_cleanup_safe

Spec == Init /\ [][Next]_vars

-----------------------------------------------------------------------------
(* Properties *)

(* Type invariant. *)
TypeOK ==
    /\ ambient \in Environments
    /\ \A p \in planned :
          /\ p.dispatch \in Dispatches
          /\ p.environment \in Environments
          /\ p.plan.job_id \in Id
          /\ p.plan.workspace_root_label \in Seq(Chars \cup {"/", "jobs", "workspaces"})
          /\ p.plan.artifact_root_label \in Seq(Chars \cup {"/", "jobs", "artifacts"})
          /\ p.plan.allowed_env \in [DOMAIN p.plan.allowed_env -> EnvValues]
          /\ DOMAIN p.plan.allowed_env \subseteq EnvNames
          /\ p.plan.scoped_credential_ref \subseteq CredentialRefs
    /\ disk \subseteq [job_id : Id, path_label : PathLabels, sensitive : BOOLEAN]
    /\ evidence \in Seq(CleanupEvidence)

(* The directory label inner is outer, or lies in it. *)
Inside(inner, outer) ==
    \/ inner = outer
    \/ /\ Len(outer) < Len(inner)
       /\ SubSeq(inner, 1, Len(outer)) = outer
       /\ inner[Len(outer) + 1] = "/"

(* No job reaches into the directories of another by its own: the roots of *)
(* two jobs are neither equal nor one inside the other, a workspace and an *)
(* artifact root never are, and neither are two workspaces of one job      *)
(* (lines 78-82).                                                          *)
RootsAreApart ==
    \A p, q \in planned :
        /\ Inside(p.plan.workspace_root_label, q.plan.workspace_root_label) =>
              /\ p.dispatch.job_id = q.dispatch.job_id
              /\ p.dispatch.workspace_id = q.dispatch.workspace_id
        /\ Inside(p.plan.artifact_root_label, q.plan.artifact_root_label) =>
              p.dispatch.job_id = q.dispatch.job_id
        /\ ~Inside(p.plan.workspace_root_label, q.plan.artifact_root_label)
        /\ ~Inside(p.plan.artifact_root_label, q.plan.workspace_root_label)

(* A job gets a variable exactly when its policy lists it and the runner   *)
(* had it when the plan was made, with the value it had then, whatever     *)
(* became of the environment since (lines 62-73).                          *)
EnvironmentIsScoped ==
    \A p \in planned, name \in EnvNames :
        LET places == {n \in DOMAIN p.environment : p.environment[n][1] = name}
        IN  /\ name \in DOMAIN p.plan.allowed_env <=>
                  name \in p.dispatch.allowed_env /\ places # {}
            /\ name \in DOMAIN p.plan.allowed_env =>
                  \E n \in places :
                      /\ \A m \in places : m <= n
                      /\ p.plan.allowed_env[name] = p.environment[n][2]

(* A job is let at what a plan of its own gives it and at nothing of       *)
(* another job's, two jobs that hold the same credential or variable       *)
(* included; of an earlier or later dispatch of its own job it gets the    *)
(* directories, but credentials and variables only if they are in this     *)
(* plan too (lines 89-111).                                                *)
AccessFollowsPlans ==
    access # NoCheck =>
        (access.result = "Ok" <=>
            /\ access.resource.job_id = access.plan.dispatch.job_id
            /\ \/ access.resource.kind \in {"Workspace", "Artifact"}
               \/ access.resource \in Resources(access.plan.plan))

(* When every file that was left is reported, the guard passes only where  *)
(* no sensitive one is, whichever job left it and however many attempts    *)
(* cleaning it up took (lines 114-124).                                    *)
SafeMeansClean == verdict.result = "Ok" => \A file \in disk : ~file.sensitive
=============================================================================
