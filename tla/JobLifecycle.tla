---------------------------- MODULE JobLifecycle ----------------------------
(***************************************************************************)
(* The life of one job on the runner (src/job.rs): a JobLifecycle and what *)
(* drives it.  A caller of the library may ask for any transition at any   *)
(* time; run_noop_or_echo and simulate_noop_lifecycle ask for fixed        *)
(* courses of them, stop at the first one refused, and return evidence.    *)
(***************************************************************************)
EXTENDS Integers, Sequences

JobState ==
    {"Registered", "Heartbeating", "Leased", "PreparingWorkspace", "Running", "StreamingLogs",
     "UploadingArtifacts", "ReportingUsage", "Succeeded", "Failed", "Cancelled", "TimedOut"}

AdapterKind ==
    {"Noop", "Echo", "OpenAiCompatibleLocalLlm", "OllamaLocalLlm", "SelfHostedLocalLlm",
     "CodexAgent", "ClaudeCodeAgent", "AllowlistedCommand"}

SimulatedTerminalOutcome == {"Succeeded", "Failed", "Cancelled", "TimedOut"}

(* What drives the lifecycle: a caller of the library, or one of the two   *)
(* functions with the arguments that decide its course.                    *)
Driver ==
    [by : {"library"}]
      \cup [by : {"run_noop_or_echo"}, adapter : AdapterKind]
      \cup [by : {"simulate_noop_lifecycle"}, adapter : AdapterKind,
            terminal : SimulatedTerminalOutcome]

ToRunning == <<"Heartbeating", "Leased", "PreparingWorkspace", "Running">>

ToSuccess == <<"StreamingLogs", "UploadingArtifacts", "ReportingUsage", "Succeeded">>

MainCourse == <<"Registered">> \o ToRunning \o ToSuccess

Steps(course) == {<<course[n], course[n + 1]>> : n \in 1..(Len(course) - 1)}

(* The pairs of can_transition that leave the main course. *)
Interruptions ==
    {<<from, "Cancelled">> : from \in {"Heartbeating", "Leased", "PreparingWorkspace", "Running"}}
      \cup {<<"Running", "TimedOut">>}
      \cup {<<from, "Failed">> : from \in {"PreparingWorkspace", "Running", "StreamingLogs",
                                          "UploadingArtifacts", "ReportingUsage"}}

(* Deviations: a cancelled job may still fail; a job may time out while    *)
(* its logs stream; the last step of the main course is missing.           *)
FailsAfterCancellation == Steps(MainCourse) \cup Interruptions \cup {<<"Cancelled", "Failed">>}
TimesOutStreaming == Steps(MainCourse) \cup Interruptions \cup {<<"StreamingLogs", "TimedOut">>}
NeverSucceeds == (Steps(MainCourse) \cup Interruptions) \ {<<"ReportingUsage", "Succeeded">>}

(* can_transition, as the set of pairs it matches. *)
CanTransition == Steps(MainCourse) \cup Interruptions

Supported(driver) ==
    \/ driver.by = "run_noop_or_echo" /\ driver.adapter \in {"Noop", "Echo"}
    \/ driver.by = "simulate_noop_lifecycle" /\ driver.adapter = "Noop"

(* The transitions a function asks for.  run_noop_or_echo looks at the     *)
(* adapter when the job is running already, simulate_noop_lifecycle before *)
(* there is a lifecycle.                                                   *)
Course(driver) ==
    IF ~Supported(driver)
    THEN IF driver.by = "run_noop_or_echo" THEN ToRunning ELSE <<>>
    ELSE IF driver.by = "run_noop_or_echo" \/ driver.terminal = "Succeeded"
         THEN ToRunning \o ToSuccess
         ELSE Append(ToRunning, driver.terminal)

(* Deviation: the manifest names the output whatever the end was. *)
EvidenceWithOutput(terminal) ==
    [phase |-> IF terminal = "Succeeded" THEN "Completed" ELSE terminal,
     exit_code |-> IF terminal = "Succeeded" THEN {0} ELSE IF terminal = "Failed" THEN {1} ELSE {},
     stream |-> IF terminal = "Succeeded" THEN "stdout" ELSE "stderr",
     artifacts |-> {"stdout.txt"}]

(* AdapterRunOutput for a job that ended so: the phase and exit code of    *)
(* the outcome, the stream of the one log chunk and the manifest.          *)
Evidence(terminal) ==
    [phase |-> IF terminal = "Succeeded" THEN "Completed" ELSE terminal,
     exit_code |-> IF terminal = "Succeeded" THEN {0} ELSE IF terminal = "Failed" THEN {1} ELSE {},
     stream |-> IF terminal = "Succeeded" THEN "stdout" ELSE "stderr",
     artifacts |-> IF terminal = "Succeeded" THEN {"stdout.txt"} ELSE {}]

Answer(driver) ==
    IF ~Supported(driver) THEN [kind |-> "UnsupportedAdapter"]
    ELSE [kind |-> "Ok",
          output |-> Evidence(IF driver.by = "run_noop_or_echo" THEN "Succeeded"
                              ELSE driver.terminal)]

-----------------------------------------------------------------------------
(* State *)

VARIABLES
    driver,  \* what drives the lifecycle
    state,   \* JobLifecycle.state
    reply,   \* what the last transition returned
    trail,   \* history: the states the job has been in, in order
    answer   \* what the driving function returned, or NoAnswer

vars == <<driver, state, reply, trail, answer>>

NoAnswer == [kind |-> "none"]

Init ==
    /\ driver \in Driver
    /\ state = "Registered"
    /\ reply = "Ok"
    /\ trail = <<"Registered">>
    /\ answer = NoAnswer

(* JobLifecycle::transition: a refused transition changes nothing. *)
transition(to) ==
    IF <<state, to>> \in CanTransition
    THEN state' = to /\ trail' = Append(trail, to) /\ reply' = "Ok"
    ELSE reply' = "InvalidTransition" /\ UNCHANGED <<state, trail>>

library_calls_transition ==
    /\ driver.by = "library"
    /\ \E to \in JobState : transition(to)
    /\ UNCHANGED <<driver, answer>>

(* A function asks for its next transition; one refused ends it with that  *)
(* error (the ? operator).                                                 *)
driver_steps ==
    /\ driver.by # "library"
    /\ reply = "Ok"
    /\ Len(trail) <= Len(Course(driver))
    /\ transition(Course(driver)[Len(trail)])
    /\ UNCHANGED <<driver, answer>>

driver_returns ==
    /\ driver.by # "library"
    /\ reply = "Ok"
    /\ Len(trail) = Len(Course(driver)) + 1
    /\ answer = NoAnswer
    /\ answer' = Answer(driver)
    /\ UNCHANGED <<driver, state, reply, trail>>

Next == library_calls_transition \/ driver_steps \/ driver_returns

Spec == Init /\ [][Next]_vars

-----------------------------------------------------------------------------
(* Properties *)

Reached(s) == \E n \in DOMAIN trail : trail[n] = s

(* How a job ended says what it has been through, whoever asked for which  *)
(* transitions (lines 99-123): success means the whole main course in its  *)
(* order; a timeout struck while it was running; a cancellation came       *)
(* before its logs were streamed; a failure came after its workspace was   *)
(* being prepared.                                                         *)
TerminalIsEarned ==
    /\ state = "Succeeded" => trail = MainCourse
    /\ state = "TimedOut" => Reached("Running") /\ ~Reached("StreamingLogs")
    /\ state = "Cancelled" => Reached("Heartbeating") /\ ~Reached("StreamingLogs")
    /\ state = "Failed" => Reached("PreparingWorkspace") /\ ~Reached("Succeeded")

(* The courses of the two functions agree with can_transition: neither     *)
(* ever ends with an InvalidTransition of its own making (lines 139-184    *)
(* and 209-255).                                                           *)
DriversAreNotRefused == driver.by # "library" => reply = "Ok"

Phase ==
    [Registered |-> "Queued", Heartbeating |-> "Queued", Leased |-> "Leased",
     PreparingWorkspace |-> "Preparing", Running |-> "Running", StreamingLogs |-> "Finishing",
     UploadingArtifacts |-> "Finishing", ReportingUsage |-> "Finishing",
     Succeeded |-> "Completed", Failed |-> "Failed", Cancelled |-> "Cancelled",
     TimedOut |-> "TimedOut"]

Phases == INSTANCE JobPhases WITH phase <- Phase[state]

(* The evidence a function returns is about the job as its lifecycle left  *)
(* it: it names a terminal phase an adapter result may carry, the phase    *)
(* the lifecycle is in; an output is listed exactly by a job that uploaded *)
(* its artifacts; and an exit code of zero, standard output and success go *)
(* together (lines 214-243 and 257-295).  A job whose adapter is not       *)
(* supported is never ended with evidence.                                 *)
EvidenceIsTrue ==
    answer.kind = "Ok" =>
        /\ Supported(driver)
        /\ answer.output.phase = Phase[state]
        /\ answer.output.phase \in Phases!TerminalPhases
        /\ answer.output.artifacts # {} <=> Reached("UploadingArtifacts")
        /\ answer.output.exit_code = {0} <=> state = "Succeeded"
        /\ answer.output.stream = "stdout" <=> state = "Succeeded"

(* Seen as phases, a job goes through them in order, skips none before it  *)
(* runs, completes only from Finishing, and stays in its terminal phase.   *)
ImplementsPhases == Phases!PhaseSpec
=============================================================================
