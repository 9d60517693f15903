------------------------------ MODULE JobPhases ------------------------------
(***************************************************************************)
(* What the control plane is told a job goes through (JobLifecyclePhase in *)
(* src/protocol.rs): the phases in their order, none skipped, then one     *)
(* terminal phase, and nothing after it.  The terminal phases are those an *)
(* adapter result may carry (validate_adapter_result_phase in              *)
(* src/adapters.rs).                                                       *)
(***************************************************************************)
EXTENDS Integers, Sequences

VARIABLE phase

Course == <<"Queued", "Leased", "Preparing", "Running", "Finishing">>

TerminalPhases == {"Completed", "Failed", "Cancelled", "TimedOut", "PolicyDenied"}

PhaseInit == phase = Course[1]

Proceed == \E n \in 1..(Len(Course) - 1) : phase = Course[n] /\ phase' = Course[n + 1]

Complete == phase = "Finishing" /\ phase' = "Completed"

Interrupt == phase \notin TerminalPhases /\ phase' \in TerminalPhases \ {"Completed"}

PhaseSpec == PhaseInit /\ [][Proceed \/ Complete \/ Interrupt]_phase
=============================================================================
