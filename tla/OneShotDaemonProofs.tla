------------------------- MODULE OneShotDaemonProofs -------------------------
(* Theorems about the one-shot command line, for all configuration files.  *)
EXTENDS OneShotDaemon, SequenceTheorems, TLAPS

(* What is printed so far and what is due make up one output. *)
Splits(full) ==
    /\ Len(out) + Len(due) = Len(full)
    /\ \A n \in 1..Len(out) : out[n] = full[n]
    /\ \A n \in 1..Len(due) : due[n] = full[Len(out) + n]

Loadable(f) == f \in Files /\ LoadResult(f) = "Ok"

(* The process has loaded f and prints what its command makes of it. *)
PrintsFrom(f) ==
    /\ Loadable(f)
    /\ config = {Parsed(f)}
    /\ Splits(ToPrint(command, Parsed(f)))

Idle == config = {} /\ due = <<>> /\ out = <<>>

AreSequences ==
    \E S : out \in Seq(S) /\ due \in Seq(S)

(* The invariant: whatever became of the file since, all that is printed   *)
(* and all that is due comes from one file that could be loaded.           *)
PrintInv ==
    /\ file \in Files
    /\ command \in Commands
    /\ status \in {"none", "started", "printing", "ok", "failed", "killed"}
    /\ AreSequences
    /\ Idle \/ \E f \in Files : PrintsFrom(f)
    /\ status \in {"none", "started", "failed"} => Idle
    /\ status \in {"printing", "ok"} => ~Idle

-----------------------------------------------------------------------------
(* What the commands print *)

(* Three, one and five messages in a row are a sequence. *)
LEMMA NineInARow ==
    ASSUME NEW a1, NEW a2, NEW a3, NEW b, NEW e1, NEW e2, NEW e3, NEW e4, NEW e5
    PROVE  \E S : (<<a1, a2, a3>> \o <<b>>) \o <<e1, e2, e3, e4, e5>> \in Seq(S)
<1> DEFINE S == {a1, a2, a3, b, e1, e2, e3, e4, e5}
<1>1. a1 \in S /\ a2 \in S /\ a3 \in S /\ b \in S /\ e1 \in S /\ e2 \in S /\ e3 \in S
      /\ e4 \in S /\ e5 \in S
  OBVIOUS
<1> HIDE DEF S
<1>2. <<a1, a2, a3>> \in Seq(S) /\ <<b>> \in Seq(S) /\ <<e1, e2, e3, e4, e5>> \in Seq(S)
  BY <1>1
<1>3. <<a1, a2, a3>> \o <<b>> \in Seq(S)
  BY <1>2, ConcatProperties, Zenon
<1>4. (<<a1, a2, a3>> \o <<b>>) \o <<e1, e2, e3, e4, e5>> \in Seq(S)
  BY <1>2, <1>3, ConcatProperties, Zenon
<1> QED BY <1>4, Zenon

(* The messages of a run, in order. *)
LEMMA RunOnceMessages ==
    ASSUME NEW c
    PROVE  LET d == example_dispatch(c)
               job == [d EXCEPT !.runner_id = RunnerId(c)]
               s == run_once(c)
           IN  /\ Len(s) = 9 /\ DOMAIN s = 1..9
               /\ s[1] = registration_payload(c)
               /\ s[2] = capability_snapshot_payload(c)
               /\ s[3] = Heartbeat(c)
               /\ s[4] = JobLeaseAcceptance(c, d)
               /\ s[5] = And(Of("job.progress", job), [phase |-> "running", percent |-> 100])
               /\ s[6] = And(Of("job.log", d), [redacted |-> FALSE])
               /\ s[7] = And(Of("job.artifacts", d), [artifacts |-> Artifacts])
               /\ s[8] = And(Of("job.usage.report", job), UsageReport(c, lease_from_dispatch(d)))
               /\ s[9] = AdapterResult(c, d)
<1> DEFINE d == example_dispatch(c)
           job == [d EXCEPT !.runner_id = RunnerId(c)]
           s == run_once(c)
<1> USE DEF run_once, Announcement, Evidence
<1>1. Len(s) = 9 /\ DOMAIN s = 1..9
  OBVIOUS
<1>2. s[1] = registration_payload(c) /\ s[2] = capability_snapshot_payload(c) /\ s[3] = Heartbeat(c)
  OBVIOUS
<1>3. s[4] = JobLeaseAcceptance(c, d)
  OBVIOUS
<1>4. s[5] = And(Of("job.progress", job), [phase |-> "running", percent |-> 100])
  OBVIOUS
<1>5. s[6] = And(Of("job.log", d), [redacted |-> FALSE])
  OBVIOUS
<1>6. s[7] = And(Of("job.artifacts", d), [artifacts |-> Artifacts])
  OBVIOUS
<1>7. s[8] = And(Of("job.usage.report", job), UsageReport(c, lease_from_dispatch(d)))
  OBVIOUS
<1>8. s[9] = AdapterResult(c, d)
  OBVIOUS
<1> HIDE DEF run_once
<1> QED
  BY <1>1, <1>2, <1>3, <1>4, <1>5, <1>6, <1>7, <1>8

(* The dispatch of a run, under the boundaries of the configuration. *)
LEMMA DispatchFields ==
    ASSUME NEW c
    PROVE  LET d == example_dispatch(c)
           IN  /\ d.lease_id = "lease_fixture_001"
               /\ d.job_id = "job_fixture_echo_001"
               /\ d.runner_id = RunnerId(c)
               /\ d.scoped_credential_ref = c.credential_placeholder
               /\ c.allowed_working_groups # <<>> =>
                     d.working_group_id = Head(c.allowed_working_groups)
               /\ [d EXCEPT !.runner_id = RunnerId(c)] = d
BY DEF example_dispatch, Fixture

(* Who the messages of a run are about, and which they are. *)
LEMMA RunOnceIsAbout ==
    ASSUME NEW c
    PROVE  LET s == run_once(c)
           IN  /\ s[1].message_type = "runner.registration.request"
               /\ s[2].message_type = "runner.capability.snapshot"
               /\ s[3].message_type = "runner.heartbeat" /\ s[3].runner_id = RunnerId(c)
               /\ s[4].message_type = "job.lease.accepted" /\ s[4].accepted
               /\ s[5].message_type = "job.progress"
               /\ s[6].message_type = "job.log"
               /\ s[7].message_type = "job.artifacts" /\ s[7].artifacts = Artifacts
               /\ s[8].message_type = "job.usage.report"
               /\ s[9].message_type = "job.final_result" /\ s[9].artifacts = Artifacts
               /\ \A n \in 4..9 :
                     s[n].job_id = "job_fixture_echo_001" /\ s[n].runner_id = RunnerId(c)
<1> DEFINE d == example_dispatch(c)
           s == run_once(c)
           job == [d EXCEPT !.runner_id = RunnerId(c)]
<1>1. d.job_id = "job_fixture_echo_001" /\ d.runner_id = RunnerId(c) /\ job = d
  BY DispatchFields
<1> HIDE DEF d, job
<1>2. /\ s[1] = registration_payload(c)
      /\ s[2] = capability_snapshot_payload(c)
      /\ s[3] = Heartbeat(c)
      /\ s[4] = JobLeaseAcceptance(c, d)
      /\ s[5] = And(Of("job.progress", job), [phase |-> "running", percent |-> 100])
      /\ s[6] = And(Of("job.log", d), [redacted |-> FALSE])
      /\ s[7] = And(Of("job.artifacts", d), [artifacts |-> Artifacts])
      /\ s[8] = And(Of("job.usage.report", job), UsageReport(c, lease_from_dispatch(d)))
      /\ s[9] = AdapterResult(c, d)
  BY RunOnceMessages DEF d, job
<1> HIDE DEF s
<1>3. /\ s[1].message_type = "runner.registration.request"
      /\ s[2].message_type = "runner.capability.snapshot"
      /\ s[3].message_type = "runner.heartbeat" /\ s[3].runner_id = RunnerId(c)
  BY <1>2 DEF registration_payload, capability_snapshot_payload, Heartbeat
<1>4. /\ s[4].message_type = "job.lease.accepted" /\ s[4].accepted
      /\ s[4].job_id = d.job_id /\ s[4].runner_id = RunnerId(c)
  BY <1>2 DEF JobLeaseAcceptance
<1>5. /\ s[5].message_type = "job.progress"
      /\ s[5].job_id = d.job_id /\ s[5].runner_id = d.runner_id
  BY <1>1, <1>2 DEF And, Of
<1>6. /\ s[6].message_type = "job.log"
      /\ s[6].job_id = d.job_id /\ s[6].runner_id = d.runner_id
  BY <1>2 DEF And, Of
<1>7. /\ s[7].message_type = "job.artifacts" /\ s[7].artifacts = Artifacts
      /\ s[7].job_id = d.job_id /\ s[7].runner_id = d.runner_id
  BY <1>2 DEF And, Of
<1>8. /\ s[8].message_type = "job.usage.report"
      /\ s[8].job_id = d.job_id /\ s[8].runner_id = d.runner_id
  BY <1>1, <1>2 DEF And, Of, UsageReport, lease_from_dispatch
<1>9. /\ s[9].message_type = "job.final_result" /\ s[9].artifacts = Artifacts
      /\ s[9].job_id = d.job_id /\ s[9].runner_id = RunnerId(c)
  BY <1>2 DEF AdapterResult
<1> QED
  BY <1>1, <1>3, <1>4, <1>5, <1>6, <1>7, <1>8, <1>9 DEF s

(* The final result's usage is the report that was sent before it. *)
LEMMA RunOnceUsage ==
    ASSUME NEW c, NEW field \in DOMAIN run_once(c)[9].usage
    PROVE  run_once(c)[8][field] = run_once(c)[9].usage[field]
<1> DEFINE d == example_dispatch(c)
           report == UsageReport(c, lease_from_dispatch(d))
<1>1. run_once(c)[9].usage = report
  <2>1. run_once(c)[9] = AdapterResult(c, d)
    BY RunOnceMessages
  <2>2. AdapterResult(c, d).usage = report
    BY DEF AdapterResult
  <2> QED BY <2>1, <2>2
<1>2. PICK r : run_once(c)[8] = And(r, report)
  BY RunOnceMessages, Zenon
<1> HIDE DEF report
<1> QED
  BY <1>1, <1>2 DEF And

(* An output is a non-empty sequence of messages; all but that of a run    *)
(* are one message.                                                        *)
LEMMA ToPrintType ==
    ASSUME NEW c, NEW cmd \in Commands
    PROVE  /\ Len(ToPrint(cmd, c)) \in Nat \ {0}
           /\ \E S : ToPrint(cmd, c) \in Seq(S)
           /\ cmd # "RunOnce" => Len(ToPrint(cmd, c)) = 1
<1>1. CASE cmd = "RunOnce"
  <2>1. ToPrint(cmd, c) = run_once(c)
    BY <1>1 DEF ToPrint
  <2>2. Len(run_once(c)) = 9 /\ DOMAIN run_once(c) = 1..9
    BY RunOnceMessages
  <2>3. \E S : run_once(c) \in Seq(S)
    <3>1. PICK a1, a2, a3 : Announcement(c) = <<a1, a2, a3>>
      BY DEF Announcement
    <3>2. PICK d, b : run_once(c) = (Announcement(c) \o <<b>>) \o Evidence(c, d)
      BY DEF run_once
    <3>3. PICK e1, e2, e3, e4, e5 : Evidence(c, d) = <<e1, e2, e3, e4, e5>>
      BY DEF Evidence
    <3>4. run_once(c) = (<<a1, a2, a3>> \o <<b>>) \o <<e1, e2, e3, e4, e5>>
      <4>1. Evidence(c, d) = <<e1, e2, e3, e4, e5>>
        BY <3>3, Zenon
      <4>2. (Announcement(c) \o <<b>>) \o Evidence(c, d)
               = (<<a1, a2, a3>> \o <<b>>) \o <<e1, e2, e3, e4, e5>>
        BY <3>1, <4>1, Zenon
      <4> QED BY <3>2, <4>2, Zenon
    <3>5. PICK S : (<<a1, a2, a3>> \o <<b>>) \o <<e1, e2, e3, e4, e5>> \in Seq(S)
      BY NineInARow, Zenon
    <3> QED BY <3>4, <3>5, Zenon
  <2>4. \E S : ToPrint(cmd, c) \in Seq(S)
    BY <2>1, <2>3, Zenon
  <2>5. Len(ToPrint(cmd, c)) = 9
    BY <2>1, <2>2, Zenon
  <2>6. 9 \in Nat \ {0}
    OBVIOUS
  <2> QED BY <1>1, <2>4, <2>5, <2>6, Zenon
<1>2. CASE cmd # "RunOnce"
  <2>1. PICK m : ToPrint(cmd, c) = <<m>>
    BY <1>2 DEF ToPrint, Commands
  <2>2. <<m>> \in Seq({m})
    OBVIOUS
  <2>3. \E S : ToPrint(cmd, c) \in Seq(S)
    BY <2>1, <2>2
  <2>4. Len(ToPrint(cmd, c)) = 1
    BY <2>1
  <2> QED BY <1>2, <2>3, <2>4
<1> QED BY <1>1, <1>2

-----------------------------------------------------------------------------
(* The invariant *)

(* A process that has not been started yet satisfies it.                  *)
LEMMA PrintInit == Init => PrintInv
<1> SUFFICES ASSUME Init PROVE PrintInv OBVIOUS
<1>1. AreSequences
  <2>1. <<>> \in Seq({})
    OBVIOUS
  <2> QED BY <2>1 DEF Init, AreSequences
<1> QED BY <1>1 DEF Init, PrintInv, Idle

(* Loading a file fixes what is printed. *)
LEMMA PrintLoads ==
    ASSUME PrintInv, load_config
    PROVE  PrintInv'
<1>0. PICK full : full = ToPrint(command, Parsed(file))
  OBVIOUS
<1>1. /\ LoadResult(file) = "Ok" /\ file \in Files
      /\ config' = {Parsed(file)} /\ due' = full /\ status' = "printing"
      /\ out = <<>>
      /\ UNCHANGED <<file, command, out>>
  BY <1>0 DEF load_config, PrintInv, Idle
<1>2. PICK S : full \in Seq(S)
  BY <1>0, ToPrintType DEF PrintInv
<1>3. Len(full) \in Nat \ {0}
  BY <1>0, ToPrintType DEF PrintInv
<1>4. AreSequences'
  <2>1. out' \in Seq(S) /\ due' \in Seq(S)
    BY <1>1, <1>2
  <2> QED BY <2>1 DEF AreSequences
<1>5. Len(out') = 0 /\ Len(due') = Len(full)
  BY <1>1
<1>6. Splits(full)'
  BY <1>1, <1>3, <1>5 DEF Splits
<1>7. PrintsFrom(file)'
  BY <1>0, <1>1, <1>6 DEF PrintsFrom, Loadable, ToPrint
<1>8. \E f \in Files : PrintsFrom(f)'
  BY <1>1, <1>7
<1>9. ~Idle'
  BY <1>1 DEF Idle
<1> QED
  BY <1>1, <1>4, <1>8, <1>9 DEF PrintInv

(* Printing a piece moves it from what is due to what is printed. *)
LEMMA PrintMoves ==
    ASSUME NEW S, out \in Seq(S), due \in Seq(S), due # <<>>, NEW full, Splits(full),
           out' = Append(out, Head(due)), due' = Tail(due)
    PROVE  Splits(full)'
<1>1. /\ Len(out) \in Nat /\ Len(due) \in Nat /\ Len(due) > 0
      /\ Len(out') = Len(out) + 1 /\ Len(due') = Len(due) - 1
      /\ \A n \in 1..Len(out) : out'[n] = out[n]
      /\ out'[Len(out) + 1] = due[1]
      /\ \A n \in 1..(Len(due) - 1) : due'[n] = due[n + 1]
  OBVIOUS
<1>2. Len(out') + Len(due') = Len(full)
  BY <1>1 DEF Splits
<1>3. ASSUME NEW n \in 1..(Len(out) + 1) PROVE out'[n] = full[n]
  <2>1. CASE n = Len(out) + 1
    BY <1>1, <2>1 DEF Splits
  <2>2. CASE n # Len(out) + 1
    <3>1. n \in 1..Len(out)
      BY <1>1, <2>2
    <3> QED BY <1>1, <3>1 DEF Splits
  <2> QED BY <2>1, <2>2
<1>4. ASSUME NEW n \in 1..(Len(due) - 1) PROVE due'[n] = full[Len(out) + 1 + n]
  <2>1. n + 1 \in 1..Len(due) /\ Len(out) + (n + 1) = Len(out) + 1 + n
    BY <1>1
  <2> QED BY <1>1, <2>1 DEF Splits
<1> QED
  BY <1>1, <1>2, <1>3, <1>4 DEF Splits

(* Printing a piece keeps the invariant. *)
LEMMA PrintPrints ==
    ASSUME PrintInv, print_next
    PROVE  PrintInv'
<1>1. /\ status = "printing" /\ due # <<>>
      /\ out' = Append(out, Head(due)) /\ due' = Tail(due)
      /\ UNCHANGED <<file, command, status, config>>
  BY DEF print_next
<1>2. PICK S : out \in Seq(S) /\ due \in Seq(S)
  BY DEF PrintInv, AreSequences
<1>3. out' \in Seq(S) /\ due' \in Seq(S)
  BY <1>1, <1>2
<1>4. PICK f \in Files : PrintsFrom(f)
  BY <1>1 DEF PrintInv
<1>5. PrintsFrom(f)'
  <2>1. Splits(ToPrint(command, Parsed(f)))'
    <3>1. PICK full : full = ToPrint(command, Parsed(f))
      OBVIOUS
    <3>2. Splits(full)
      BY <1>4, <3>1 DEF PrintsFrom
    <3>3. Splits(full)'
      BY <1>1, <1>2, <3>2, PrintMoves
    <3>4. full = ToPrint(command', Parsed(f))
      BY <1>1, <3>1
    <3> QED BY <3>3, <3>4 DEF Splits
  <2> QED BY <1>1, <1>4, <2>1 DEF PrintsFrom, Loadable
<1>6. ~Idle'
  BY <1>1, <1>4 DEF Idle, PrintsFrom
<1> QED
  BY <1>1, <1>3, <1>5, <1>6 DEF PrintInv, AreSequences

(* Every step keeps it. *)
LEMMA PrintStep == PrintInv /\ [Next]_vars => PrintInv'
<1> SUFFICES ASSUME PrintInv, [Next]_vars PROVE PrintInv' OBVIOUS
<1>1. ASSUME UNCHANGED <<command, config, due, out>>,
             file' \in Files,
             status' \in {"none", "started", "printing", "ok", "failed", "killed"},
             status' \in {"none", "started", "failed"} => Idle,
             status' \in {"printing", "ok"} => ~Idle
      PROVE  PrintInv'
  <2>1. \A f : PrintsFrom(f) => PrintsFrom(f)'
    BY <1>1 DEF PrintsFrom, Loadable, Splits
  <2> QED BY <1>1, <2>1 DEF PrintInv, AreSequences, Idle
<1>2. CASE load_config_fails
  BY <1>1, <1>2 DEF load_config_fails, PrintInv
<1>3. CASE load_config
  BY <1>3, PrintLoads
<1>4. CASE print_next
  BY <1>4, PrintPrints
<1>5. CASE finish
  BY <1>1, <1>5 DEF finish, PrintInv
<1>6. ASSUME NEW f \in Files, edit_file(f) PROVE PrintInv'
  BY <1>1, <1>6 DEF edit_file, PrintInv
<1>7. ASSUME NEW c \in Commands, start(c) PROVE PrintInv'
  <2>1. AreSequences'
    <3>1. <<>> \in Seq({})
      OBVIOUS
    <3> QED BY <1>7, <3>1 DEF start, AreSequences
  <2> QED BY <1>7, <2>1 DEF start, PrintInv, Idle
<1>8. CASE kill
  BY <1>1, <1>8 DEF kill, PrintInv
<1>9. CASE UNCHANGED vars
  BY <1>1, <1>9 DEF vars, PrintInv
<1> QED
  BY <1>2, <1>3, <1>4, <1>5, <1>6, <1>7, <1>8, <1>9 DEF Next

(* The invariant holds of every behaviour, whatever the operator does to   *)
(* the file and whenever the process is killed and started again.          *)
LEMMA PrintAlways == Spec => []PrintInv
BY PrintInit, PrintStep, PTL DEF Spec

(* A file that loads holds a valid configuration. *)
LEMMA LoadableIsValid ==
    ASSUME NEW f, LoadResult(f) = "Ok"
    PROVE  f \notin {Unreadable, NotToml} /\ validate(Parsed(f)) = "Ok"
<1>1. f # Unreadable
  BY DEF LoadResult
<1>2. Parses(f)
  BY <1>1 DEF LoadResult
<1>3. validate(Parsed(f)) = "Ok"
  BY <1>1, <1>2 DEF LoadResult
<1> QED BY <1>2, <1>3 DEF Parses

(* What is printed is the beginning of the output of one loadable file.    *)
LEMMA PrintedIsAPrefix ==
    ASSUME PrintInv
    PROVE  /\ DOMAIN out = 1..Len(out) /\ Len(out) \in Nat
           /\ out # <<>> => \E f \in Files :
                 /\ LoadResult(f) = "Ok"
                 /\ config = {Parsed(f)}
                 /\ Len(out) <= Len(ToPrint(command, Parsed(f)))
                 /\ \A n \in 1..Len(out) : out[n] = ToPrint(command, Parsed(f))[n]
<1>1. PICK S : out \in Seq(S) /\ due \in Seq(S)
  BY DEF PrintInv, AreSequences
<1>2. /\ DOMAIN out = 1..Len(out) /\ Len(out) \in Nat /\ Len(due) \in Nat
  BY <1>1
<1>3. ASSUME out # <<>> PROVE \E f \in Files : PrintsFrom(f)
  BY <1>3 DEF PrintInv, Idle
<1>4. ASSUME NEW f \in Files, PrintsFrom(f)
      PROVE  /\ LoadResult(f) = "Ok"
             /\ config = {Parsed(f)}
             /\ Len(out) <= Len(ToPrint(command, Parsed(f)))
             /\ \A n \in 1..Len(out) : out[n] = ToPrint(command, Parsed(f))[n]
  <2>1. PICK full : full = ToPrint(command, Parsed(f))
    OBVIOUS
  <2>2. Splits(full)
    BY <1>4, <2>1 DEF PrintsFrom
  <2>3. Len(out) <= Len(full) /\ \A n \in 1..Len(out) : out[n] = full[n]
    BY <1>2, <2>2 DEF Splits
  <2> QED BY <1>4, <2>1, <2>3 DEF PrintsFrom, Loadable
<1> QED BY <1>2, <1>3, <1>4

-----------------------------------------------------------------------------
(* The theorems *)

(* The invariant gives the type invariant. *)
LEMMA PrintInvIsTyped == PrintInv => TypeOK
<1> SUFFICES ASSUME PrintInv PROVE TypeOK OBVIOUS
<1>1. status \in {"none", "started", "failed"} => config = {} /\ due = <<>> /\ out = <<>>
  BY DEF PrintInv, Idle
<1>2. \A c \in config : validate(c) = "Ok"
  BY LoadableIsValid DEF PrintInv, PrintsFrom, Loadable, Idle
<1>3. ASSUME status \in {"printing", "ok"}
      PROVE  \E c \in config : Len(out \o due) = Len(ToPrint(command, c))
  <2>1. PICK f \in Files : PrintsFrom(f)
    BY <1>3 DEF PrintInv
  <2>2. PICK S : out \in Seq(S) /\ due \in Seq(S)
    BY DEF PrintInv, AreSequences
  <2>3. Len(out \o due) = Len(out) + Len(due)
    BY <2>2, ConcatProperties
  <2>4. Parsed(f) \in config
    BY <2>1 DEF PrintsFrom
  <2>5. Len(out) + Len(due) = Len(ToPrint(command, Parsed(f)))
    BY <2>1, Zenon DEF PrintsFrom, Splits
  <2> QED BY <2>3, <2>4, <2>5
<1> QED BY <1>1, <1>2, <1>3 DEF PrintInv, TypeOK

(* Whatever is saved, started and killed in any order, a process that      *)
(* failed to load its file printed nothing, one that loaded it holds a     *)
(* valid configuration, and what it has printed and has yet to print are   *)
(* together as long as what its command prints.                            *)
THEOREM SpecTypeOK == Spec => []TypeOK
BY PrintAlways, PrintInvIsTyped, PTL

(* A message of an output rests on the lease, the heartbeat, the artifacts *)
(* and the usage before it.                                                *)
StandsOnALease(s, n) ==
    /\ \E m \in 1..(n - 1) :
          /\ s[m].message_type = "job.lease.accepted"
          /\ s[m].accepted
          /\ s[m].job_id = s[n].job_id
          /\ s[m].runner_id = s[n].runner_id
    /\ \E m \in 1..(n - 1) :
          s[m].message_type = "runner.heartbeat" /\ s[m].runner_id = s[n].runner_id
    /\ s[n].message_type = "job.final_result" =>
          /\ \E m \in 1..(n - 1) :
                s[m].message_type = "job.artifacts" /\ s[m].artifacts = s[n].artifacts
          /\ \E m \in 1..(n - 1) :
                /\ s[m].message_type = "job.usage.report"
                /\ \A field \in DOMAIN s[n].usage : s[m][field] = s[n].usage[field]

(* In the whole output of any command every job message does. *)
LEMMA OutputStandsOnALease ==
    ASSUME NEW c, NEW cmd \in Commands, NEW n \in 1..Len(ToPrint(cmd, c)),
           ToPrint(cmd, c)[n].message_type \in JobMessages
    PROVE  StandsOnALease(ToPrint(cmd, c), n)
<1>1. CASE cmd = "RunOnce"
  <2>1. PICK s : s = run_once(c)
    OBVIOUS
  <2>2. ToPrint(cmd, c) = s /\ n \in 1..9
    BY <1>1, <2>1, RunOnceMessages DEF ToPrint
  <2>3. /\ s[3].message_type = "runner.heartbeat" /\ s[3].runner_id = RunnerId(c)
        /\ s[4].message_type = "job.lease.accepted" /\ s[4].accepted
        /\ s[7].message_type = "job.artifacts" /\ s[7].artifacts = Artifacts
        /\ s[8].message_type = "job.usage.report"
        /\ s[9].artifacts = Artifacts
        /\ \A m \in 4..9 :
              s[m].job_id = "job_fixture_echo_001" /\ s[m].runner_id = RunnerId(c)
    BY <2>1, RunOnceIsAbout
  <2>4. s[1].message_type \notin JobMessages /\ s[2].message_type \notin JobMessages
        /\ s[3].message_type \notin JobMessages /\ s[4].message_type \notin JobMessages
    BY <2>1, RunOnceIsAbout DEF JobMessages
  <2>5. n \in 5..9
    BY <2>2, <2>4
  <2>6. s[n].message_type = "job.final_result" => n = 9
    BY <2>1, <2>5, RunOnceIsAbout
  <2>7. \A field \in DOMAIN s[9].usage : s[8][field] = s[9].usage[field]
    BY <2>1, RunOnceUsage
  <2>8. 4 \in 1..(n - 1) /\ 3 \in 1..(n - 1) /\ (n = 9 => 7 \in 1..(n - 1) /\ 8 \in 1..(n - 1))
    BY <2>5
  <2>9. s[4].job_id = s[n].job_id /\ s[4].runner_id = s[n].runner_id /\ s[3].runner_id = s[n].runner_id
    BY <2>3, <2>5
  <2> QED BY <2>2, <2>3, <2>6, <2>7, <2>8, <2>9 DEF StandsOnALease
<1>2. CASE cmd # "RunOnce"
  <2>1. n = 1
    BY <1>2, ToPrintType
  <2>2. CASE cmd = "PrintCapabilities"
    BY <2>1, <2>2 DEF ToPrint, Capabilities, capability_snapshot_payload, JobMessages
  <2>3. CASE cmd = "Register"
    BY <2>1, <2>3 DEF ToPrint, registration_payload, JobMessages
  <2>4. CASE cmd = "Diagnostics"
    BY <2>1, <2>4 DEF ToPrint, Diagnostics, JobMessages
  <2> QED BY <1>2, <2>2, <2>3, <2>4 DEF Commands
<1> QED BY <1>1, <1>2

(* So does every message that has been printed: it is in the prefix. *)
LEMMA PrintInvStands == PrintInv => EvidenceStandsOnALease
<1> SUFFICES ASSUME PrintInv, NEW mt \in JobMessages, NEW n \in Printed(mt)
             PROVE
        /\ \E m \in Printed("job.lease.accepted") :
              /\ m < n
              /\ out[m].accepted
              /\ out[m].job_id = out[n].job_id
              /\ out[m].runner_id = out[n].runner_id
        /\ \E m \in Printed("runner.heartbeat") : m < n /\ out[m].runner_id = out[n].runner_id
        /\ mt = "job.final_result" =>
              /\ \E m \in Printed("job.artifacts") : m < n /\ out[m].artifacts = out[n].artifacts
              /\ \E m \in Printed("job.usage.report") :
                    m < n /\ \A field \in DOMAIN out[n].usage : out[m][field] = out[n].usage[field]
  BY DEF EvidenceStandsOnALease
<1>1. DOMAIN out = 1..Len(out) /\ Len(out) \in Nat
  BY PrintedIsAPrefix
<1>2. n \in 1..Len(out) /\ out[n].message_type = mt
  BY <1>1 DEF Printed
<1>3. out # <<>>
  BY <1>2
<1>4. PICK f \in Files :
         /\ Len(out) <= Len(ToPrint(command, Parsed(f)))
         /\ \A m \in 1..Len(out) : out[m] = ToPrint(command, Parsed(f))[m]
  BY <1>3, PrintedIsAPrefix
<1>5. PICK s : s = ToPrint(command, Parsed(f))
  OBVIOUS
<1>6. n \in 1..Len(s) /\ s[n].message_type \in JobMessages
  BY <1>1, <1>2, <1>4, <1>5, ToPrintType DEF PrintInv
<1>7. StandsOnALease(s, n)
  BY <1>5, <1>6, OutputStandsOnALease DEF PrintInv
<1>8. \A m \in 1..n : m \in 1..Len(out) /\ out[m] = s[m]
  BY <1>1, <1>2, <1>4, <1>5
<1>9. StandsOnALease(out, n)
  BY <1>2, <1>7, <1>8 DEF StandsOnALease
<1>10. \A m \in 1..(n - 1) : m < n /\ m \in DOMAIN out
  BY <1>1, <1>2
<1> QED BY <1>2, <1>9, <1>10 DEF StandsOnALease, Printed

(* However the file is edited and whenever the process dies, what it       *)
(* printed of a job stands on a lease it accepted and a heartbeat it sent  *)
(* before, of the same job and runner, and a final result on the artifacts *)
(* and the usage it states: run_once makes its nine envelopes in that      *)
(* order from one configuration.                                           *)
THEOREM SpecEvidence == Spec => []EvidenceStandsOnALease
BY PrintAlways, PrintInvStands, PTL

(* A final result that has been printed is that of the run of the loaded   *)
(* configuration.                                                          *)
LEMMA PrintInvInBoundaries == PrintInv => RunStaysInBoundaries
<1> SUFFICES ASSUME PrintInv, NEW n \in Printed("job.final_result"), NEW c \in config
             PROVE  /\ out[n].scoped_credential_refs \subseteq c.credential_placeholder
                    /\ c.allowed_working_groups # <<>> =>
                          \E m \in DOMAIN c.allowed_working_groups :
                              out[n].audit_working_group = c.allowed_working_groups[m]
  BY DEF RunStaysInBoundaries, Results
<1>1. n \in 1..Len(out) /\ out[n].message_type = "job.final_result" /\ Len(out) \in Nat
  BY PrintedIsAPrefix DEF Printed
<1>2. PICK f \in Files :
         /\ LoadResult(f) = "Ok"
         /\ config = {Parsed(f)}
         /\ Len(out) <= Len(ToPrint(command, Parsed(f)))
         /\ \A m \in 1..Len(out) : out[m] = ToPrint(command, Parsed(f))[m]
  BY <1>1, PrintedIsAPrefix
<1>3. c = Parsed(f)
  BY <1>2
<1>4. PICK s : s = ToPrint(command, c)
  OBVIOUS
<1>5. n \in 1..Len(s) /\ out[n] = s[n]
  BY <1>1, <1>2, <1>3, <1>4, ToPrintType DEF PrintInv
<1>6. command = "RunOnce" /\ n = 9
  <2>1. CASE command # "RunOnce"
    <3>1. n = 1
      BY <1>4, <1>5, <2>1, ToPrintType DEF PrintInv
    <3>2. CASE command = "PrintCapabilities"
      BY <1>1, <1>4, <1>5, <3>1, <3>2 DEF ToPrint, Capabilities, capability_snapshot_payload
    <3>3. CASE command = "Register"
      BY <1>1, <1>4, <1>5, <3>1, <3>3 DEF ToPrint, registration_payload
    <3>4. CASE command = "Diagnostics"
      BY <1>1, <1>4, <1>5, <3>1, <3>4 DEF ToPrint, Diagnostics
    <3> QED BY <2>1, <3>2, <3>3, <3>4 DEF PrintInv, Commands
  <2>2. CASE command = "RunOnce"
    <3>1. s = run_once(c)
      BY <1>4, <2>2 DEF ToPrint
    <3>2. n \in 1..9
      BY <1>5, <3>1, RunOnceMessages
    <3> QED BY <1>1, <1>5, <2>2, <3>1, <3>2, RunOnceIsAbout
  <2> QED BY <2>1, <2>2
<1>7. out[n] = AdapterResult(c, example_dispatch(c))
  <2>1. s = run_once(c)
    BY <1>4, <1>6 DEF ToPrint
  <2> QED BY <1>5, <1>6, <2>1, RunOnceMessages
<1>8. /\ out[n].scoped_credential_refs = example_dispatch(c).scoped_credential_ref
      /\ out[n].audit_working_group = example_dispatch(c).working_group_id
  BY <1>7 DEF AdapterResult
<1>9. out[n].scoped_credential_refs = c.credential_placeholder
  BY <1>8, DispatchFields
<1>10. ASSUME c.allowed_working_groups # <<>>
       PROVE  \E m \in DOMAIN c.allowed_working_groups :
                 out[n].audit_working_group = c.allowed_working_groups[m]
  <2>1. out[n].audit_working_group = Head(c.allowed_working_groups)
    BY <1>8, <1>10, DispatchFields
  <2>2. c.allowed_working_groups \in Seq(STRING)
    <3>1. f.allowed_working_groups \subseteq Seq(STRING)
      BY <1>2, FilesAssumption, LoadableIsValid DEF IsFile, IsOption
    <3>2. Parsed(f).allowed_working_groups = OptionOf(f.allowed_working_groups, <<>>)
      BY DEF Parsed
    <3>3. PICK S : S = f.allowed_working_groups
      OBVIOUS
    <3>4. OptionOf(S, <<>>) \in Seq(STRING)
      <4>1. CASE S = {}
        BY <4>1 DEF OptionOf
      <4>2. CASE S # {}
        <5>1. OptionOf(S, <<>>) \in S
          BY <4>2 DEF OptionOf
        <5> QED BY <3>1, <3>3, <5>1
      <4> QED BY <4>1, <4>2
    <3> QED BY <1>3, <3>2, <3>3, <3>4
  <2> QED BY <1>10, <2>1, <2>2
<1> QED BY <1>9, <1>10

(* A run uses no credential but the configured one and works for a group   *)
(* the operator listed, if any is, whatever the bundled dispatch names and *)
(* however the file is edited meanwhile.                                   *)
THEOREM SpecBoundaries == Spec => []RunStaysInBoundaries
BY PrintAlways, PrintInvInBoundaries, PTL

(* What an option with one value gives. *)
LEMMA OptionOfOne ==
    ASSUME NEW x, NEW default
    PROVE  OptionOf({x}, default) = x
BY DEF OptionOf

(* An option that has some value gives no other. *)
LEMMA OptionOfAny ==
    ASSUME NEW S, NEW o, IsOption(o, S), NEW default
    PROVE  \A x \in o : OptionOf(o, default) = x
BY DEF OptionOf, IsOption

(* A file that loads names a control plane and a token variable and leaves *)
(* room for a job.                                                         *)
LEMMA LoadableFields ==
    ASSUME NEW f \in Files, LoadResult(f) = "Ok"
    PROVE  /\ f \notin {Unreadable, NotToml}
           /\ f.control_plane_url # {} /\ f.control_plane_url \cap Blank = {}
           /\ f.registration_token_env # {} /\ f.registration_token_env \cap Blank = {}
           /\ f.max_concurrency # {0}
<1>1. f # Unreadable /\ Parses(f) /\ validate(Parsed(f)) = "Ok"
  BY DEF LoadResult
<1>2. f \notin {Unreadable, NotToml} /\ f.control_plane_url # {} /\ f.registration_token_env # {}
  BY <1>1 DEF Parses, Required
<1>8. IsOption(f.control_plane_url, STRING) /\ IsOption(f.registration_token_env, STRING)
  BY <1>2, FilesAssumption DEF IsFile
<1>3. /\ Parsed(f).control_plane_url = OptionOf(f.control_plane_url, "")
      /\ Parsed(f).registration_token_env = OptionOf(f.registration_token_env, "")
      /\ Parsed(f).max_concurrency = OptionOf(f.max_concurrency, 1)
  BY DEF Parsed
<1>4. /\ Parsed(f).control_plane_url \notin Blank
      /\ Parsed(f).registration_token_env \notin Blank
      /\ Parsed(f).max_concurrency # 0
  BY <1>1 DEF validate
<1>5. f.control_plane_url \cap Blank = {}
  BY <1>8, <1>3, <1>4, OptionOfAny
<1>6. f.registration_token_env \cap Blank = {}
  BY <1>8, <1>3, <1>4, OptionOfAny
<1>7. f.max_concurrency # {0}
  BY <1>3, <1>4, OptionOfOne
<1> QED BY <1>2, <1>5, <1>6, <1>7

(* The job messages of the given type name the runner and no boundary. *)
LEMMA JobMessageAgrees ==
    ASSUME NEW c, NEW job, job.runner_id = RunnerId(c), NEW message_type, NEW r,
           message_type # "runner.registration.request",
           DOMAIN r \cap ({"message_type", "runner_id", "audit_working_group"}
                             \cup DOMAIN SettingOf) = {}
    PROVE  Agrees(And(Of(message_type, job), r), c)
<1>1. PICK m : m = And(Of(message_type, job), r)
  OBVIOUS
<1>2. DOMAIN m = {"message_type", "job_id", "runner_id"} \cup DOMAIN r
  BY <1>1 DEF And, Of
<1>3. m.message_type = message_type /\ m.runner_id = RunnerId(c)
  BY <1>1 DEF And, Of
<1>4. DOMAIN m \cap DOMAIN SettingOf = {} /\ "audit_working_group" \notin DOMAIN m
  BY <1>2 DEF SettingOf
<1>5. Agrees(m, c)
  BY <1>3, <1>4 DEF Agrees
<1> QED BY <1>1, <1>5

(* Every message of an output comes from the configuration it is made of.  *)
LEMMA OutputAgrees ==
    ASSUME NEW c, NEW cmd \in Commands, NEW n \in 1..Len(ToPrint(cmd, c))
    PROVE  Agrees(ToPrint(cmd, c)[n], c)
<1> DEFINE d == example_dispatch(c)
<1>1. Agrees(registration_payload(c), c)
  BY DEF Agrees, registration_payload, SettingOf
<1>2. Agrees(capability_snapshot_payload(c), c)
  BY DEF Agrees, capability_snapshot_payload, SettingOf
<1>3. Agrees(Capabilities(c), c)
  BY DEF Agrees, Capabilities, capability_snapshot_payload, SettingOf
<1>4. Agrees(Heartbeat(c), c)
  BY DEF Agrees, Heartbeat, SettingOf
<1>5. Agrees(Diagnostics(c), c)
  BY DEF Agrees, Diagnostics, SettingOf
<1>6. Agrees(JobLeaseAcceptance(c, d), c)
  BY DEF Agrees, JobLeaseAcceptance, SettingOf
<1>7. Agrees(AdapterResult(c, d), c)
  BY DispatchFields DEF Agrees, AdapterResult, SettingOf
<1>8. d.runner_id = RunnerId(c) /\ [d EXCEPT !.runner_id = RunnerId(c)] = d
  BY DispatchFields
<1> HIDE DEF d
<1>9. /\ Agrees(And(Of("job.progress", d), [phase |-> "running", percent |-> 100]), c)
      /\ Agrees(And(Of("job.log", d), [redacted |-> FALSE]), c)
      /\ Agrees(And(Of("job.artifacts", d), [artifacts |-> Artifacts]), c)
  BY <1>8, JobMessageAgrees DEF SettingOf
<1>10. Agrees(And(Of("job.usage.report", d), UsageReport(c, lease_from_dispatch(d))), c)
  <2>1. PICK m : m = And(Of("job.usage.report", d), UsageReport(c, lease_from_dispatch(d)))
    OBVIOUS
  <2>2. DOMAIN m = {"message_type", "job_id", "runner_id", "correlation_id", "status"}
    BY <2>1 DEF And, Of, UsageReport
  <2>3. m.message_type = "job.usage.report" /\ m.runner_id = RunnerId(c)
    BY <2>1 DEF And, Of, UsageReport
  <2>4. Agrees(m, c)
    BY <2>2, <2>3 DEF Agrees, SettingOf
  <2> QED BY <2>1, <2>4
<1>11. CASE cmd = "RunOnce"
  <2>1. PICK s : s = run_once(c)
    OBVIOUS
  <2>2. /\ s[1] = registration_payload(c)
        /\ s[2] = capability_snapshot_payload(c)
        /\ s[3] = Heartbeat(c)
        /\ s[4] = JobLeaseAcceptance(c, d)
        /\ s[5] = And(Of("job.progress", d), [phase |-> "running", percent |-> 100])
        /\ s[6] = And(Of("job.log", d), [redacted |-> FALSE])
        /\ s[7] = And(Of("job.artifacts", d), [artifacts |-> Artifacts])
        /\ s[8] = And(Of("job.usage.report", d), UsageReport(c, lease_from_dispatch(d)))
        /\ s[9] = AdapterResult(c, d)
    BY <1>8, <2>1, RunOnceMessages DEF d
  <2>3. ToPrint(cmd, c) = s /\ n \in 1..9
    BY <1>11, <2>1, RunOnceMessages DEF ToPrint
  <2>4. n \in {1, 2, 3, 4, 5, 6, 7, 8, 9}
    BY <2>3
  <2> QED BY <1>1, <1>2, <1>4, <1>6, <1>7, <1>9, <1>10, <2>2, <2>3, <2>4
<1>12. CASE cmd # "RunOnce"
  <2>1. n = 1
    <3>1. Len(ToPrint(cmd, c)) = 1
      BY <1>12, ToPrintType
    <3> QED BY <3>1
  <2>2. CASE cmd = "PrintCapabilities"
    BY <1>3, <2>1, <2>2 DEF ToPrint
  <2>3. CASE cmd = "Register"
    BY <1>1, <2>1, <2>3 DEF ToPrint
  <2>4. CASE cmd = "Diagnostics"
    BY <1>5, <2>1, <2>4 DEF ToPrint
  <2> QED BY <1>12, <2>2, <2>3, <2>4 DEF Commands
<1> QED BY <1>11, <1>12

(* So does all that has been printed. *)
LEMMA PrintInvAgrees == PrintInv => PrintsOneValidConfig
<1> SUFFICES ASSUME PrintInv, out # <<>> PROVE PrintsOneValidConfig
  BY DEF PrintsOneValidConfig
<1>1. DOMAIN out = 1..Len(out) /\ Len(out) \in Nat
  BY PrintedIsAPrefix
<1>2. PICK f \in Files :
         /\ LoadResult(f) = "Ok"
         /\ Len(out) <= Len(ToPrint(command, Parsed(f)))
         /\ \A n \in 1..Len(out) : out[n] = ToPrint(command, Parsed(f))[n]
  BY PrintedIsAPrefix
<1>3. ASSUME NEW n \in DOMAIN out PROVE Agrees(out[n], Parsed(f))
  <2>1. n \in 1..Len(ToPrint(command, Parsed(f)))
    BY <1>1, <1>2, ToPrintType DEF PrintInv
  <2>2. PICK c : c = Parsed(f)
    OBVIOUS
  <2>3. Agrees(ToPrint(command, c)[n], c)
    BY <2>1, <2>2, OutputAgrees DEF PrintInv
  <2> QED BY <1>1, <1>2, <2>2, <2>3
<1>4. /\ f \in Files \ {Unreadable, NotToml}
      /\ f.control_plane_url # {} /\ f.control_plane_url \cap Blank = {}
      /\ f.registration_token_env # {} /\ f.registration_token_env \cap Blank = {}
      /\ f.max_concurrency # {0}
  BY <1>2, LoadableFields
<1> QED BY <1>3, <1>4 DEF PrintsOneValidConfig

(* All that a process prints agrees with one file, which names a control   *)
(* plane and a variable for the token and leaves room for a job: the       *)
(* configuration is loaded and validated once, and what is printed is made *)
(* of it before any of it is printed.                                      *)
THEOREM SpecOneValidConfig == Spec => []PrintsOneValidConfig
BY PrintAlways, PrintInvAgrees, PTL
=============================================================================
