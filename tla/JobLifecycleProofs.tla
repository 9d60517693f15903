-------------------------- MODULE JobLifecycleProofs --------------------------
(* Theorems about the life of one job, for every driver and every sequence *)
(* of transitions a caller asks for, however long.                         *)
EXTENDS JobLifecycle, SequenceTheorems, TLAPS

(* The job has followed the main course, but for its last step perhaps. *)
TrailInv ==
    /\ trail \in Seq(JobState)
    /\ Len(trail) \in 1..9
    /\ state = trail[Len(trail)]
    /\ \A n \in 1..(Len(trail) - 1) : trail[n] = MainCourse[n]
    /\ \/ state = MainCourse[Len(trail)]
       \/ Len(trail) > 1 /\ <<MainCourse[Len(trail) - 1], state>> \in Interruptions

(* What drives it has asked for the beginning of its course and nothing    *)
(* was refused; when it answers, the whole course is behind it.            *)
DriverInv ==
    /\ driver \in Driver
    /\ reply \in {"Ok", "InvalidTransition"}
    /\ driver.by = "library" => answer = NoAnswer
    /\ driver.by # "library" =>
          /\ reply = "Ok"
          /\ Len(trail) <= Len(Course(driver)) + 1
          /\ \A n \in 1..(Len(trail) - 1) : trail[n + 1] = Course(driver)[n]
    /\ answer # NoAnswer =>
          answer = Answer(driver) /\ Len(trail) = Len(Course(driver)) + 1

JobInv == TrailInv /\ DriverInv

-----------------------------------------------------------------------------
(* The transitions *)

(* The main course, state by state. *)
LEMMA MainCourseIs ==
    /\ MainCourse \in Seq(JobState)
    /\ Len(MainCourse) = 9
    /\ MainCourse[1] = "Registered"
    /\ MainCourse[2] = "Heartbeating"
    /\ MainCourse[3] = "Leased"
    /\ MainCourse[4] = "PreparingWorkspace"
    /\ MainCourse[5] = "Running"
    /\ MainCourse[6] = "StreamingLogs"
    /\ MainCourse[7] = "UploadingArtifacts"
    /\ MainCourse[8] = "ReportingUsage"
    /\ MainCourse[9] = "Succeeded"
<1>1. <<"Registered">> \in Seq(JobState) /\ ToRunning \in Seq(JobState)
      /\ ToSuccess \in Seq(JobState)
  BY DEF ToRunning, ToSuccess, JobState
<1>2. MainCourse \in Seq(JobState)
  BY <1>1, ConcatProperties, Zenon DEF MainCourse
<1>3. /\ Len(MainCourse) = 9
      /\ MainCourse[1] = "Registered"
      /\ MainCourse[2] = "Heartbeating"
      /\ MainCourse[3] = "Leased"
      /\ MainCourse[4] = "PreparingWorkspace"
      /\ MainCourse[5] = "Running"
      /\ MainCourse[6] = "StreamingLogs"
      /\ MainCourse[7] = "UploadingArtifacts"
      /\ MainCourse[8] = "ReportingUsage"
      /\ MainCourse[9] = "Succeeded"
  BY DEF MainCourse, ToRunning, ToSuccess
<1> QED BY <1>2, <1>3

(* No state comes twice in it. *)
LEMMA MainCourseIsInjective ==
    ASSUME NEW m \in 1..9, NEW n \in 1..9, MainCourse[m] = MainCourse[n]
    PROVE  m = n
<1>1. m \in {1, 2, 3, 4, 5, 6, 7, 8, 9} /\ n \in {1, 2, 3, 4, 5, 6, 7, 8, 9}
  OBVIOUS
<1> QED BY <1>1, MainCourseIs

(* The pairs that leave it, from the states its members 2 to 8 are. *)
LEMMA InterruptionsAre ==
    ASSUME NEW from, NEW to
    PROVE  <<from, to>> \in Interruptions <=>
              \/ to = "Cancelled" /\ from \in {"Heartbeating", "Leased", "PreparingWorkspace", "Running"}
              \/ to = "TimedOut" /\ from = "Running"
              \/ to = "Failed" /\ from \in {"PreparingWorkspace", "Running", "StreamingLogs",
                                           "UploadingArtifacts", "ReportingUsage"}
BY DEF Interruptions

(* The pairs that follow it. *)
LEMMA StepsAre ==
    ASSUME NEW from, NEW to
    PROVE  <<from, to>> \in Steps(MainCourse) <=>
              \E n \in 1..8 : from = MainCourse[n] /\ to = MainCourse[n + 1]
<1>1. Len(MainCourse) - 1 = 8
  BY MainCourseIs
<1>2. Steps(MainCourse) = {<<MainCourse[n], MainCourse[n + 1]>> : n \in 1..8}
  BY <1>1, Zenon DEF Steps
<1> HIDE DEF MainCourse
<1> QED BY <1>2

(* A transition from the main course follows it or interrupts it. *)
LEMMA FromMainCourse ==
    ASSUME NEW k \in 1..9, NEW to, <<MainCourse[k], to>> \in CanTransition
    PROVE  /\ k \in 1..8
           /\ to \in JobState
           /\ to = MainCourse[k + 1] \/ <<MainCourse[k], to>> \in Interruptions
<1>1. CASE <<MainCourse[k], to>> \in Steps(MainCourse)
  <2>1. PICK n \in 1..8 : MainCourse[k] = MainCourse[n] /\ to = MainCourse[n + 1]
    BY <1>1, StepsAre
  <2>2. n = k
    BY <2>1, MainCourseIsInjective
  <2>3. k + 1 \in 1..9
    BY <2>2
  <2>4. MainCourse[k + 1] \in JobState
    BY <2>3, MainCourseIs, ElementOfSeq
  <2> QED BY <2>1, <2>2, <2>4
<1>2. CASE <<MainCourse[k], to>> \in Interruptions
  <2>1. MainCourse[k] # "Succeeded"
    BY <1>2, InterruptionsAre
  <2>2. k \in 1..8
    BY <2>1, MainCourseIs
  <2>3. to \in JobState
    BY <1>2, InterruptionsAre DEF JobState
  <2> QED BY <1>2, <2>2, <2>3
<1> QED BY <1>1, <1>2 DEF CanTransition

(* Nothing leads away from an interruption. *)
LEMMA InterruptionsAreFinal ==
    ASSUME NEW before, NEW from, <<before, from>> \in Interruptions, NEW to
    PROVE  <<from, to>> \notin CanTransition
<1>1. from \in {"Cancelled", "TimedOut", "Failed"}
  BY InterruptionsAre
<1>2. <<from, to>> \notin Interruptions
  BY <1>1, InterruptionsAre
<1>3. ASSUME NEW n \in 1..9 PROVE from # MainCourse[n]
  <2>1. n \in {1, 2, 3, 4, 5, 6, 7, 8, 9}
    OBVIOUS
  <2> QED BY <1>1, <2>1, MainCourseIs
<1>4. <<from, to>> \notin Steps(MainCourse)
  BY <1>3, StepsAre
<1> QED BY <1>2, <1>4 DEF CanTransition

-----------------------------------------------------------------------------
(* The trail *)

(* A transition, allowed or refused, keeps the job on its course. *)
LEMMA TransitionKeepsTrail ==
    ASSUME TrailInv, NEW to, transition(to)
    PROVE  TrailInv'
<1>1. CASE <<state, to>> \notin CanTransition
  BY <1>1 DEF transition, TrailInv
<1>2. CASE <<state, to>> \in CanTransition
  <2>1. state' = to /\ trail' = Append(trail, to)
    BY <1>2 DEF transition
  <2>2. PICK k \in 1..9 : k = Len(trail)
    BY DEF TrailInv
  <2>3. state = MainCourse[k]
    BY <1>2, <2>2, InterruptionsAreFinal DEF TrailInv
  <2>4. /\ k \in 1..8 /\ to \in JobState
        /\ to = MainCourse[k + 1] \/ <<MainCourse[k], to>> \in Interruptions
    BY <1>2, <2>3, FromMainCourse
  <2>5. /\ trail' \in Seq(JobState) /\ Len(trail') = k + 1
        /\ trail'[k + 1] = to
        /\ \A n \in 1..k : trail'[n] = trail[n]
    BY <2>1, <2>2, <2>4, AppendProperties DEF TrailInv
  <2>6. \A n \in 1..k : trail'[n] = MainCourse[n]
    <3>1. ASSUME NEW n \in 1..k PROVE trail[n] = MainCourse[n]
      <4>1. CASE n = k
        BY <2>2, <2>3, <4>1 DEF TrailInv
      <4>2. CASE n # k
        <5>1. n \in 1..(Len(trail) - 1)
          BY <2>2, <4>2
        <5> QED BY <5>1 DEF TrailInv
      <4> QED BY <4>1, <4>2
    <3> QED BY <2>5, <3>1
  <2>7. k + 1 \in 1..9 /\ (k + 1) - 1 = k /\ k + 1 > 1
    BY <2>4
  <2> QED BY <2>1, <2>4, <2>5, <2>6, <2>7 DEF TrailInv
<1> QED BY <1>1, <1>2

(* A job starts on it. *)
LEMMA TrailInit == Init => TrailInv
<1> SUFFICES ASSUME Init PROVE TrailInv OBVIOUS
<1>1. state = "Registered" /\ trail = <<"Registered">>
  BY DEF Init
<1>2. trail \in Seq(JobState) /\ Len(trail) = 1 /\ trail[1] = "Registered"
  BY <1>1 DEF JobState
<1> QED BY <1>1, <1>2, MainCourseIs DEF TrailInv

-----------------------------------------------------------------------------
(* The courses *)

(* What a driver that is not the library is. *)
LEMMA DriverIs ==
    ASSUME NEW d \in Driver, d.by # "library"
    PROVE  /\ d.by \in {"run_noop_or_echo", "simulate_noop_lifecycle"}
           /\ d.by = "simulate_noop_lifecycle" => d.terminal \in SimulatedTerminalOutcome
BY DEF Driver

(* The courses there are. *)
LEMMA CoursesAre ==
    ASSUME NEW d \in Driver, d.by # "library"
    PROVE  \/ ~Supported(d) /\ Course(d) = <<>>
           \/ ~Supported(d) /\ Course(d) = ToRunning
           \/ /\ Supported(d) /\ Course(d) = ToRunning \o ToSuccess
              /\ Answer(d) = [kind |-> "Ok", output |-> Evidence("Succeeded")]
           \/ /\ Supported(d)
              /\ \E t \in {"Failed", "Cancelled", "TimedOut"} :
                    /\ Course(d) = Append(ToRunning, t)
                    /\ Answer(d) = [kind |-> "Ok", output |-> Evidence(t)]
<1>1. CASE ~Supported(d)
  BY <1>1 DEF Course
<1>2. CASE Supported(d) /\ d.by = "run_noop_or_echo"
  BY <1>2 DEF Course, Answer
<1>3. CASE Supported(d) /\ d.by = "simulate_noop_lifecycle" /\ d.terminal = "Succeeded"
  BY <1>3 DEF Course, Answer
<1>4. CASE Supported(d) /\ d.by = "simulate_noop_lifecycle" /\ d.terminal # "Succeeded"
  <2>1. d.terminal \in {"Failed", "Cancelled", "TimedOut"}
    BY <1>4, DriverIs DEF SimulatedTerminalOutcome
  <2>2. Course(d) = Append(ToRunning, d.terminal)
    BY <1>4 DEF Course
  <2>3. Answer(d) = [kind |-> "Ok", output |-> Evidence(d.terminal)]
    BY <1>4 DEF Answer
  <2> QED BY <1>4, <2>1, <2>2, <2>3
<1> QED BY <1>1, <1>2, <1>3, <1>4, DriverIs

(* The course of a driver stays on the main course up to its last step, to *)
(* success or away from running.                                           *)
LEMMA CourseFollowsMain ==
    ASSUME NEW d \in Driver, d.by # "library"
    PROVE  /\ Len(Course(d)) \in 0..8
           /\ \A k \in 1..Len(Course(d)) :
                 /\ k > 1 => Course(d)[k - 1] = MainCourse[k]
                 /\ \/ Course(d)[k] = MainCourse[k + 1]
                    \/ k = 5 /\ Course(d)[k] \in {"Failed", "Cancelled", "TimedOut"}
<1>1. CASE Course(d) = <<>>
  BY <1>1
<1>2. CASE Course(d) = ToRunning
  <2>1. Len(Course(d)) = 4 /\ 1..4 = {1, 2, 3, 4}
    BY <1>2 DEF ToRunning
  <2> QED BY <1>2, <2>1, MainCourseIs DEF ToRunning
<1>3. CASE Course(d) = ToRunning \o ToSuccess
  <2>1. /\ Len(Course(d)) = 8
        /\ \A k \in {1, 2, 3, 4, 5, 6, 7, 8} : Course(d)[k] = MainCourse[k + 1]
    BY <1>3, MainCourseIs DEF ToRunning, ToSuccess
  <2>2. ASSUME NEW k \in 1..8
        PROVE  Course(d)[k] = MainCourse[k + 1] /\ (k > 1 => Course(d)[k - 1] = MainCourse[k])
    <3>1. k \in {1, 2, 3, 4, 5, 6, 7, 8}
      OBVIOUS
    <3>2. k > 1 => k - 1 \in {1, 2, 3, 4, 5, 6, 7, 8} /\ (k - 1) + 1 = k
      BY <3>1
    <3> QED BY <2>1, <3>1, <3>2
  <2> QED BY <2>1, <2>2
<1>4. ASSUME NEW t \in {"Failed", "Cancelled", "TimedOut"}, Course(d) = Append(ToRunning, t)
      PROVE  /\ Len(Course(d)) \in 0..8
             /\ \A k \in 1..Len(Course(d)) :
                   /\ k > 1 => Course(d)[k - 1] = MainCourse[k]
                   /\ \/ Course(d)[k] = MainCourse[k + 1]
                      \/ k = 5 /\ Course(d)[k] \in {"Failed", "Cancelled", "TimedOut"}
  <2>1. /\ Len(Course(d)) = 5
        /\ Course(d)[5] = t
        /\ \A k \in {1, 2, 3, 4} : Course(d)[k] = MainCourse[k + 1]
    BY <1>4, MainCourseIs DEF ToRunning
  <2>2. ASSUME NEW k \in 1..5
        PROVE  /\ k = 5 \/ Course(d)[k] = MainCourse[k + 1]
               /\ k > 1 => Course(d)[k - 1] = MainCourse[k]
    <3>1. k \in {1, 2, 3, 4, 5}
      OBVIOUS
    <3>2. k > 1 => k - 1 \in {1, 2, 3, 4} /\ (k - 1) + 1 = k
      BY <3>1
    <3> QED BY <2>1, <3>1, <3>2
  <2> QED BY <2>1, <2>2
<1> QED BY <1>1, <1>2, <1>3, <1>4, CoursesAre

(* What a driver asks for next is never refused. *)
LEMMA NextStepIsLegal ==
    ASSUME JobInv, driver.by # "library", Len(trail) <= Len(Course(driver))
    PROVE  <<state, Course(driver)[Len(trail)]>> \in CanTransition
<1>1. PICK k \in 1..9 : k = Len(trail)
  BY DEF JobInv, TrailInv
<1>2. k \in 1..Len(Course(driver)) /\ k \in 1..8
  <2>1. Len(Course(driver)) \in 0..8
    BY CourseFollowsMain DEF JobInv, DriverInv
  <2>2. PICK m \in 0..8 : m = Len(Course(driver))
    BY <2>1
  <2>3. k <= m
    BY <1>1, <2>2
  <2>4. k \in 1..m /\ k \in 1..8
    BY <2>2, <2>3
  <2> QED BY <2>2, <2>4
<1>3. state = MainCourse[k]
  <2>1. CASE k = 1
    BY <1>1, <2>1 DEF JobInv, TrailInv
  <2>2. CASE k > 1
    <3>1. k - 1 \in 1..(Len(trail) - 1) /\ (k - 1) + 1 = k
      BY <1>1, <2>2
    <3>2. state = Course(driver)[k - 1]
      BY <1>1, <3>1 DEF JobInv, TrailInv, DriverInv
    <3> QED BY <1>2, <2>2, <3>2, CourseFollowsMain DEF JobInv, DriverInv
  <2> QED BY <1>1, <2>1, <2>2
<1>4. CASE Course(driver)[k] = MainCourse[k + 1]
  BY <1>1, <1>2, <1>3, <1>4, StepsAre DEF CanTransition
<1>5. CASE k = 5 /\ Course(driver)[k] \in {"Failed", "Cancelled", "TimedOut"}
  BY <1>1, <1>3, <1>5, MainCourseIs, InterruptionsAre DEF CanTransition
<1> QED BY <1>2, <1>4, <1>5, CourseFollowsMain DEF JobInv, DriverInv

-----------------------------------------------------------------------------
(* The invariant *)

(* It holds before the first transition. *)
LEMMA JobInit == Init => JobInv
<1> SUFFICES ASSUME Init PROVE JobInv OBVIOUS
<1>1. TrailInv
  BY TrailInit
<1>2. Len(trail) = 1
  BY DEF Init
<1>3. driver.by # "library" => 1 <= Len(Course(driver)) + 1
  BY CourseFollowsMain DEF Init
<1> QED BY <1>1, <1>2, <1>3 DEF JobInv, DriverInv, Init

(* A driver's transition keeps it: it is the next one of the course. *)
LEMMA DriverStepKeeps ==
    ASSUME JobInv, driver_steps
    PROVE  JobInv'
<1> DEFINE to == Course(driver)[Len(trail)]
<1>1. /\ driver.by # "library" /\ reply = "Ok" /\ Len(trail) <= Len(Course(driver))
      /\ transition(to) /\ UNCHANGED <<driver, answer>>
  BY DEF driver_steps
<1>2. <<state, to>> \in CanTransition
  BY <1>1, NextStepIsLegal
<1>3. trail' = Append(trail, to) /\ reply' = "Ok"
  BY <1>1, <1>2 DEF transition
<1> HIDE DEF to
<1>4. TrailInv'
  BY <1>1, TransitionKeepsTrail DEF JobInv
<1>5. PICK k \in 1..9 : k = Len(trail)
  BY DEF JobInv, TrailInv
<1>6. to \in JobState
  <2>1. Len(trail') \in 1..9 /\ trail' \in Seq(JobState)
    BY <1>4 DEF TrailInv
  <2>2. trail'[Len(trail')] \in JobState
    BY <2>1, ElementOfSeq
  <2>3. trail'[Len(trail')] = to
    BY <1>3 DEF JobInv, TrailInv
  <2> QED BY <2>2, <2>3
<1>7. Len(trail') = k + 1 /\ trail'[k + 1] = to /\ \A n \in 1..k : trail'[n] = trail[n]
  BY <1>3, <1>5, <1>6, AppendProperties DEF JobInv, TrailInv
<1>8. Len(Course(driver)) \in 0..8
  BY <1>1, CourseFollowsMain DEF JobInv, DriverInv
<1>9. \A n \in 1..k : trail'[n + 1] = Course(driver)[n]
  <2>1. \A n \in 1..(k - 1) : trail'[n + 1] = trail[n + 1]
    BY <1>5, <1>7
  <2>2. \A n \in 1..(k - 1) : trail[n + 1] = Course(driver)[n]
    BY <1>1, <1>5 DEF JobInv, DriverInv
  <2>3. trail'[k + 1] = Course(driver)[k]
    BY <1>5, <1>7 DEF to
  <2>4. \A n \in 1..k : n = k \/ n \in 1..(k - 1)
    BY <1>5
  <2> QED BY <2>1, <2>2, <2>3, <2>4
<1>10. answer = NoAnswer
  BY <1>1, <1>5, <1>8 DEF JobInv, DriverInv
<1>11. Len(trail') <= Len(Course(driver)) + 1 /\ Len(trail') - 1 = k
  BY <1>1, <1>5, <1>7, <1>8
<1>12. DriverInv'
  BY <1>1, <1>3, <1>9, <1>10, <1>11 DEF JobInv, DriverInv
<1> QED BY <1>4, <1>12 DEF JobInv

(* Every step keeps it. *)
LEMMA JobStep == JobInv /\ [Next]_vars => JobInv'
<1> SUFFICES ASSUME JobInv, [Next]_vars PROVE JobInv' OBVIOUS
<1>1. CASE library_calls_transition
  <2>1. PICK to \in JobState : transition(to)
    BY <1>1 DEF library_calls_transition
  <2>2. TrailInv'
    BY <2>1, TransitionKeepsTrail DEF JobInv
  <2>3. reply' \in {"Ok", "InvalidTransition"}
    BY <2>1 DEF transition
  <2> QED BY <1>1, <2>2, <2>3 DEF JobInv, DriverInv, library_calls_transition
<1>2. CASE driver_steps
  BY <1>2, DriverStepKeeps
<1>3. CASE driver_returns
  BY <1>3 DEF driver_returns, JobInv, TrailInv, DriverInv
<1>4. CASE UNCHANGED vars
  BY <1>4 DEF vars, JobInv, TrailInv, DriverInv
<1> QED BY <1>1, <1>2, <1>3, <1>4 DEF Next

(* The invariant holds of every behaviour. *)
LEMMA JobAlways == Spec => []JobInv
BY JobInit, JobStep, PTL DEF Spec

-----------------------------------------------------------------------------
(* The theorems *)

(* None of the functions ends with an InvalidTransition of its own making. *)
LEMMA JobInvNotRefused == JobInv => DriversAreNotRefused
BY DEF JobInv, DriverInv, DriversAreNotRefused

(* The courses of run_noop_or_echo and simulate_noop_lifecycle agree with  *)
(* can_transition for every adapter and every outcome: no step of theirs   *)
(* is ever refused.                                                        *)
THEOREM SpecDriversAreNotRefused == Spec => []DriversAreNotRefused
BY JobAlways, JobInvNotRefused, PTL

(* Where the job is on its trail: still on the main course, or interrupted *)
(* after its last member.                                                  *)
LEMMA TrailShape ==
    ASSUME TrailInv
    PROVE  \E k \in 1..9 :
              /\ DOMAIN trail = 1..k /\ Len(trail) = k
              /\ trail[k] = state
              /\ \/ state = MainCourse[k] /\ \A n \in 1..k : trail[n] = MainCourse[n]
                 \/ /\ k - 1 \in 1..8
                    /\ <<MainCourse[k - 1], state>> \in Interruptions
                    /\ \A n \in 1..(k - 1) : trail[n] = MainCourse[n]
<1>1. PICK k \in 1..9 : k = Len(trail)
  BY DEF TrailInv
<1>2. DOMAIN trail = 1..k /\ trail[k] = state
  BY <1>1 DEF TrailInv
<1>3. \A n \in 1..(k - 1) : trail[n] = MainCourse[n]
  BY <1>1 DEF TrailInv
<1>4. CASE state = MainCourse[k]
  <2>1. \A n \in 1..k : n = k \/ n \in 1..(k - 1)
    BY <1>1
  <2> QED BY <1>1, <1>2, <1>3, <1>4, <2>1
<1>5. CASE k > 1 /\ <<MainCourse[k - 1], state>> \in Interruptions
  <2>1. k - 1 \in 1..8
    BY <1>5
  <2>2. <<MainCourse[k - 1], state>> \in Interruptions
    BY <1>5
  <2> HIDE DEF Interruptions, MainCourse
  <2> QED BY <1>1, <1>2, <1>3, <2>1, <2>2
<1> QED BY <1>1, <1>4, <1>5 DEF TrailInv

(* An interruption strikes where can_transition has it. *)
LEMMA Interrupted ==
    ASSUME NEW k, k - 1 \in 1..8, NEW s, <<MainCourse[k - 1], s>> \in Interruptions
    PROVE  /\ s \in {"TimedOut", "Cancelled", "Failed"}
           /\ s = "TimedOut" => k - 1 = 5
           /\ s = "Cancelled" => k - 1 \in 2..5
           /\ s = "Failed" => k - 1 \in 4..8
<1>1. PICK j \in 1..8 : j = k - 1
  OBVIOUS
<1>2. j \in {1, 2, 3, 4, 5, 6, 7, 8}
  OBVIOUS
<1>3. s \in {"TimedOut", "Cancelled", "Failed"}
  BY InterruptionsAre
<1>4. /\ s = "TimedOut" => MainCourse[j] = "Running"
      /\ s = "Cancelled" =>
            MainCourse[j] \in {"Heartbeating", "Leased", "PreparingWorkspace", "Running"}
      /\ s = "Failed" => MainCourse[j] \in {"PreparingWorkspace", "Running", "StreamingLogs",
                                           "UploadingArtifacts", "ReportingUsage"}
  BY <1>1, InterruptionsAre
<1>5. /\ s = "TimedOut" => j = 5
      /\ s = "Cancelled" => j \in 2..5
      /\ s = "Failed" => j \in 4..8
  BY <1>2, <1>4, MainCourseIs
<1> QED BY <1>1, <1>3, <1>5

(* The states of the main course are none of the interruptions. *)
LEMMA MainCourseStates ==
    ASSUME NEW n \in 1..9
    PROVE  /\ MainCourse[n] \notin {"TimedOut", "Cancelled", "Failed"}
           /\ MainCourse[n] = "Succeeded" => n = 9
           /\ MainCourse[n] = "StreamingLogs" => n = 6
           /\ MainCourse[n] = "UploadingArtifacts" => n = 7
<1>1. n \in {1, 2, 3, 4, 5, 6, 7, 8, 9}
  OBVIOUS
<1> QED BY <1>1, MainCourseIs

(* A job that succeeded has been through the main course and nothing else. *)
LEMMA SuccessIsTheCourse ==
    ASSUME TrailInv, state = "Succeeded"
    PROVE  trail = MainCourse
<1>1. PICK k \in 1..9 :
         /\ Len(trail) = k
         /\ \/ state = MainCourse[k] /\ \A n \in 1..k : trail[n] = MainCourse[n]
            \/ k - 1 \in 1..8 /\ <<MainCourse[k - 1], state>> \in Interruptions
  BY TrailShape
<1>2. state = MainCourse[k] /\ \A n \in 1..k : trail[n] = MainCourse[n]
  <2>1. ASSUME k - 1 \in 1..8, <<MainCourse[k - 1], state>> \in Interruptions PROVE FALSE
    <3>1. state \in {"TimedOut", "Cancelled", "Failed"}
      BY <2>1, InterruptionsAre
    <3> QED BY <3>1
  <2> QED BY <1>1, <2>1
<1>3. k = 9
  BY <1>2, MainCourseStates
<1>4. trail \in Seq(JobState) /\ MainCourse \in Seq(JobState) /\ Len(trail) = Len(MainCourse)
      /\ \A n \in 1..Len(trail) : trail[n] = MainCourse[n]
  BY <1>1, <1>2, <1>3, MainCourseIs DEF TrailInv
<1> QED BY <1>4, SeqEqual

(* However a job was interrupted, the trail shows where. *)
LEMMA JobInvIsEarned == JobInv => TerminalIsEarned
<1> SUFFICES ASSUME TrailInv PROVE TerminalIsEarned BY DEF JobInv
<1>1. state = "Succeeded" => trail = MainCourse
  BY SuccessIsTheCourse
<1>2. PICK k \in 1..9 :
         /\ DOMAIN trail = 1..k
         /\ trail[k] = state
         /\ \/ state = MainCourse[k] /\ \A n \in 1..k : trail[n] = MainCourse[n]
            \/ /\ k - 1 \in 1..8
               /\ <<MainCourse[k - 1], state>> \in Interruptions
               /\ \A n \in 1..(k - 1) : trail[n] = MainCourse[n]
  BY TrailShape
<1>3. ASSUME state \in {"TimedOut", "Cancelled", "Failed"}
      PROVE  /\ state = "TimedOut" => k - 1 = 5
             /\ state = "Cancelled" => k - 1 \in 2..5
             /\ state = "Failed" => k - 1 \in 4..8
             /\ \A n \in 1..(k - 1) : trail[n] = MainCourse[n]
             /\ \A n \in DOMAIN trail : n \in 1..(k - 1) \/ trail[n] = state
  <2>1. state # MainCourse[k]
    BY <1>3, MainCourseStates
  <2>2. \A n \in 1..k : n = k \/ n \in 1..(k - 1)
    OBVIOUS
  <2> QED BY <1>2, <2>1, <2>2, Interrupted
<1>4. state = "TimedOut" => Reached("Running") /\ ~Reached("StreamingLogs")
  <2> SUFFICES ASSUME state = "TimedOut" PROVE Reached("Running") /\ ~Reached("StreamingLogs")
    OBVIOUS
  <2>1. trail[5] = "Running" /\ 5 \in DOMAIN trail
    BY <1>2, <1>3, MainCourseIs
  <2>2. \A n \in DOMAIN trail : trail[n] # "StreamingLogs"
    BY <1>3, MainCourseStates
  <2> QED BY <2>1, <2>2 DEF Reached
<1>5. state = "Cancelled" => Reached("Heartbeating") /\ ~Reached("StreamingLogs")
  <2> SUFFICES ASSUME state = "Cancelled"
               PROVE  Reached("Heartbeating") /\ ~Reached("StreamingLogs")
    OBVIOUS
  <2>1. trail[2] = "Heartbeating" /\ 2 \in DOMAIN trail
    BY <1>2, <1>3, MainCourseIs
  <2>2. \A n \in DOMAIN trail : trail[n] # "StreamingLogs"
    BY <1>3, MainCourseStates
  <2> QED BY <2>1, <2>2 DEF Reached
<1>6. state = "Failed" => Reached("PreparingWorkspace") /\ ~Reached("Succeeded")
  <2> SUFFICES ASSUME state = "Failed"
               PROVE  Reached("PreparingWorkspace") /\ ~Reached("Succeeded")
    OBVIOUS
  <2>1. trail[4] = "PreparingWorkspace" /\ 4 \in DOMAIN trail
    BY <1>2, <1>3, MainCourseIs
  <2>2. \A n \in DOMAIN trail : trail[n] # "Succeeded"
    BY <1>3, MainCourseStates
  <2> QED BY <2>1, <2>2 DEF Reached
<1> QED BY <1>1, <1>4, <1>5, <1>6 DEF TerminalIsEarned

(* How a job ended says what it has been through, whoever asked for which  *)
(* transitions, and however often it was refused: no path of               *)
(* can_transition to success leaves out a state of the main course, and    *)
(* each other terminal state is entered only where its pairs allow.        *)
THEOREM SpecTerminalIsEarned == Spec => []TerminalIsEarned
BY JobAlways, JobInvIsEarned, PTL

(* Where a function that answered with evidence has left the job. *)
LEMMA AnswerLeaves ==
    ASSUME JobInv, answer.kind = "Ok"
    PROVE  /\ Supported(driver)
           /\ \/ state = "Succeeded" /\ answer.output = Evidence("Succeeded")
              \/ /\ state \in {"Failed", "Cancelled", "TimedOut"}
                 /\ answer.output = Evidence(state)
                 /\ Len(trail) = 6
<1>1. answer # NoAnswer
  BY DEF NoAnswer
<1>2. /\ driver \in Driver /\ driver.by # "library"
      /\ answer = Answer(driver) /\ Len(trail) = Len(Course(driver)) + 1
      /\ \A n \in 1..(Len(trail) - 1) : trail[n + 1] = Course(driver)[n]
  BY <1>1 DEF JobInv, DriverInv
<1>3. Supported(driver)
  BY <1>2 DEF Answer
<1>4. state = trail[Len(trail)]
  BY DEF JobInv, TrailInv
<1>5. CASE /\ Course(driver) = ToRunning \o ToSuccess
           /\ Answer(driver) = [kind |-> "Ok", output |-> Evidence("Succeeded")]
  <2>1. Len(Course(driver)) = 8 /\ Course(driver)[8] = "Succeeded"
    BY <1>5 DEF ToRunning, ToSuccess
  <2>2. Len(trail) = 9 /\ 8 \in 1..(Len(trail) - 1)
    BY <1>2, <2>1
  <2>3. state = "Succeeded"
    BY <1>2, <1>4, <2>1, <2>2
  <2>4. answer.output = Evidence("Succeeded")
    BY <1>2, <1>5
  <2> QED BY <1>3, <2>3, <2>4
<1>6. ASSUME NEW t \in {"Failed", "Cancelled", "TimedOut"},
             Course(driver) = Append(ToRunning, t),
             Answer(driver) = [kind |-> "Ok", output |-> Evidence(t)]
      PROVE  /\ state \in {"Failed", "Cancelled", "TimedOut"}
             /\ answer.output = Evidence(state)
             /\ Len(trail) = 6
  <2>1. Len(Course(driver)) = 5 /\ Course(driver)[5] = t
    BY <1>6 DEF ToRunning
  <2>2. Len(trail) = 6 /\ 5 \in 1..(Len(trail) - 1)
    BY <1>2, <2>1
  <2>3. state = t
    BY <1>2, <1>4, <2>1, <2>2
  <2>4. answer.output = Evidence(t)
    BY <1>2, <1>6
  <2> QED BY <2>2, <2>3, <2>4
<1> QED BY <1>2, <1>3, <1>5, <1>6, CoursesAre

(* What such evidence says. *)
LEMMA JobInvEvidence == JobInv => EvidenceIsTrue
<1> SUFFICES ASSUME JobInv, answer.kind = "Ok"
             PROVE  /\ Supported(driver)
                    /\ answer.output.phase = Phase[state]
                    /\ answer.output.phase \in Phases!TerminalPhases
                    /\ answer.output.artifacts # {} <=> Reached("UploadingArtifacts")
                    /\ answer.output.exit_code = {0} <=> state = "Succeeded"
                    /\ answer.output.stream = "stdout" <=> state = "Succeeded"
  BY DEF EvidenceIsTrue
<1>1. Supported(driver)
  BY AnswerLeaves
<1>2. CASE state = "Succeeded" /\ answer.output = Evidence("Succeeded")
  <2>1. trail = MainCourse
    BY <1>2, SuccessIsTheCourse DEF JobInv
  <2>2. Reached("UploadingArtifacts")
    <3>1. 7 \in DOMAIN MainCourse /\ MainCourse[7] = "UploadingArtifacts"
      BY MainCourseIs, LenProperties
    <3> QED BY <2>1, <3>1 DEF Reached
  <2> QED BY <1>1, <1>2, <2>2 DEF Evidence, Phase, Phases!TerminalPhases
<1>3. CASE /\ state \in {"Failed", "Cancelled", "TimedOut"}
           /\ answer.output = Evidence(state)
           /\ Len(trail) = 6
  <2>1. PICK k \in 1..9 :
           /\ DOMAIN trail = 1..k /\ Len(trail) = k
           /\ trail[k] = state
           /\ \/ state = MainCourse[k]
              \/ \A n \in 1..(k - 1) : trail[n] = MainCourse[n]
    BY TrailShape DEF JobInv
  <2>2. state # MainCourse[k]
    BY <1>3, MainCourseStates
  <2>3. \A n \in 1..5 : trail[n] # "UploadingArtifacts"
    BY <1>3, <2>1, <2>2, MainCourseStates, SMTT(30)
  <2>4. \A n \in DOMAIN trail : n \in 1..5 \/ n = 6
    BY <1>3, <2>1
  <2>5. ~Reached("UploadingArtifacts")
    BY <1>3, <2>1, <2>3, <2>4 DEF Reached
  <2>6. state = "Failed" \/ state = "Cancelled" \/ state = "TimedOut"
    BY <1>3
  <2> QED BY <1>1, <1>3, <2>5, <2>6 DEF Evidence, Phase, Phases!TerminalPhases
<1> QED BY <1>2, <1>3, AnswerLeaves

(* Evidence is about the job as its lifecycle left it, for every adapter   *)
(* and outcome: a terminal phase that is the job's, an output exactly when *)
(* artifacts were uploaded, exit code zero and standard output exactly on  *)
(* success, and none at all for an adapter that is not supported.          *)
THEOREM SpecEvidenceIsTrue == Spec => []EvidenceIsTrue
BY JobAlways, JobInvEvidence, PTL

-----------------------------------------------------------------------------
(* The phases *)

(* What can_transition allows is a step of the phases, or leaves the phase *)
(* as it is.                                                               *)
LEMMA TransitionIsAPhase ==
    ASSUME NEW from, NEW to, <<from, to>> \in CanTransition
    PROVE  \/ Phase[to] = Phase[from]
           \/ \E n \in 1..(Len(Phases!Course) - 1) :
                 Phase[from] = Phases!Course[n] /\ Phase[to] = Phases!Course[n + 1]
           \/ Phase[from] = "Finishing" /\ Phase[to] = "Completed"
           \/ /\ Phase[from] \notin Phases!TerminalPhases
              /\ Phase[to] \in Phases!TerminalPhases \ {"Completed"}
<1>1. /\ Phase["Registered"] = "Queued" /\ Phase["Heartbeating"] = "Queued"
      /\ Phase["Leased"] = "Leased" /\ Phase["PreparingWorkspace"] = "Preparing"
      /\ Phase["Running"] = "Running" /\ Phase["StreamingLogs"] = "Finishing"
      /\ Phase["UploadingArtifacts"] = "Finishing" /\ Phase["ReportingUsage"] = "Finishing"
      /\ Phase["Succeeded"] = "Completed" /\ Phase["Failed"] = "Failed"
      /\ Phase["Cancelled"] = "Cancelled" /\ Phase["TimedOut"] = "TimedOut"
  BY DEF Phase
<1>2. /\ Len(Phases!Course) - 1 = 4
      /\ Phases!Course[1] = "Queued" /\ Phases!Course[2] = "Leased"
      /\ Phases!Course[3] = "Preparing" /\ Phases!Course[4] = "Running"
      /\ Phases!Course[5] = "Finishing"
  BY DEF Phases!Course
<1>3. CASE <<from, to>> \in Interruptions
  BY <1>1, <1>3, InterruptionsAre DEF Phases!TerminalPhases
<1>4. ASSUME NEW n \in 1..8, from = MainCourse[n], to = MainCourse[n + 1]
      PROVE  \/ Phase[to] = Phase[from]
             \/ \E m \in 1..4 :
                   Phase[from] = Phases!Course[m] /\ Phase[to] = Phases!Course[m + 1]
             \/ Phase[from] = "Finishing" /\ Phase[to] = "Completed"
  <2>1. \/ from = "Registered" /\ to = "Heartbeating"
        \/ from = "Heartbeating" /\ to = "Leased"
        \/ from = "Leased" /\ to = "PreparingWorkspace"
        \/ from = "PreparingWorkspace" /\ to = "Running"
        \/ from = "Running" /\ to = "StreamingLogs"
        \/ from = "StreamingLogs" /\ to = "UploadingArtifacts"
        \/ from = "UploadingArtifacts" /\ to = "ReportingUsage"
        \/ from = "ReportingUsage" /\ to = "Succeeded"
    <3>1. n \in {1, 2, 3, 4, 5, 6, 7, 8}
      OBVIOUS
    <3> QED BY <1>4, <3>1, MainCourseIs
  <2>2. 1 \in 1..4 /\ 2 \in 1..4 /\ 3 \in 1..4 /\ 4 \in 1..4
    OBVIOUS
  <2> HIDE DEF Phase
  <2> QED BY <1>1, <1>2, <2>1, <2>2
<1>5. CASE <<from, to>> \in Steps(MainCourse)
  <2>1. PICK n \in 1..8 : from = MainCourse[n] /\ to = MainCourse[n + 1]
    BY <1>5, StepsAre
  <2>2. 1..4 = 1..(Len(Phases!Course) - 1)
    BY <1>2
  <2> HIDE DEF Phase, MainCourse
  <2> QED BY <1>4, <2>1, <2>2, Zenon
<1> QED BY <1>3, <1>5 DEF CanTransition

(* A step of the job is a step of the phases, or leaves the phase alone. *)
LEMMA StepIsAPhase ==
    [Next]_vars => [Phases!Proceed \/ Phases!Complete \/ Phases!Interrupt]_(Phase[state])
<1> SUFFICES ASSUME [Next]_vars, Phase[state]' # Phase[state]
             PROVE  Phases!Proceed \/ Phases!Complete \/ Phases!Interrupt
  OBVIOUS
<1>1. PICK to : transition(to)
  BY DEF Next, library_calls_transition, driver_steps, driver_returns, vars
<1>2. <<state, to>> \in CanTransition /\ state' = to
  BY <1>1 DEF transition
<1>3. \/ \E n \in 1..(Len(Phases!Course) - 1) :
            Phase[state] = Phases!Course[n] /\ Phase[to] = Phases!Course[n + 1]
      \/ Phase[state] = "Finishing" /\ Phase[to] = "Completed"
      \/ /\ Phase[state] \notin Phases!TerminalPhases
         /\ Phase[to] \in Phases!TerminalPhases \ {"Completed"}
  BY <1>2, TransitionIsAPhase
<1>4. Phase[state]' = Phase[to]
  BY <1>2
<1> HIDE DEF Phase
<1> QED BY <1>3, <1>4 DEF Phases!Proceed, Phases!Complete, Phases!Interrupt

(* Seen as the phases the control plane is told, a job goes through them   *)
(* in order, skips none before it runs, completes only from Finishing, and *)
(* stays in its terminal phase, whatever is asked of its lifecycle.        *)
THEOREM JobImplementsPhases == Spec => ImplementsPhases
<1>1. Init => Phases!PhaseInit
  BY DEF Init, Phases!PhaseInit, Phase, Phases!Course
<1> QED BY <1>1, StepIsAPhase, PTL DEF Spec, ImplementsPhases, Phases!PhaseSpec
=============================================================================
