----------------------- MODULE TestStateMachine_proofs -----------------------
(***************************************************************************)
(* Proofs about TestStateMachine, for every set of instances and every     *)
(* value of the timeouts.                                                  *)
(***************************************************************************)
EXTENDS TestStateMachine, TLAPS

\* The states in which a test is being executed, and current_test is it.
Executing == current_state \in {"SetupTest", "RunningTest", "CancelTest", "CleanupTest"}

ExecutingHasTest == Executing => current_test # NoRun

Typing == TypeOK /\ ExecutingHasTest

LEMMA InitTyping == Init => Typing
  <1> SUFFICES ASSUME Init PROVE Typing
    OBVIOUS
  <1>1. published \in [Runs -> [TestState -> Nat]]
    BY DEF Init
  <1>2. queued_slot \in [Runs -> Nat] /\ ticket \in [Runs -> Nat] /\ scheduled_tests \in Seq(Runs)
    BY DEF Init
  <1>3. results \subseteq [run : Runs, pcap : Runs \union {NoRun}]
    BY DEF Init
  <1>4. capture \in CaptureState
    BY DEF Init, CaptureState
  <1>5. TypeOK
    <2>1. /\ state_machine_enabled \in BOOLEAN
          /\ current_state \in TestingState /\ last_state_detect_state_change \in TestingState
          /\ lock \in LockPhase
      BY DEF Init, TestingState, LockPhase
    <2>2. front_slot \in Nat \ {0} /\ next_ticket \in Nat \ {0}
      BY DEF Init
    <2>3. current_state_age \in Nat /\ v2g_heartbeat_age \in Nat
      BY DEF Init
    <2>4. /\ current_test \in Runs \union {NoRun} /\ traffic_filepath \in Runs \union {NoRun}
          /\ v2g_context \in Runs \union {NoRun} /\ message \in TestState \union {NoMessage}
          /\ evse_request \in {"None", "Enable", "Disable"}
      BY DEF Init
    <2>5. QED
      BY <1>1, <1>2, <1>3, <1>4, <2>1, <2>2, <2>3, <2>4 DEF TypeOK
  <1>6. QED
    BY <1>5 DEF Init, Typing, ExecutingHasTest, Executing

LEMMA PublishTyping ==
  ASSUME published \in [Runs -> [TestState -> Nat]],
         NEW r \in Runs, NEW s \in TestState, publish_test_status(r, s)
  PROVE  published' \in [Runs -> [TestState -> Nat]]
  <1>1. [published[r] EXCEPT ![s] = @ + 1] \in [TestState -> Nat]
    OBVIOUS
  <1>2. published' = [published EXCEPT ![r] = [published[r] EXCEPT ![s] = @ + 1]]
    BY DEF publish_test_status
  <1>3. QED
    BY <1>1, <1>2

\* Erasing leaves one element fewer, each of them an element of before: the
\* one at the same position, or the next one from the erased position on.
LEMMA EraseTyping ==
  ASSUME scheduled_tests \in Seq(Runs), front_slot \in Nat \ {0},
         NEW i \in DOMAIN scheduled_tests, erase(i)
  PROVE  /\ scheduled_tests' \in Seq(Runs)
         /\ DOMAIN scheduled_tests' = 1..(Len(scheduled_tests) - 1)
         /\ \A j \in DOMAIN scheduled_tests' :
               /\ j \in DOMAIN scheduled_tests /\ j + 1 \in DOMAIN scheduled_tests
               /\ scheduled_tests'[j] = scheduled_tests[IF j < i THEN j ELSE j + 1]
         /\ front_slot' \in Nat \ {0}
  <1> DEFINE n == Len(scheduled_tests)
  <1>1. n \in Nat /\ DOMAIN scheduled_tests = 1..n /\ n - 1 \in Nat /\ i \in 1..n
    OBVIOUS
  <1>2. \A j \in 1..(n - 1) : j \in 1..n /\ j + 1 \in 1..n
    BY <1>1
  <1>3. \A j \in 1..(n - 1) : scheduled_tests[IF j < i THEN j ELSE j + 1] \in Runs
    BY <1>1, <1>2
  <1>4. scheduled_tests' = [j \in 1..(n - 1) |-> scheduled_tests[IF j < i THEN j ELSE j + 1]]
    BY DEF erase
  <1>5. scheduled_tests' \in Seq(Runs)
    BY <1>1, <1>3, <1>4
  <1>6. front_slot' = front_slot + 1 \/ front_slot' = front_slot
    BY DEF erase
  <1>7. QED
    BY <1>1, <1>2, <1>4, <1>5, <1>6

\* A pass keeps the types of what the frame of the loop changes.
LEMMA PassTyping ==
  ASSUME TypeOK, NEW state \in TestingState, NEW next \in TestingState, Pass(state, next)
  PROVE  /\ current_state = state /\ current_state' = next
         /\ last_state_detect_state_change' \in TestingState
         /\ current_state_age' \in Nat
         /\ lock' \in LockPhase
         /\ UNCHANGED <<state_machine_enabled, callVars, results, message>>
  BY DEF Pass, TypeOK, time_in_current_state, InLoop, AfterLoop, LockPhase

LEMMA NextTyping == Typing /\ [Next]_vars => Typing'
  <1> SUFFICES ASSUME Typing, [Next]_vars PROVE Typing'
    OBVIOUS
  <1> USE DEF Typing, ExecutingHasTest, Executing
  <1>1. ASSUME NEW r \in Runs, ScheduleTest(r) PROVE Typing'
    BY <1>1 DEF ScheduleTest, emplace_back, TypeOK, stateVars, ageVars, lockVars, traceVars,
                evseVars, outVars
  <1>2. ASSUME NEW r \in Runs, PublishQueued(r) PROVE Typing'
    <2>1. PICK id \in IF queued_slot[r] \in LiveSlots
                      THEN {scheduled_tests[queued_slot[r] - front_slot + 1]}
                      ELSE {r, NoRun} :
            IF id = NoRun THEN UNCHANGED published ELSE publish_test_status(id, "Queued")
      BY <1>2 DEF PublishQueued
    <2>2. id \in Runs \union {NoRun}
      BY <2>1 DEF LiveSlots, TypeOK
    <2>3. published' \in [Runs -> [TestState -> Nat]]
      BY <2>1, <2>2, PublishTyping DEF TypeOK, TestState
    <2>4. QED
      BY <1>2, <2>3 DEF PublishQueued, TypeOK, queueVars, stateVars, ageVars, lockVars,
                        traceVars, evseVars
  <1>3. ASSUME NEW r \in Runs, UnscheduleTest(r) PROVE Typing'
    <2>1. published' \in [Runs -> [TestState -> Nat]]
      BY <1>3, PublishTyping DEF UnscheduleTest, TypeOK, TestState
    <2>2. PICK i \in DOMAIN scheduled_tests : erase(i)
      BY <1>3 DEF UnscheduleTest
    <2>3. scheduled_tests' \in Seq(Runs) /\ front_slot' \in Nat \ {0}
      BY <2>2, EraseTyping DEF TypeOK
    <2>4. QED
      BY <1>3, <2>1, <2>3 DEF UnscheduleTest, TypeOK, stateVars, ageVars, lockVars, traceVars,
                              evseVars
  <1>4. ASSUME NEW r \in Runs, UnscheduleTest_NotFound(r) PROVE Typing'
    BY <1>4 DEF UnscheduleTest_NotFound, TypeOK, vars, queueVars, stateVars, ageVars, lockVars,
                traceVars, evseVars, callVars, outVars
  <1>5. CASE Environment
    <2> USE DEF TypeOK, queueVars, stateVars, ageVars, lockVars, traceVars, evseVars, callVars,
                outVars
    <2>1. CASE EvseEnabledExternally
      BY <2>1 DEF EvseEnabledExternally, disable_evse
    <2>2. CASE EvseDisabledExternally
      BY <2>2 DEF EvseDisabledExternally
    <2>3. CASE ProcessHeartbeat
      BY <2>3 DEF ProcessHeartbeat
    <2>4. CASE ProcessTestResult
      BY <2>4 DEF ProcessTestResult, Acquire, LockPhase
    <2>5. CASE CaptureFails
      BY <2>5 DEF CaptureFails, CaptureState
    <2>6. ASSUME NEW s \in TestState, ProcessTestStatus(s) PROVE Typing'
      BY <2>6 DEF ProcessTestStatus, Acquire, LockPhase
    <2>7. QED
      BY <1>5, <2>1, <2>2, <2>3, <2>4, <2>5, <2>6 DEF Environment
  <1>6. CASE MainThread
    BY <1>6 DEF MainThread, Acquire, TypeOK, queueVars, stateVars, ageVars, lockVars, traceVars,
                evseVars, callVars, outVars, LockPhase
  <1>7. CASE RunStateMachine
    <2> USE DEF TestingState
    <2>1. CASE RunDisabled
      BY <2>1, PassTyping DEF RunDisabled, TypeOK, queueVars, traceVars, evseVars, callVars
    <2>2. CASE RunIdle
      <3>1. CASE /\ Pass("Idle", "Disabled") \/ Pass("Idle", "Idle")
                 /\ UNCHANGED <<queueVars, current_test, v2g_heartbeat_age, traceVars, evseVars,
                                published>>
        BY <3>1, PassTyping DEF TypeOK, queueVars, traceVars, evseVars, callVars
      <3>2. CASE /\ scheduled_tests # <<>> /\ Pass("Idle", "SetupTest")
                 /\ current_test' = Head(scheduled_tests)
                 /\ scheduled_tests' = Tail(scheduled_tests)
                 /\ front_slot' = front_slot + 1
                 /\ UNCHANGED <<v2g_heartbeat_age, traceVars, evseVars, published>>
        <4>1. Head(scheduled_tests) \in Runs /\ Tail(scheduled_tests) \in Seq(Runs)
          BY <3>2 DEF TypeOK
        <4>2. /\ current_state' = "SetupTest" /\ last_state_detect_state_change' \in TestingState
              /\ current_state_age' \in Nat /\ lock' \in LockPhase
              /\ UNCHANGED <<state_machine_enabled, callVars, results, message>>
          BY <3>2, PassTyping
        <4>3. scheduled_tests' \in Seq(Runs) /\ current_test' \in Runs /\ front_slot' \in Nat \ {0}
          BY <3>2, <4>1 DEF TypeOK
        <4>4. current_test' # NoRun /\ current_state' \in TestingState
          BY <4>2, <4>3, ConstantsAssumption DEF ConstantsAssumption
        <4>5. TypeOK'
          BY <3>2, <4>2, <4>3, <4>4 DEF TypeOK, traceVars, evseVars, callVars
        <4>6. QED
          BY <4>4, <4>5
      <3>3. QED
        BY <2>2, <3>1, <3>2 DEF RunIdle
    <2>3. CASE RunSetupTest
      BY <2>3, PassTyping DEF RunSetupTest, setup_test, enable_evse, start_capture, TypeOK,
                              queueVars, traceVars, evseVars, callVars, CaptureState
    <2>4. CASE RunRunningTest
      BY <2>4, PassTyping DEF RunRunningTest, heartbeat_age_now, TypeOK, queueVars, traceVars,
                              evseVars, callVars
    <2>5. CASE RunCancelTest
      <3>1. published' \in [Runs -> [TestState -> Nat]]
        BY <2>5, PublishTyping, PassTyping DEF RunCancelTest, TypeOK, TestState
      <3>2. QED
        BY <2>5, <3>1, PassTyping DEF RunCancelTest, TypeOK, queueVars, traceVars, evseVars,
                                      callVars
    <2>6. CASE RunCleanupTest
      BY <2>6, PassTyping DEF RunCleanupTest, cleanup_test, disable_evse, stop_capture, TypeOK,
                              queueVars, traceVars, evseVars, callVars, CaptureState
    <2>7. QED
      BY <1>7, <2>1, <2>2, <2>3, <2>4, <2>5, <2>6 DEF RunStateMachine
  <1>8. CASE SwitchTestStatus
    <2>1. published' \in [Runs -> [TestState -> Nat]]
      <3>1. CASE current_state' = current_state
        BY <1>8, <3>1 DEF SwitchTestStatus, TypeOK
      <3>2. CASE current_state' # current_state
        <4>1. Executing /\ message \in TestState
          BY <1>8, <3>2 DEF SwitchTestStatus, NextState, TestState
        <4>2. QED
          BY <1>8, <3>2, <4>1, PublishTyping DEF SwitchTestStatus, TypeOK
      <3>3. QED
        BY <3>1, <3>2
    <2>2. current_state' \in TestingState /\ (Executing' => Executing)
      BY <1>8 DEF SwitchTestStatus, NextState, TypeOK, TestingState
    <2>3. QED
      BY <1>8, <2>1, <2>2 DEF SwitchTestStatus, TypeOK, queueVars, ageVars, traceVars, evseVars,
                              callVars, LockPhase
  <1>9. CASE SwitchTestResult
    BY <1>9 DEF SwitchTestResult, ReportsResults, TypeOK, queueVars, stateVars, ageVars,
                traceVars, evseVars, callVars, LockPhase
  <1>10. CASE Tick
    BY <1>10 DEF Tick, older, TypeOK, queueVars, stateVars, lockVars, traceVars, evseVars,
                 callVars, outVars
  <1>11. CASE UNCHANGED vars
    BY <1>11 DEF TypeOK, vars, queueVars, stateVars, ageVars, lockVars, traceVars, evseVars,
                 callVars, outVars
  <1>12. QED
    BY <1>1, <1>2, <1>3, <1>4, <1>5, <1>6, <1>7, <1>8, <1>9, <1>10, <1>11
       DEF Next, Scheduling, Threads

\* Every variable stays in its range, however the threads interleave.
THEOREM TypeCorrect == Spec => []TypeOK
  <1>1. Spec => []Typing
    BY InitTyping, NextTyping, PTL DEF Spec
  <1>2. QED
    BY <1>1, PTL DEF Typing

-----------------------------------------------------------------------------
(***************************************************************************)
(* What the steps that decide nothing leave alone.                         *)
(***************************************************************************)

\* The environment, the clock and a thread that just takes the mutex.
Quiet == \/ Environment \/ MainThread \/ Tick \/ UNCHANGED vars
         \/ \E r \in Runs : UnscheduleTest_NotFound(r)

LEMMA QuietFrame ==
  ASSUME Quiet
  PROVE  /\ UNCHANGED <<queueVars, stateVars, traffic_filepath, v2g_context, ticket, next_ticket,
                         outVars>>
         /\ evse_request' = evse_request \/ evse_request' = "Disable"
         /\ capture' = capture \/ (capture = "RUNNING" /\ capture' = "STOPPED")
         /\ lock' = lock \/ lock = "free"
  <1> USE DEF queueVars, stateVars, ageVars, lockVars, traceVars, evseVars, callVars, outVars, vars
  <1>1. CASE Environment
    BY <1>1 DEF Environment, EvseEnabledExternally, EvseDisabledExternally, ProcessHeartbeat,
                ProcessTestResult, CaptureFails, ProcessTestStatus, Acquire, disable_evse
  <1>2. CASE MainThread
    BY <1>2 DEF MainThread, Acquire
  <1>3. CASE Tick
    BY <1>3 DEF Tick
  <1>4. CASE UNCHANGED vars \/ \E r \in Runs : UnscheduleTest_NotFound(r)
    BY <1>4 DEF UnscheduleTest_NotFound
  <1>5. QED
    BY <1>1, <1>2, <1>3, <1>4 DEF Quiet

\* The passes of the loop that neither take a test nor publish anything.
PlainPass == RunDisabled \/ RunSetupTest \/ RunRunningTest \/ RunCleanupTest

LEMMA PlainPassFrame ==
  ASSUME TypeOK, PlainPass
  PROVE  /\ UNCHANGED <<queueVars, current_test, callVars, outVars>>
         /\ current_state = "Disabled" => current_state' \in {"Disabled", "Idle"}
         /\ current_state = "SetupTest" => current_state' = "SetupTest"
         /\ current_state = "RunningTest" => current_state' \in {"RunningTest", "CancelTest"}
         /\ current_state = "CleanupTest" => current_state' \in {"CleanupTest", "Idle"}
         /\ current_state \notin {"Idle", "CancelTest"}
  BY DEF PlainPass, RunDisabled, RunSetupTest, RunRunningTest, RunCleanupTest, Pass, callVars,
         outVars

\* RunIdle with testing enabled and an instance waiting.
SelectTest == /\ Pass("Idle", "SetupTest")
              /\ scheduled_tests # <<>>
              /\ current_test' = Head(scheduled_tests)
              /\ scheduled_tests' = Tail(scheduled_tests)
              /\ UNCHANGED <<traceVars, evseVars, published>>

IdlePass == /\ Pass("Idle", "Disabled") \/ Pass("Idle", "Idle")
            /\ UNCHANGED <<queueVars, current_test, traceVars, evseVars, published>>

LEMMA IdleCases == RunIdle => SelectTest \/ IdlePass
  BY DEF RunIdle, SelectTest, IdlePass

LEMMA NextCases ==
  ASSUME [Next]_vars
  PROVE  \/ Quiet \/ PlainPass \/ SelectTest \/ IdlePass \/ RunCancelTest
         \/ SwitchTestStatus \/ SwitchTestResult
         \/ \E r \in Runs : ScheduleTest(r) \/ PublishQueued(r) \/ UnscheduleTest(r)
  BY IdleCases DEF Next, Scheduling, Threads, RunStateMachine, Quiet, PlainPass

LEMMA PublishEffect ==
  ASSUME TypeOK, NEW r \in Runs, NEW s \in TestState, publish_test_status(r, s)
  PROVE  \A q \in Runs, t \in TestState :
            published'[q][t] = IF q = r /\ t = s THEN published[q][t] + 1 ELSE published[q][t]
  BY DEF publish_test_status, TypeOK

\* The late "Queued" status touches no other count, whoever it names.
LEMMA PublishQueuedEffect ==
  ASSUME TypeOK, NEW r \in Runs, PublishQueued(r)
  PROVE  \A q \in Runs : \A s \in TestState \ {"Queued"} : published'[q][s] = published[q][s]
  <1>1. \/ UNCHANGED published
        \/ \E id \in Runs : publish_test_status(id, "Queued")
    BY DEF PublishQueued, LiveSlots, TypeOK
  <1>2. QED
    BY <1>1, PublishEffect DEF TestState

-----------------------------------------------------------------------------
(***************************************************************************)
(* The order of execution.                                                 *)
(***************************************************************************)

\* Tickets are handed out in increasing order, and whoever is in the queue or
\* was taken from it has one.
TicketsGrow == /\ \A r \in Runs : ticket[r] < next_ticket
               /\ \A i \in DOMAIN scheduled_tests : ticket[scheduled_tests[i]] # 0
               /\ current_test # NoRun => ticket[current_test] # 0

QueueInv == TicketsGrow /\ InScheduleOrder

LEMMA InitQueue == Init => QueueInv
  BY DEF Init, QueueInv, TicketsGrow, InScheduleOrder

LEMMA QueueUnchanged ==
  ASSUME QueueInv, UNCHANGED <<scheduled_tests, current_test, ticket, next_ticket>>
  PROVE  QueueInv'
  BY DEF QueueInv, TicketsGrow, InScheduleOrder

LEMMA ScheduleTestQueue ==
  ASSUME Typing, QueueInv, NEW r \in Runs, ScheduleTest(r)
  PROVE  QueueInv'
  <1>0. /\ scheduled_tests \in Seq(Runs) /\ ticket \in [Runs -> Nat] /\ next_ticket \in Nat \ {0}
        /\ current_test \in Runs \union {NoRun}
    BY DEF TypeOK, Typing
  <1> DEFINE n == Len(scheduled_tests)
  <1>1. /\ n \in Nat /\ DOMAIN scheduled_tests = 1..n
        /\ DOMAIN scheduled_tests' = 1..(n + 1) /\ scheduled_tests'[n + 1] = r
        /\ \A i \in 1..n : /\ scheduled_tests'[i] = scheduled_tests[i]
                           /\ scheduled_tests[i] \in Runs
    BY <1>0 DEF ScheduleTest, emplace_back
  <1>2. /\ ticket[r] = 0 /\ ticket' = [ticket EXCEPT ![r] = next_ticket]
        /\ next_ticket' = next_ticket + 1 /\ UNCHANGED current_test
    BY DEF ScheduleTest, stateVars
  <1>3. \A i \in 1..n : /\ ticket[scheduled_tests[i]] # 0
                        /\ ticket'[scheduled_tests[i]] = ticket[scheduled_tests[i]]
                        /\ ticket[scheduled_tests[i]] < next_ticket
    BY <1>0, <1>1, <1>2 DEF QueueInv, TicketsGrow
  <1>4. current_test # NoRun => /\ current_test \in Runs
                                /\ ticket'[current_test] = ticket[current_test]
                                /\ ticket[current_test] # 0
                                /\ ticket[current_test] < next_ticket
    BY <1>0, <1>2 DEF QueueInv, TicketsGrow
  <1>5. TicketsGrow'
    <2>1. \A q \in Runs : ticket'[q] < next_ticket'
      BY <1>0, <1>2 DEF QueueInv, TicketsGrow
    <2>2. ASSUME NEW i \in DOMAIN scheduled_tests' PROVE ticket'[scheduled_tests'[i]] # 0
      <3>1. ticket'[r] # 0
        BY <1>0, <1>2
      <3>2. i \in 1..n \/ i = n + 1
        BY <1>1
      <3>3. QED
        BY <1>1, <1>3, <3>1, <3>2
    <2>3. QED
      BY <1>2, <1>4, <2>1, <2>2 DEF TicketsGrow
  <1>6. ASSUME NEW i \in DOMAIN scheduled_tests', NEW j \in DOMAIN scheduled_tests', i < j
        PROVE  ticket'[scheduled_tests'[i]] < ticket'[scheduled_tests'[j]]
    <2>1. i \in 1..n
      BY <1>1, <1>6
    <2>2. CASE j \in 1..n
      <3>1. ticket[scheduled_tests[i]] < ticket[scheduled_tests[j]]
        BY <1>1, <1>6, <2>1, <2>2 DEF QueueInv, InScheduleOrder
      <3>2. QED
        BY <1>1, <1>3, <2>1, <2>2, <3>1
    <2>3. CASE j = n + 1
      BY <1>0, <1>1, <1>2, <1>3, <2>1, <2>3
    <2>4. QED
      BY <1>1, <2>2, <2>3
  <1>7. ASSUME current_test' # NoRun, NEW i \in DOMAIN scheduled_tests'
        PROVE  ticket'[current_test'] < ticket'[scheduled_tests'[i]]
    <2>1. CASE i \in 1..n
      BY <1>1, <1>2, <1>3, <1>4, <1>7, <2>1 DEF QueueInv, InScheduleOrder
    <2>2. CASE i = n + 1
      BY <1>0, <1>1, <1>2, <1>4, <1>7, <2>2
    <2>3. QED
      BY <1>1, <2>1, <2>2
  <1>8. QED
    BY <1>5, <1>6, <1>7 DEF QueueInv, InScheduleOrder

LEMMA UnscheduleTestQueue ==
  ASSUME Typing, QueueInv, NEW i \in DOMAIN scheduled_tests, erase(i),
         UNCHANGED <<current_test, ticket, next_ticket>>
  PROVE  QueueInv'
  <1>0. /\ scheduled_tests \in Seq(Runs) /\ ticket \in [Runs -> Nat] /\ next_ticket \in Nat \ {0}
        /\ current_test \in Runs \union {NoRun}
    BY DEF TypeOK, Typing
  <1> DEFINE n == Len(scheduled_tests)
             old(j) == IF j < i THEN j ELSE j + 1
  <1>a. n \in Nat /\ DOMAIN scheduled_tests = 1..n /\ i \in 1..n
    BY <1>0
  <1>b. /\ DOMAIN scheduled_tests' = 1..(n - 1)
        /\ \A j \in 1..(n - 1) : scheduled_tests'[j] = scheduled_tests[old(j)]
    <2>1. front_slot \in Nat \ {0}
      BY DEF TypeOK, Typing
    <2>2. QED
      BY <1>0, <2>1, EraseTyping
  <1>c. \A j \in 1..(n - 1) : old(j) \in 1..n
    BY <1>a
  <1>1. /\ DOMAIN scheduled_tests' = 1..(n - 1) /\ DOMAIN scheduled_tests = 1..n
        /\ \A j \in 1..(n - 1) : old(j) \in 1..n /\ scheduled_tests'[j] = scheduled_tests[old(j)]
    BY <1>a, <1>b, <1>c
  <1>2. ASSUME NEW j \in 1..(n - 1), NEW k \in 1..(n - 1), j < k PROVE old(j) < old(k)
    BY <1>a, <1>2
  <1> HIDE DEF old
  <1>3. \A j, k \in 1..(n - 1) :
           j < k => ticket[scheduled_tests'[j]] < ticket[scheduled_tests'[k]]
    BY <1>1, <1>2 DEF QueueInv, InScheduleOrder
  <1>4. \A j \in 1..(n - 1) :
           /\ ticket[scheduled_tests'[j]] # 0
           /\ current_test # NoRun => ticket[current_test] < ticket[scheduled_tests'[j]]
    BY <1>1 DEF QueueInv, InScheduleOrder, TicketsGrow
  <1>5. QED
    BY <1>1, <1>3, <1>4 DEF QueueInv, InScheduleOrder, TicketsGrow

LEMMA SelectTestQueue ==
  ASSUME Typing, QueueInv, SelectTest
  PROVE  QueueInv'
  <1>0. /\ scheduled_tests \in Seq(Runs) /\ ticket \in [Runs -> Nat] /\ next_ticket \in Nat \ {0}
        /\ current_test \in Runs \union {NoRun}
    BY DEF TypeOK, Typing
  <1> DEFINE n == Len(scheduled_tests)
  <1>1. /\ n \in Nat /\ n # 0 /\ DOMAIN scheduled_tests = 1..n
        /\ DOMAIN scheduled_tests' = 1..(n - 1)
        /\ \A j \in 1..(n - 1) : /\ j \in 1..n /\ j + 1 \in 1..n
                                 /\ scheduled_tests'[j] = scheduled_tests[j + 1]
        /\ 1 \in 1..n /\ current_test' = scheduled_tests[1]
    BY <1>0 DEF SelectTest
  <1>2. UNCHANGED <<ticket, next_ticket>>
    BY DEF SelectTest, Pass, callVars
  <1>3. ASSUME NEW j \in 1..(n - 1), NEW k \in 1..(n - 1), j < k
        PROVE  ticket[scheduled_tests'[j]] < ticket[scheduled_tests'[k]]
    <2>1. j + 1 \in 1..n /\ k + 1 \in 1..n /\ j + 1 < k + 1
      BY <1>1, <1>3
    <2>2. ticket[scheduled_tests[j + 1]] < ticket[scheduled_tests[k + 1]]
      BY <1>1, <2>1 DEF QueueInv, InScheduleOrder
    <2>3. QED
      BY <1>1, <2>2
  <1>4. ASSUME NEW j \in 1..(n - 1)
        PROVE  ticket[current_test'] < ticket[scheduled_tests'[j]]
    <2>1. j + 1 \in 1..n /\ 1 \in 1..n /\ 1 < j + 1
      BY <1>1
    <2>2. ticket[scheduled_tests[1]] < ticket[scheduled_tests[j + 1]]
      BY <1>1, <2>1 DEF QueueInv, InScheduleOrder
    <2>3. QED
      BY <1>1, <2>2
  <1>5. TicketsGrow'
    <2>1. \A j \in DOMAIN scheduled_tests' : ticket'[scheduled_tests'[j]] # 0
      BY <1>1, <1>2 DEF QueueInv, TicketsGrow
    <2>2. ticket'[current_test'] # 0 /\ \A r \in Runs : ticket'[r] < next_ticket'
      BY <1>1, <1>2 DEF QueueInv, TicketsGrow
    <2>3. QED
      BY <2>1, <2>2 DEF TicketsGrow
  <1>6. InScheduleOrder'
    <2>1. \A j, k \in DOMAIN scheduled_tests' :
             j < k => ticket'[scheduled_tests'[j]] < ticket'[scheduled_tests'[k]]
      BY <1>1, <1>2, <1>3
    <2>2. \A j \in DOMAIN scheduled_tests' : ticket'[current_test'] < ticket'[scheduled_tests'[j]]
      BY <1>1, <1>2, <1>4
    <2>3. QED
      BY <2>1, <2>2 DEF InScheduleOrder
  <1>7. QED
    BY <1>5, <1>6 DEF QueueInv

LEMMA NextQueue == Typing /\ QueueInv /\ [Next]_vars => QueueInv'
  <1> SUFFICES ASSUME Typing, QueueInv, [Next]_vars PROVE QueueInv'
    OBVIOUS
  <1> USE DEF Typing
  <1>1. CASE Quiet
    BY <1>1, QuietFrame, QueueUnchanged DEF queueVars, stateVars
  <1>2. CASE PlainPass
    BY <1>2, PlainPassFrame, QueueUnchanged DEF queueVars, callVars
  <1>3. CASE SelectTest
    BY <1>3, SelectTestQueue
  <1>4. CASE IdlePass \/ RunCancelTest \/ SwitchTestStatus \/ SwitchTestResult
    <2>1. UNCHANGED <<scheduled_tests, current_test, ticket, next_ticket>>
      BY <1>4 DEF IdlePass, RunCancelTest, SwitchTestStatus, SwitchTestResult, Pass, queueVars,
                  stateVars, callVars
    <2>2. QED
      BY <2>1, QueueUnchanged
  <1>5. ASSUME NEW r \in Runs, ScheduleTest(r) PROVE QueueInv'
    BY <1>5, ScheduleTestQueue
  <1>6. ASSUME NEW r \in Runs, PublishQueued(r) PROVE QueueInv'
    BY <1>6, QueueUnchanged DEF PublishQueued, queueVars, stateVars
  <1>7. ASSUME NEW r \in Runs, UnscheduleTest(r) PROVE QueueInv'
    BY <1>7, UnscheduleTestQueue DEF UnscheduleTest, stateVars
  <1>8. QED
    BY <1>1, <1>2, <1>3, <1>4, <1>5, <1>6, <1>7, NextCases

\* Instances are executed in the order they were scheduled.
THEOREM ScheduleOrderKept == Spec => []InScheduleOrder
  <1>1. Spec => [](Typing /\ QueueInv)
    BY InitTyping, NextTyping, InitQueue, NextQueue, PTL DEF Spec
  <1>2. QED
    BY <1>1, PTL DEF QueueInv

-----------------------------------------------------------------------------
(***************************************************************************)
(* What is announced about an instance.                                    *)
(***************************************************************************)

\* Neither running, canceled nor finished was announced for r.
Fresh(r) == \A s \in TestState \ {"Queued"} : published[r][s] = 0

FreshUntilSelected == /\ \A r \in Runs : ticket[r] = 0 => Fresh(r)
                      /\ \A i \in DOMAIN scheduled_tests : Fresh(scheduled_tests[i])

AnnouncedAsExecuted ==
  /\ current_state = "SetupTest" => Fresh(current_test)
  /\ current_state \in {"RunningTest", "CancelTest"} => Started(current_test) /\ ~Ended(current_test)

CountInv == OneEndPerRun /\ FreshUntilSelected /\ AnnouncedAsExecuted

LEMMA InitCount == Init => CountInv
  BY DEF Init, CountInv, OneEndPerRun, FreshUntilSelected, AnnouncedAsExecuted, Fresh, TestState

\* Steps that publish nothing but "Queued" and bring nobody into the queue.
LEMMA CountsKept ==
  ASSUME CountInv, Typing, Typing',
         \A r \in Runs : \A s \in TestState \ {"Queued"} : published'[r][s] = published[r][s],
         \A r \in Runs : ticket'[r] = 0 => ticket[r] = 0,
         \A i \in DOMAIN scheduled_tests' : Fresh(scheduled_tests'[i]),
         current_state' = "SetupTest" => Fresh(current_test'),
         current_state' \in {"RunningTest", "CancelTest"} =>
            Started(current_test') /\ ~Ended(current_test')
  PROVE  CountInv'
  <1>1. \A i \in DOMAIN scheduled_tests' : scheduled_tests'[i] \in Runs
    BY DEF Typing, TypeOK
  <1>2. Executing' => current_test' \in Runs
    BY DEF Typing, TypeOK, ExecutingHasTest
  <1>3. \A r \in Runs : (Fresh(r) <=> Fresh(r)') /\ (Started(r) <=> Started(r)')
                        /\ (Ended(r) <=> Ended(r)')
    BY DEF Fresh, Started, Ended, TestState
  <1>4. OneEndPerRun'
    BY DEF CountInv, OneEndPerRun, TestState
  <1>5. FreshUntilSelected'
    BY <1>1, <1>3 DEF CountInv, FreshUntilSelected
  <1>6. AnnouncedAsExecuted'
    BY <1>2, <1>3 DEF AnnouncedAsExecuted, Executing
  <1>7. QED
    BY <1>4, <1>5, <1>6 DEF CountInv

\* Steps that announce the end of an instance that is not in the queue any
\* more, and is not executed any more.
LEMMA EndAnnounced ==
  ASSUME CountInv, Typing, Typing', NEW r \in Runs, NEW s \in {"Canceled", "Finished"},
         publish_test_status(r, s), ~Ended(r), ticket[r] # 0, UNCHANGED ticket,
         \A i \in DOMAIN scheduled_tests' : /\ scheduled_tests'[i] # r
                                            /\ Fresh(scheduled_tests'[i]),
         current_state' = "SetupTest" => Fresh(current_test') /\ current_test' # r,
         current_state' \in {"RunningTest", "CancelTest"} =>
            Started(current_test') /\ ~Ended(current_test') /\ current_test' # r
  PROVE  CountInv'
  <1>1. \A i \in DOMAIN scheduled_tests' : scheduled_tests'[i] \in Runs
    BY DEF Typing, TypeOK
  <1>2. Executing' => current_test' \in Runs
    BY DEF Typing, TypeOK, ExecutingHasTest
  <1>3. \A q \in Runs, t \in TestState :
           /\ published[q][t] \in Nat
           /\ published'[q][t] = IF q = r /\ t = s THEN published[q][t] + 1 ELSE published[q][t]
    <2>1. s \in TestState /\ TypeOK
      BY DEF TestState, Typing
    <2>2. \A q \in Runs, t \in TestState : published[q][t] \in Nat
      BY DEF Typing, TypeOK
    <2>3. QED
      BY <2>1, <2>2, PublishEffect
  <1>4. \A q \in Runs : q # r => /\ Fresh(q) <=> Fresh(q)'
                                 /\ Started(q) <=> Started(q)'
                                 /\ Ended(q) <=> Ended(q)'
    BY <1>3 DEF Fresh, Started, Ended, TestState
  <1>5. OneEndPerRun'
    BY <1>3 DEF CountInv, OneEndPerRun, TestState, Ended
  <1>6. FreshUntilSelected'
    BY <1>1, <1>4 DEF CountInv, FreshUntilSelected
  <1>7. AnnouncedAsExecuted'
    BY <1>2, <1>4 DEF AnnouncedAsExecuted, Executing
  <1>8. QED
    BY <1>5, <1>6, <1>7 DEF CountInv

\* The instance being executed is not in the queue.
LEMMA NotQueued ==
  ASSUME Typing, QueueInv, Executing
  PROVE  /\ current_test \in Runs /\ ticket[current_test] # 0
         /\ \A i \in DOMAIN scheduled_tests : scheduled_tests[i] # current_test
  BY DEF Typing, TypeOK, ExecutingHasTest, QueueInv, TicketsGrow, InScheduleOrder

LEMMA UnscheduleTestCount ==
  ASSUME CountInv, QueueInv, Typing, Typing', NEW r \in Runs, UnscheduleTest(r)
  PROVE  CountInv'
  <1>1. PICK i \in DOMAIN scheduled_tests : scheduled_tests[i] = r /\ erase(i)
    BY DEF UnscheduleTest
  <1>2. /\ scheduled_tests \in Seq(Runs) /\ front_slot \in Nat \ {0}
        /\ ticket \in [Runs -> Nat] /\ published \in [Runs -> [TestState -> Nat]]
    BY DEF Typing, TypeOK
  <1>3. \A j \in DOMAIN scheduled_tests' :
           \E k \in DOMAIN scheduled_tests : k # i /\ scheduled_tests'[j] = scheduled_tests[k]
    <2>1. SUFFICES ASSUME NEW j \in DOMAIN scheduled_tests'
                   PROVE  \E k \in DOMAIN scheduled_tests :
                             k # i /\ scheduled_tests'[j] = scheduled_tests[k]
      OBVIOUS
    <2>2. DOMAIN scheduled_tests' = 1..(Len(scheduled_tests) - 1) /\ Len(scheduled_tests) \in Nat
      BY <1>1, <1>2, EraseTyping
    <2>3. /\ j \in DOMAIN scheduled_tests /\ j + 1 \in DOMAIN scheduled_tests
          /\ scheduled_tests'[j] = scheduled_tests[IF j < i THEN j ELSE j + 1]
      BY <1>1, <1>2, EraseTyping
    <2>4. j \in Nat /\ i \in Nat
      BY <1>2, <2>2
    <2>5. QED
      BY <2>3, <2>4
  <1>4. \A k \in DOMAIN scheduled_tests : k # i => scheduled_tests[k] # r
    <2>1. \A k \in DOMAIN scheduled_tests : k \in Nat /\ scheduled_tests[k] \in Runs
      BY <1>2
    <2>2. \A j, k \in DOMAIN scheduled_tests :
             j < k => ticket[scheduled_tests[j]] < ticket[scheduled_tests[k]]
      BY DEF QueueInv, InScheduleOrder
    <2>3. SUFFICES ASSUME NEW k \in DOMAIN scheduled_tests, k # i PROVE scheduled_tests[k] # r
      OBVIOUS
    <2>4. k < i \/ i < k
      BY <2>1, <2>3
    <2>5. ticket[scheduled_tests[k]] # ticket[scheduled_tests[i]]
      BY <1>2, <2>1, <2>2, <2>4
    <2>6. QED
      BY <1>1, <2>5
  <1>5. \A j \in DOMAIN scheduled_tests' : /\ scheduled_tests'[j] # r
                                           /\ Fresh(scheduled_tests'[j])
    BY <1>3, <1>4 DEF CountInv, FreshUntilSelected
  <1>6. ~Ended(r)
    BY <1>1, <1>2 DEF CountInv, FreshUntilSelected, Fresh, Ended, TestState
  <1>7. ticket[r] # 0 /\ publish_test_status(r, "Canceled")
        /\ UNCHANGED <<ticket, current_test, current_state>>
    BY DEF UnscheduleTest, stateVars
  <1>8. Executing => current_test # r
    BY <1>1, NotQueued
  <1>9. QED
    BY <1>5, <1>6, <1>7, <1>8, EndAnnounced DEF Executing, CountInv, AnnouncedAsExecuted

LEMMA SwitchTestStatusCount ==
  ASSUME CountInv, QueueInv, Typing, Typing', SwitchTestStatus
  PROVE  CountInv'
  <1>1. /\ current_state' = NextState(current_state, message)
        /\ current_state' = current_state => UNCHANGED published
        /\ current_state' # current_state => publish_test_status(current_test, message)
        /\ UNCHANGED <<scheduled_tests, current_test, ticket>>
    BY DEF SwitchTestStatus, queueVars, callVars
  <1>2. CASE current_state' = current_state
    BY <1>1, <1>2, CountsKept DEF CountInv, FreshUntilSelected, AnnouncedAsExecuted
  <1>3. CASE current_state' # current_state /\ current_state = "SetupTest"
    <2>1. message = "Running" /\ current_state' = "RunningTest" /\ current_test \in Runs
      BY <1>1, <1>3, NotQueued DEF NextState, Executing
    <2>2. \A q \in Runs, t \in TestState :
             /\ published[q][t] \in Nat
             /\ published'[q][t] = IF q = current_test /\ t = "Running" THEN published[q][t] + 1
                                                                        ELSE published[q][t]
      <3>1. "Running" \in TestState /\ TypeOK
        BY DEF TestState, Typing
      <3>2. \A q \in Runs, t \in TestState : published[q][t] \in Nat
        BY DEF Typing, TypeOK
      <3>3. publish_test_status(current_test, "Running")
        BY <1>1, <1>3, <2>1
      <3>4. QED
        BY <2>1, <3>1, <3>2, <3>3, PublishEffect
    <2>3. Fresh(current_test) /\ ticket[current_test] # 0
      BY <1>3, NotQueued DEF CountInv, AnnouncedAsExecuted, Executing
    <2>4. Started(current_test)' /\ ~Ended(current_test)' /\ current_test' = current_test
      BY <1>1, <2>1, <2>2, <2>3 DEF Fresh, Started, Ended, TestState
    <2>5. OneEndPerRun'
      BY <2>1, <2>2, <2>3 DEF CountInv, OneEndPerRun, Fresh, TestState
    <2>6. \A q \in Runs : q # current_test => (Fresh(q) <=> Fresh(q)')
      BY <2>2 DEF Fresh
    <2>7. \A i \in DOMAIN scheduled_tests : /\ scheduled_tests[i] \in Runs
                                            /\ scheduled_tests[i] # current_test
      <3>1. \A i \in DOMAIN scheduled_tests : scheduled_tests[i] \in Runs
        BY DEF Typing, TypeOK
      <3>2. QED
        BY <1>3, <3>1, NotQueued DEF Executing
    <2>8. FreshUntilSelected'
      BY <1>1, <2>3, <2>6, <2>7 DEF CountInv, FreshUntilSelected
    <2>9. QED
      BY <2>1, <2>4, <2>5, <2>8 DEF CountInv, AnnouncedAsExecuted
  <1>4. CASE current_state' # current_state /\ current_state # "SetupTest"
    <2>1. /\ message \in {"Finished", "Canceled"} /\ current_state' = "CleanupTest"
          /\ current_state \in {"RunningTest", "CancelTest"}
      BY <1>1, <1>4 DEF NextState
    <2>2. /\ current_test \in Runs /\ ticket[current_test] # 0 /\ ~Ended(current_test)
          /\ \A i \in DOMAIN scheduled_tests' : scheduled_tests'[i] # current_test
      BY <1>1, <2>1, NotQueued DEF Executing, CountInv, AnnouncedAsExecuted
    <2>3. QED
      BY <1>1, <1>4, <2>1, <2>2, EndAnnounced DEF CountInv, FreshUntilSelected
  <1>5. QED
    BY <1>2, <1>3, <1>4

LEMMA NextCount == Typing /\ QueueInv /\ CountInv /\ [Next]_vars => CountInv'
  <1> SUFFICES ASSUME Typing, QueueInv, CountInv, [Next]_vars PROVE CountInv'
    OBVIOUS
  <1>0. Typing'
    BY NextTyping
  <1>1. CASE Quiet \/ SwitchTestResult
    <2>1. UNCHANGED <<scheduled_tests, current_state, current_test, ticket, published>>
      BY <1>1, QuietFrame DEF queueVars, stateVars, outVars, SwitchTestResult, callVars
    <2>2. QED
      BY <1>0, <2>1, CountsKept DEF CountInv, FreshUntilSelected, AnnouncedAsExecuted
  <1>2. CASE PlainPass \/ IdlePass
    <2>1. UNCHANGED <<scheduled_tests, current_test, ticket, published>>
      BY <1>2, PlainPassFrame DEF queueVars, outVars, callVars, IdlePass, Pass, Typing
    <2>2. /\ current_state' = "SetupTest" => current_state = "SetupTest"
          /\ current_state' \in {"RunningTest", "CancelTest"} => current_state = "RunningTest"
      BY <1>2, PlainPassFrame DEF IdlePass, Pass, Typing, TypeOK, TestingState
    <2>3. QED
      BY <1>0, <2>1, <2>2, CountsKept DEF CountInv, FreshUntilSelected, AnnouncedAsExecuted
  <1>3. CASE SelectTest
    <2>1. /\ current_state' = "SetupTest" /\ UNCHANGED <<ticket, published>>
          /\ scheduled_tests \in Seq(Runs) /\ scheduled_tests # <<>>
          /\ current_test' = Head(scheduled_tests) /\ scheduled_tests' = Tail(scheduled_tests)
      BY <1>3 DEF SelectTest, Pass, callVars, Typing, TypeOK
    <2>2. \A i \in DOMAIN scheduled_tests : Fresh(scheduled_tests[i])
      BY DEF CountInv, FreshUntilSelected
    <2>3. Fresh(current_test')
      BY <2>1, <2>2
    <2>4. \A i \in DOMAIN scheduled_tests' : Fresh(scheduled_tests'[i])
      <3>1. \A i \in DOMAIN scheduled_tests' :
               i + 1 \in DOMAIN scheduled_tests /\ scheduled_tests'[i] = scheduled_tests[i + 1]
        BY <2>1
      <3>2. QED
        BY <2>2, <3>1
    <2>5. QED
      BY <1>0, <2>1, <2>3, <2>4, CountsKept
  <1>4. CASE RunCancelTest
    <2>1. /\ current_state = "CancelTest" /\ UNCHANGED <<scheduled_tests, current_test, ticket>>
          /\ \/ current_state' = "CancelTest" /\ UNCHANGED published
             \/ current_state' = "CleanupTest" /\ publish_test_status(current_test, "Canceled")
      BY <1>4 DEF RunCancelTest, Pass, queueVars, callVars
    <2>2. /\ current_test \in Runs /\ ticket[current_test] # 0 /\ ~Ended(current_test)
          /\ \A i \in DOMAIN scheduled_tests' : scheduled_tests'[i] # current_test
      BY <2>1, NotQueued DEF Executing, CountInv, AnnouncedAsExecuted
    <2>3. QED
      BY <1>0, <2>1, <2>2, CountsKept, EndAnnounced
         DEF CountInv, FreshUntilSelected, AnnouncedAsExecuted
  <1>5. CASE SwitchTestStatus
    BY <1>0, <1>5, SwitchTestStatusCount
  <1>6. ASSUME NEW r \in Runs, ScheduleTest(r) PROVE CountInv'
    <2>1. /\ scheduled_tests' = Append(scheduled_tests, r) /\ scheduled_tests \in Seq(Runs)
          /\ ticket[r] = 0 /\ ticket' = [ticket EXCEPT ![r] = next_ticket]
          /\ ticket \in [Runs -> Nat] /\ next_ticket \in Nat \ {0}
          /\ UNCHANGED <<current_state, current_test, published>>
      BY <1>6 DEF ScheduleTest, emplace_back, stateVars, outVars, Typing, TypeOK
    <2>2. \A i \in DOMAIN scheduled_tests' : Fresh(scheduled_tests'[i])
      <3>1. \A i \in DOMAIN scheduled_tests' :
               \/ i \in DOMAIN scheduled_tests /\ scheduled_tests'[i] = scheduled_tests[i]
               \/ scheduled_tests'[i] = r
        BY <2>1
      <3>2. QED
        BY <2>1, <3>1 DEF CountInv, FreshUntilSelected
    <2>3. \A q \in Runs : ticket'[q] = 0 => ticket[q] = 0
      BY <2>1
    <2>4. QED
      BY <1>0, <2>1, <2>2, <2>3, CountsKept DEF CountInv, AnnouncedAsExecuted
  <1>7. ASSUME NEW r \in Runs, PublishQueued(r) PROVE CountInv'
    <2>1. UNCHANGED <<scheduled_tests, current_state, current_test, ticket>>
      BY <1>7 DEF PublishQueued, queueVars, stateVars
    <2>3. \A q \in Runs : \A s \in TestState \ {"Queued"} : published'[q][s] = published[q][s]
      BY <1>7, PublishQueuedEffect DEF Typing
    <2>4. QED
      BY <1>0, <2>1, <2>3, CountsKept DEF CountInv, FreshUntilSelected, AnnouncedAsExecuted
  <1>8. ASSUME NEW r \in Runs, UnscheduleTest(r) PROVE CountInv'
    BY <1>0, <1>8, UnscheduleTestCount
  <1>9. QED
    BY <1>1, <1>2, <1>3, <1>4, <1>5, <1>6, <1>7, <1>8, NextCases

LEMMA OrderAndCounts == Spec => [](Typing /\ QueueInv /\ CountInv)
  BY InitTyping, NextTyping, InitQueue, NextQueue, InitCount, NextCount, PTL DEF Spec

\* No instance is announced as running twice, or ends twice.
THEOREM EndsOnce == Spec => []OneEndPerRun
  <1>1. CountInv => OneEndPerRun
    BY DEF CountInv
  <1>2. QED
    BY <1>1, OrderAndCounts, PTL

LEMMA ResultsStep ==
  Typing /\ CountInv /\ [Next]_vars =>
     [\A x \in results' \ results : Started(x.run) /\ ~Ended(x.run)]_vars
  <1> SUFFICES ASSUME Typing, CountInv, Next, NEW x \in results' \ results
               PROVE  Started(x.run) /\ ~Ended(x.run)
    OBVIOUS
  <1>1. CASE SwitchTestResult
    BY <1>1 DEF SwitchTestResult, ReportsResults, CountInv, AnnouncedAsExecuted
  <1>2. CASE ~SwitchTestResult
    <2>1. results' = results
      <3>1. CASE Quiet
        BY <3>1, QuietFrame DEF outVars
      <3>2. CASE ~Quiet
        BY <1>2, <3>2, NextCases
           DEF PlainPass, RunDisabled, RunSetupTest, RunRunningTest, RunCleanupTest, SelectTest,
               IdlePass, RunCancelTest, SwitchTestStatus, ScheduleTest, PublishQueued,
               UnscheduleTest, Pass, outVars
      <3>3. QED
        BY <3>1, <3>2
    <2>2. QED
      BY <2>1
  <1>3. QED
    BY <1>1, <1>2

\* A result is published only between the two announcements of its instance.
THEOREM ResultsInTime == Spec => ResultsOnlyWhileRunning
  BY OrderAndCounts, ResultsStep, PTL DEF Spec, ResultsOnlyWhileRunning

-----------------------------------------------------------------------------
(***************************************************************************)
(* What entering a state sets up.  Whoever is outside the loop finds the   *)
(* current state entered, so that a status or a result never meets a state *)
(* whose initialisation is still to come.                                  *)
(***************************************************************************)
Settled == last_state_detect_state_change = current_state

SettledOutsideLoop == lock \in {"free", "status_switch", "result_switch"} => Settled

SnifferReady == capture = IF SniffingEnabled THEN "STANDBY" ELSE "DISABLED"

SnifferOK == capture \in IF SniffingEnabled THEN {"STANDBY", "RUNNING", "STOPPED"} ELSE {"DISABLED"}

CaptureOf(r) == IF SniffingEnabled THEN r ELSE NoRun

Cleaned == evse_request # "Enable" /\ SnifferReady

Offered == v2g_context = current_test /\ traffic_filepath = CaptureOf(current_test)

SetupInv ==
  /\ SettledOutsideLoop
  /\ SnifferOK
  /\ current_state \in {"Disabled", "Idle"} => Cleaned
  /\ current_state = "SetupTest" /\ ~Settled => SnifferReady
  /\ current_state = "SetupTest" /\ Settled => Offered
  /\ current_state \in {"RunningTest", "CancelTest"} => Offered
  /\ current_state = "CleanupTest" /\ Settled => Cleaned
  /\ ResultsCarryOwnCapture

LEMMA InitSetup == Init => SetupInv
  BY DEF Init, SetupInv, SettledOutsideLoop, Settled, SnifferReady, SnifferOK, Cleaned,
         ResultsCarryOwnCapture

\* Steps that only move the lock, disable the EVSE or end the capture.
LEMMA QuietSetup ==
  ASSUME SetupInv, Quiet
  PROVE  SetupInv'
  <1>1. /\ UNCHANGED <<stateVars, traffic_filepath, v2g_context, results>>
        /\ evse_request' = evse_request \/ evse_request' = "Disable"
        /\ capture' = capture \/ (capture = "RUNNING" /\ capture' = "STOPPED")
        /\ lock' = lock \/ lock = "free"
    BY QuietFrame DEF outVars
  <1>2. QED
    BY <1>1 DEF SetupInv, SettledOutsideLoop, Settled, SnifferReady, SnifferOK, Cleaned, Offered,
                ResultsCarryOwnCapture, stateVars

\* What the frame of every pass does to the parts of SetupInv.
LEMMA PassSetup ==
  ASSUME NEW state, NEW next, Pass(state, next)
  PROVE  /\ current_state = state /\ current_state' = next
         /\ Settled' <=> state = next
         /\ SettledOutsideLoop'
         /\ UNCHANGED results
  BY DEF Pass, InLoop, AfterLoop, Settled, SettledOutsideLoop

LEMMA NextSetup == Typing /\ SetupInv /\ [Next]_vars => SetupInv'
  <1> SUFFICES ASSUME Typing, SetupInv, [Next]_vars PROVE SetupInv'
    OBVIOUS
  <1> USE DEF SetupInv, ResultsCarryOwnCapture
  <1>1. CASE Quiet
    BY <1>1, QuietSetup
  <1>2. CASE RunDisabled \/ IdlePass
    BY <1>2, PassSetup DEF RunDisabled, IdlePass, Cleaned, SnifferReady, SnifferOK, traceVars,
                           evseVars, Pass, callVars
  <1>3. CASE SelectTest
    BY <1>3, PassSetup DEF SelectTest, Cleaned, SnifferReady, SnifferOK, traceVars, evseVars
  <1>4. CASE RunSetupTest
    <2>1. /\ current_state = "SetupTest" /\ current_state' = "SetupTest"
          /\ Settled' /\ SettledOutsideLoop' /\ UNCHANGED <<results, current_test>>
      BY <1>4, PassSetup DEF RunSetupTest
    <2>2. Offered' /\ SnifferOK'
      <3>1. CASE Settled
        BY <1>4, <2>1, <3>1 DEF RunSetupTest, initialize_state, Settled, Offered, SnifferOK,
                                CaptureOf, traceVars, evseVars
      <3>2. CASE ~Settled
        BY <1>4, <2>1, <3>2 DEF RunSetupTest, initialize_state, Settled, Offered, SnifferOK,
                                SnifferReady, CaptureOf, setup_test, start_capture
      <3>3. QED
        BY <3>1, <3>2
    <2>3. QED
      BY <2>1, <2>2
  <1>5. CASE RunRunningTest \/ RunCancelTest
    BY <1>5, PassSetup DEF RunRunningTest, RunCancelTest, Offered, CaptureOf, SnifferOK,
                           SnifferReady, traceVars, evseVars
  <1>6. CASE RunCleanupTest
    <2>1. /\ current_state = "CleanupTest" /\ current_state' \in {"CleanupTest", "Idle"}
          /\ SettledOutsideLoop' /\ UNCHANGED results
      BY <1>6, PassSetup DEF RunCleanupTest
    <2>2. Cleaned' /\ SnifferOK'
      BY <1>6, <2>1 DEF RunCleanupTest, initialize_state, Settled, Cleaned, SnifferReady,
                        SnifferOK, cleanup_test, disable_evse, stop_capture, traceVars, evseVars
    <2>3. QED
      BY <2>1, <2>2
  <1>7. CASE SwitchTestStatus
    <2>1. /\ Settled /\ SettledOutsideLoop'
          /\ UNCHANGED <<last_state_detect_state_change, current_test, traffic_filepath, capture,
                         evse_request, v2g_context, results>>
          /\ current_state' = NextState(current_state, message)
      BY <1>7 DEF SwitchTestStatus, SettledOutsideLoop, traceVars, evseVars
    <2>2. \/ current_state' = current_state
          \/ current_state = "SetupTest" /\ current_state' = "RunningTest"
          \/ current_state' = "CleanupTest" /\ ~Settled'
      BY <2>1 DEF NextState, Settled
    <2>3. Settled' <=> current_state' = current_state
      BY <2>1 DEF Settled
    <2>4. UNCHANGED <<Offered, Cleaned, SnifferReady, SnifferOK>>
      BY <2>1 DEF Offered, Cleaned, SnifferReady, SnifferOK, CaptureOf
    <2>5. QED
      BY <2>1, <2>2, <2>3, <2>4
  <1>8. CASE SwitchTestResult
    <2>1. /\ SettledOutsideLoop'
          /\ UNCHANGED <<Settled, Offered, Cleaned, SnifferReady, SnifferOK, current_state>>
      BY <1>8 DEF SwitchTestResult, SettledOutsideLoop, Settled, Offered, Cleaned, SnifferReady,
                  SnifferOK, CaptureOf, stateVars, traceVars, evseVars
    <2>2. ResultsCarryOwnCapture'
      BY <1>8 DEF SwitchTestResult, ReportsResults, Offered, CaptureOf
    <2>3. QED
      BY <2>1, <2>2
  <1>9. ASSUME NEW r \in Runs, ScheduleTest(r) \/ PublishQueued(r) \/ UnscheduleTest(r)
        PROVE  SetupInv'
    <2>1. UNCHANGED <<stateVars, lock, traceVars, evseVars, results>>
      BY <1>9 DEF ScheduleTest, PublishQueued, UnscheduleTest, lockVars, outVars
    <2>2. QED
      BY <2>1 DEF SettledOutsideLoop, Settled, Offered, Cleaned, SnifferReady, SnifferOK,
                  CaptureOf, stateVars, traceVars, evseVars
  <1>10. QED
    BY <1>1, <1>2, <1>3, <1>4, <1>5, <1>6, <1>7, <1>8, <1>9, NextCases DEF PlainPass

LEMMA SetupKept == Spec => [](Typing /\ SetupInv)
  BY InitTyping, NextTyping, InitSetup, NextSetup, PTL DEF Spec

\* Statuses and results are accepted only after the V2G module was given the
\* test that is current; between two tests the EVSE is not enabled and the
\* sniffer is on standby.
THEOREM SetUpForEachTest == Spec => []SetUpAndCleanedUp
  <1>1. Typing /\ SetupInv => V2GRunsCurrentTest
    BY DEF Typing, ExecutingHasTest, Executing, SetupInv, Offered, V2GRunsCurrentTest
  <1>2. SetupInv => CleanBetweenTests
    BY DEF SetupInv, Cleaned, SnifferReady, CleanBetweenTests
  <1>3. Typing /\ SetupInv => SetUpAndCleanedUp
    BY <1>1, <1>2 DEF SetUpAndCleanedUp
  <1>4. QED
    BY <1>3, SetupKept, PTL

\* A published result carries the packet capture of its own instance.
THEOREM OwnCapture == Spec => []ResultsCarryOwnCapture
  <1>1. SetupInv => ResultsCarryOwnCapture
    BY DEF SetupInv
  <1>2. QED
    BY <1>1, SetupKept, PTL

-----------------------------------------------------------------------------
(***************************************************************************)
(* The refinement: TestStateMachine implements TestLifecycle               *)
(***************************************************************************)
\* An instance that was announced as running and has not ended is the one
\* being executed, and there is none between two tests.
OneExecution ==
  /\ \A r \in Runs : Started(r) /\ ~Ended(r) =>
        r = current_test /\ current_state \in {"RunningTest", "CancelTest"}
  /\ current_test # NoRun /\ current_state \notin {"SetupTest", "RunningTest", "CancelTest"} =>
        Ended(current_test)

Base == Typing /\ QueueInv /\ CountInv

LEMMA InitOneExecution == Init => OneExecution
  BY DEF Init, OneExecution, Started, TestState

\* What a publication changes of the two predicates.
LEMMA PublishStartedEnded ==
  ASSUME TypeOK, NEW r \in Runs, NEW s \in TestState, publish_test_status(r, s)
  PROVE  \A q \in Runs : /\ Started(q)' <=> Started(q) \/ (q = r /\ s = "Running")
                         /\ Ended(q)' <=> Ended(q) \/ (q = r /\ s \in {"Finished", "Canceled"})
  <1>1. \A q \in Runs, t \in TestState : published[q][t] \in Nat
    BY DEF TypeOK
  <1>2. \A q \in Runs, t \in TestState :
           published'[q][t] = IF q = r /\ t = s THEN published[q][t] + 1 ELSE published[q][t]
    BY PublishEffect
  <1>3. QED
    BY <1>1, <1>2 DEF Started, Ended, TestState

LEMMA NextOneExecution == Base /\ OneExecution /\ [Next]_vars => OneExecution'
  <1> SUFFICES ASSUME Base, OneExecution, [Next]_vars PROVE OneExecution'
    OBVIOUS
  <1>0. Typing /\ Typing' /\ TypeOK
    BY NextTyping DEF Base, Typing
  <1>1. CASE Quiet \/ SwitchTestResult
    <2>1. UNCHANGED <<current_state, current_test, published>>
      BY <1>1, QuietFrame DEF stateVars, outVars, SwitchTestResult
    <2>2. QED
      BY <2>1 DEF OneExecution, Started, Ended
  <1>2. CASE PlainPass \/ IdlePass
    <2>1. UNCHANGED <<current_test, published>>
      BY <1>0, <1>2, PlainPassFrame DEF outVars, IdlePass
    <2>2. /\ current_state \in {"RunningTest", "CancelTest"} =>
                current_state' \in {"RunningTest", "CancelTest"}
          /\ current_state' \notin {"SetupTest", "RunningTest", "CancelTest"} =>
                current_state \notin {"SetupTest", "RunningTest", "CancelTest"}
      BY <1>0, <1>2, PlainPassFrame DEF IdlePass, Pass, TypeOK, TestingState
    <2>3. QED
      BY <2>1, <2>2 DEF OneExecution, Started, Ended
  <1>3. CASE SelectTest
    BY <1>3 DEF SelectTest, Pass, OneExecution, Started, Ended
  <1>4. CASE RunCancelTest
    <2>1. /\ current_state = "CancelTest" /\ UNCHANGED current_test /\ current_test \in Runs
          /\ \/ current_state' = "CancelTest" /\ UNCHANGED published
             \/ current_state' = "CleanupTest" /\ publish_test_status(current_test, "Canceled")
      BY <1>4, NotQueued DEF RunCancelTest, Pass, Base, Executing
    <2>2. CASE UNCHANGED published
      <3>1. current_state' = "CancelTest"
        <4>1. ~Ended(current_test)
          BY <2>1 DEF Base, CountInv, AnnouncedAsExecuted
        <4>2. ~Ended(current_test)'
          BY <2>1, <2>2, <4>1 DEF Ended
        <4>3. QED
          BY <1>0, <2>1, <4>2, PublishStartedEnded DEF TestState
      <3>2. QED
        BY <2>1, <2>2, <3>1 DEF OneExecution, Started, Ended
    <2>3. CASE current_state' = "CleanupTest" /\ publish_test_status(current_test, "Canceled")
      BY <1>0, <2>1, <2>3, PublishStartedEnded DEF OneExecution, TestState
    <2>4. QED
      BY <2>1, <2>2, <2>3
  <1>5. CASE SwitchTestStatus
    <2>1. /\ current_state' = NextState(current_state, message)
          /\ UNCHANGED current_test
          /\ current_state' = current_state => UNCHANGED published
          /\ current_state' # current_state => publish_test_status(current_test, message)
      BY <1>5 DEF SwitchTestStatus
    <2>2. CASE current_state' = current_state
      BY <2>1, <2>2 DEF OneExecution, Started, Ended
    <2>3. CASE current_state' # current_state
      <3>1. /\ \/ message = "Running" /\ current_state = "SetupTest" /\ current_state' = "RunningTest"
               \/ /\ message \in {"Finished", "Canceled"} /\ current_state' = "CleanupTest"
                  /\ current_state \in {"RunningTest", "CancelTest"}
            /\ message \in TestState
        BY <2>1, <2>3 DEF NextState, TestState
      <3>2. current_test \in Runs
        BY <3>1, NotQueued DEF Base, Executing
      <3>3. QED
        BY <1>0, <2>1, <2>3, <3>1, <3>2, PublishStartedEnded DEF OneExecution
    <2>4. QED
      BY <2>2, <2>3
  <1>6. ASSUME NEW r \in Runs, ScheduleTest(r) PROVE OneExecution'
    BY <1>6 DEF ScheduleTest, OneExecution, stateVars, outVars, Started, Ended
  <1>7. ASSUME NEW r \in Runs, PublishQueued(r) PROVE OneExecution'
    <2>1. UNCHANGED <<current_state, current_test>>
      BY <1>7 DEF PublishQueued, stateVars
    <2>3. \A q \in Runs : (Started(q)' <=> Started(q)) /\ (Ended(q)' <=> Ended(q))
      BY <1>0, <1>7, PublishQueuedEffect DEF TestState, Started, Ended
    <2>4. current_test \in Runs \union {NoRun}
      BY <1>0 DEF TypeOK
    <2>5. QED
      BY <2>1, <2>3, <2>4 DEF OneExecution
  <1>8. ASSUME NEW r \in Runs, UnscheduleTest(r) PROVE OneExecution'
    <2>1. UNCHANGED <<current_state, current_test>> /\ publish_test_status(r, "Canceled")
      BY <1>8 DEF UnscheduleTest, stateVars
    <2>2. \A q \in Runs : (Started(q)' <=> Started(q)) /\ (Ended(q) => Ended(q)')
      BY <1>0, <2>1, PublishStartedEnded DEF TestState
    <2>3. current_test \in Runs \union {NoRun}
      BY <1>0 DEF TypeOK
    <2>4. QED
      BY <2>1, <2>2, <2>3 DEF OneExecution
  <1>9. QED
    BY <1>1, <1>2, <1>3, <1>4, <1>5, <1>6, <1>7, <1>8, NextCases

-----------------------------------------------------------------------------
(***************************************************************************)
(* The stage of an instance.                                               *)
(***************************************************************************)
InQueue(r) == \E i \in DOMAIN scheduled_tests : scheduled_tests[i] = r

stages == [r \in Runs |-> StageOf(r)]

Inv == Base /\ OneExecution

\* The definition of StageOf, one case at a time.
LEMMA StageCases ==
  ASSUME NEW r
  PROVE  LET finished == published[r]["Finished"] > 0
             canceled == published[r]["Canceled"] > 0
         IN  /\ finished => StageOf(r) = "Finished"
             /\ ~finished /\ canceled => StageOf(r) = "Canceled"
             /\ ~finished /\ ~canceled /\ Started(r) => StageOf(r) = "Running"
             /\ ~finished /\ ~canceled /\ ~Started(r) /\ r = current_test => StageOf(r) = "Selected"
             /\ ~finished /\ ~canceled /\ ~Started(r) /\ r # current_test /\ InQueue(r)
                   => StageOf(r) = "Queued"
             /\ ~finished /\ ~canceled /\ ~Started(r) /\ r # current_test /\ ~InQueue(r)
                   => StageOf(r) = "Unknown"
  BY DEF StageOf, InQueue

LEMMA QueuedStage ==
  ASSUME Inv, NEW i \in DOMAIN scheduled_tests
  PROVE  scheduled_tests[i] \in Runs /\ StageOf(scheduled_tests[i]) = "Queued"
  <1>1. scheduled_tests[i] \in Runs
    BY DEF Inv, Base, Typing, TypeOK
  <1>2. Fresh(scheduled_tests[i])
    BY DEF Inv, Base, CountInv, FreshUntilSelected
  <1>3. scheduled_tests[i] # current_test
    BY <1>1, ConstantsAssumption
       DEF ConstantsAssumption, Inv, Base, Typing, TypeOK, QueueInv, InScheduleOrder
  <1>4. QED
    BY <1>1, <1>2, <1>3 DEF StageOf, Fresh, Started, TestState

LEMMA UnknownStage ==
  ASSUME Inv, NEW r \in Runs, ticket[r] = 0
  PROVE  StageOf(r) = "Unknown"
  <1>1. Fresh(r)
    BY DEF Inv, Base, CountInv, FreshUntilSelected
  <1>2. r # current_test /\ ~InQueue(r)
    BY ConstantsAssumption
       DEF ConstantsAssumption, Inv, Base, QueueInv, TicketsGrow, InQueue
  <1>3. QED
    BY <1>1, <1>2 DEF StageOf, Fresh, Started, TestState, InQueue

LEMMA CurrentStage ==
  ASSUME Inv
  PROVE  /\ current_state = "SetupTest" =>
               current_test \in Runs /\ StageOf(current_test) = "Selected"
         /\ current_state \in {"RunningTest", "CancelTest"} =>
               current_test \in Runs /\ StageOf(current_test) = "Running"
  <1>1. Executing => current_test \in Runs
    BY NotQueued DEF Inv, Base
  <1>2. CASE current_state = "SetupTest"
    <2>1. Fresh(current_test) /\ current_test \in Runs /\ ~InQueue(current_test)
      BY <1>1, <1>2, NotQueued
         DEF Inv, Base, CountInv, AnnouncedAsExecuted, Executing, InQueue
    <2>2. /\ ~(published[current_test]["Finished"] > 0) /\ ~(published[current_test]["Canceled"] > 0)
          /\ ~Started(current_test)
      BY <2>1 DEF Fresh, Started, TestState
    <2>3. QED
      BY <1>2, <2>1, <2>2, StageCases
  <1>3. CASE current_state \in {"RunningTest", "CancelTest"}
    <2>1. Started(current_test) /\ ~Ended(current_test) /\ current_test \in Runs
      BY <1>1, <1>3 DEF Inv, Base, CountInv, AnnouncedAsExecuted, Executing
    <2>2. published[current_test]["Finished"] \in Nat /\ published[current_test]["Canceled"] \in Nat
      BY <2>1 DEF Inv, Base, Typing, TypeOK, TestState
    <2>3. QED
      <3>1. ~(published[current_test]["Finished"] > 0) /\ ~(published[current_test]["Canceled"] > 0)
        BY <2>1, <2>2 DEF Ended
      <3>2. StageOf(current_test) = "Running"
        BY <2>1, <3>1, StageCases
      <3>3. QED
        BY <1>3, <2>1, <3>2
  <1>4. QED
    BY <1>2, <1>3

\* Between two tests no instance is being executed.
LEMMA NobodyExecuting ==
  ASSUME Inv, current_state = "Idle", NEW r \in Runs
  PROVE  StageOf(r) \notin {"Selected", "Running"}
  <1>1. Started(r) => Ended(r)
    BY DEF Inv, OneExecution
  <1>2. r = current_test => Ended(r)
    BY ConstantsAssumption DEF ConstantsAssumption, Inv, OneExecution
  <1>3. /\ published[r]["Finished"] \in Nat /\ published[r]["Canceled"] \in Nat
    BY DEF Inv, Base, Typing, TypeOK, TestState
  <1>4. QED
    <2>1. CASE Ended(r)
      <3>1. published[r]["Finished"] > 0 \/ published[r]["Canceled"] > 0
        BY <1>3, <2>1 DEF Ended
      <3>2. QED
        BY <3>1, StageCases
    <2>2. CASE ~Ended(r)
      <3>1. StageOf(r) \in {"Finished", "Canceled", "Queued", "Unknown"}
        BY <1>1, <1>2, <2>2, StageCases
      <3>2. QED
        BY <3>1
    <2>3. QED
      BY <2>1, <2>2

\* A step that changes neither the queue, nor the current test, nor what was
\* announced about an instance (but "Queued") does not change its stage.
LEMMA StageKept ==
  ASSUME NEW r \in Runs, InQueue(r)' <=> InQueue(r),
         r = current_test' <=> r = current_test,
         \A s \in TestState \ {"Queued"} : published'[r][s] = published[r][s]
  PROVE  StageOf(r)' = StageOf(r)
  BY DEF StageOf, Started, InQueue, TestState

LEMMA StutterStep ==
  ASSUME Inv, UNCHANGED <<scheduled_tests, current_test, results>>,
         \A r \in Runs : \A s \in TestState \ {"Queued"} : published'[r][s] = published[r][s]
  PROVE  UNCHANGED Lifecycle!vars
  <1>1. \A r \in Runs : StageOf(r)' = StageOf(r)
    BY StageKept DEF InQueue
  <1>2. QED
    BY <1>1 DEF Lifecycle!vars

\* The announcement of status s moves the current instance from one stage to
\* the next one.
LEMMA AdvanceStep ==
  ASSUME Inv, UNCHANGED <<scheduled_tests, current_test, results>>,
         current_test \in Runs,
         NEW s \in {"Running", "Canceled", "Finished"}, publish_test_status(current_test, s),
         OneEndPerRun',
         NEW from, StageOf(current_test) = from,
         from = IF s = "Running" THEN "Selected" ELSE "Running",
         s = "Running" => Fresh(current_test)
  PROVE  Lifecycle!Advance(current_test, from, s)
  <1>1. s \in TestState /\ TypeOK
    BY DEF TestState, Inv, Base, Typing
  <1>2. \A q \in Runs, t \in TestState :
           /\ published[q][t] \in Nat
           /\ published'[q][t] = IF q = current_test /\ t = s THEN published[q][t] + 1
                                                              ELSE published[q][t]
    BY <1>1, PublishEffect DEF TypeOK
  <1>3. \A q \in Runs : q # current_test => StageOf(q)' = StageOf(q)
    BY <1>2, StageKept DEF InQueue
  <1>4. StageOf(current_test)' = s
    <2>1. published[current_test]["Finished"] = 0 /\ published[current_test]["Canceled"] = 0
      <3>1. StageOf(current_test) \notin {"Finished", "Canceled"}
        OBVIOUS
      <3>2. ~(published[current_test]["Finished"] > 0) /\ ~(published[current_test]["Canceled"] > 0)
        BY <3>1, StageCases
      <3>3. QED
        BY <1>2, <3>2 DEF TestState
    <2>2. published'[current_test][s] = 1 \/ s = "Running"
      BY <1>1, <1>2, <2>1
    <2>3. CASE s = "Running"
      <3>1. /\ ~(published'[current_test]["Finished"] > 0)
            /\ ~(published'[current_test]["Canceled"] > 0)
            /\ published'[current_test]["Running"] > 0
        BY <1>2, <2>1, <2>3 DEF TestState
      <3>2. QED
        BY <2>3, <3>1 DEF StageOf, Started
    <2>4. CASE s = "Finished"
      <3>1. published'[current_test]["Finished"] > 0
        BY <2>2, <2>4
      <3>2. QED
        BY <2>4, <3>1 DEF StageOf
    <2>5. CASE s = "Canceled"
      <3>1. ~(published'[current_test]["Finished"] > 0) /\ published'[current_test]["Canceled"] > 0
        BY <1>2, <2>1, <2>2, <2>5 DEF TestState
      <3>2. QED
        BY <2>5, <3>1 DEF StageOf
    <2>6. QED
      BY <2>3, <2>4, <2>5
  <1>5. stages' = [stages EXCEPT ![current_test] = s]
    BY <1>3, <1>4 DEF stages
  <1>6. QED
    BY <1>5 DEF Lifecycle!Advance, stages

LEMMA ScheduleStep ==
  ASSUME Inv, NEW r \in Runs, ScheduleTest(r)
  PROVE  Lifecycle!Schedule(r)
  <1>1. /\ ticket[r] = 0 /\ scheduled_tests' = Append(scheduled_tests, r)
        /\ scheduled_tests \in Seq(Runs)
        /\ UNCHANGED <<current_test, published, results>>
    BY DEF ScheduleTest, emplace_back, stateVars, outVars, Inv, Base, Typing, TypeOK
  <1>2. StageOf(r) = "Unknown"
    BY <1>1, UnknownStage
  <1>3. \A q \in Runs : InQueue(q)' <=> InQueue(q) \/ q = r
    <2>1. /\ DOMAIN scheduled_tests' = 1..(Len(scheduled_tests) + 1)
          /\ DOMAIN scheduled_tests = 1..Len(scheduled_tests) /\ Len(scheduled_tests) \in Nat
          /\ scheduled_tests'[Len(scheduled_tests) + 1] = r
          /\ \A i \in DOMAIN scheduled_tests : scheduled_tests'[i] = scheduled_tests[i]
      BY <1>1
    <2>2. /\ Len(scheduled_tests) + 1 \in DOMAIN scheduled_tests'
          /\ \A i \in DOMAIN scheduled_tests : i \in DOMAIN scheduled_tests'
          /\ \A i \in DOMAIN scheduled_tests' :
                i \in DOMAIN scheduled_tests \/ i = Len(scheduled_tests) + 1
      BY <2>1
    <2>3. QED
      BY <2>1, <2>2 DEF InQueue
  <1>4. StageOf(r)' = "Queued"
    BY <1>1, <1>2, <1>3 DEF StageOf, Started, InQueue
  <1>5. \A q \in Runs : q # r => StageOf(q)' = StageOf(q)
    BY <1>1, <1>3 DEF StageOf, Started, InQueue
  <1>6. stages' = [stages EXCEPT ![r] = "Queued"]
    BY <1>4, <1>5 DEF stages
  <1>7. QED
    BY <1>1, <1>2, <1>6 DEF Lifecycle!Schedule, stages

LEMMA UnscheduleStep ==
  ASSUME Inv, NEW r \in Runs, UnscheduleTest(r)
  PROVE  \E i \in 1..Len(scheduled_tests) : Lifecycle!Withdraw(i)
  <1>1. PICK i \in DOMAIN scheduled_tests : scheduled_tests[i] = r /\ erase(i)
    BY DEF UnscheduleTest
  <1>2. /\ scheduled_tests \in Seq(Runs) /\ front_slot \in Nat \ {0} /\ TypeOK
        /\ ticket \in [Runs -> Nat] /\ published \in [Runs -> [TestState -> Nat]]
        /\ UNCHANGED <<current_test, results>> /\ publish_test_status(r, "Canceled")
    BY DEF Inv, Base, Typing, TypeOK, UnscheduleTest, stateVars
  <1>3. /\ DOMAIN scheduled_tests = 1..Len(scheduled_tests) /\ Len(scheduled_tests) \in Nat
        /\ DOMAIN scheduled_tests' = 1..(Len(scheduled_tests) - 1)
    BY <1>1, <1>2, EraseTyping
  <1>4. \A q \in Runs : q # r => (InQueue(q)' <=> InQueue(q))
    <2> SUFFICES ASSUME NEW q \in Runs, q # r PROVE InQueue(q)' <=> InQueue(q)
      OBVIOUS
    <2>1. ASSUME InQueue(q)' PROVE InQueue(q)
      <3>1. PICK j \in DOMAIN scheduled_tests' : scheduled_tests'[j] = q
        BY <2>1 DEF InQueue
      <3>2. scheduled_tests'[j] \in {scheduled_tests[j], scheduled_tests[j + 1]}
            /\ j \in DOMAIN scheduled_tests /\ j + 1 \in DOMAIN scheduled_tests
        BY <1>1, <1>2, EraseTyping
      <3>3. QED
        BY <3>1, <3>2 DEF InQueue
    <2>2. ASSUME InQueue(q) PROVE InQueue(q)'
      <3>1. PICK k \in DOMAIN scheduled_tests : scheduled_tests[k] = q
        BY <2>2 DEF InQueue
      <3>2. k # i /\ k \in 1..Len(scheduled_tests) /\ i \in 1..Len(scheduled_tests)
        BY <1>1, <1>3, <3>1
      <3>3. CASE k < i
        <4>1. k \in DOMAIN scheduled_tests'
          BY <1>3, <3>2, <3>3
        <4>2. scheduled_tests'[k] = scheduled_tests[k]
          BY <1>1, <1>2, <3>3, <4>1, EraseTyping
        <4>3. QED
          BY <3>1, <4>1, <4>2 DEF InQueue
      <3>4. CASE i < k
        <4>1. k - 1 \in DOMAIN scheduled_tests' /\ ~(k - 1 < i) /\ (k - 1) + 1 = k
          BY <1>3, <3>2, <3>4
        <4>2. scheduled_tests'[k - 1] = scheduled_tests[(k - 1) + 1]
          BY <1>1, <1>2, <4>1, EraseTyping
        <4>3. QED
          BY <3>1, <4>1, <4>2 DEF InQueue
      <3>5. QED
        BY <3>2, <3>3, <3>4
    <2>3. QED
      BY <2>1, <2>2
  <1>5. \A q \in Runs, t \in TestState :
           /\ published[q][t] \in Nat
           /\ published'[q][t] = IF q = r /\ t = "Canceled" THEN published[q][t] + 1
                                                            ELSE published[q][t]
    <2>1. "Canceled" \in TestState
      BY DEF TestState
    <2>2. QED
      BY <1>2, <2>1, PublishEffect
  <1>6. \A q \in Runs : q # r => StageOf(q)' = StageOf(q)
    BY <1>2, <1>4, <1>5, StageKept
  <1>7. StageOf(r)' = "Canceled"
    <2>1. published[r]["Finished"] = 0 /\ published[r]["Canceled"] = 0
      BY <1>1 DEF Inv, Base, CountInv, FreshUntilSelected, Fresh, TestState
    <2>2. ~(published'[r]["Finished"] > 0) /\ published'[r]["Canceled"] > 0
      BY <1>5, <2>1 DEF TestState
    <2>3. QED
      BY <2>2 DEF StageOf
  <1>8. stages' = [stages EXCEPT ![r] = "Canceled"]
    BY <1>6, <1>7 DEF stages
  <1>9. scheduled_tests' = [j \in 1..(Len(scheduled_tests) - 1) |->
                               scheduled_tests[IF j < i THEN j ELSE j + 1]]
    BY <1>1 DEF erase
  <1>10. Lifecycle!Withdraw(i)
    BY <1>1, <1>2, <1>8, <1>9 DEF Lifecycle!Withdraw, stages
  <1>11. QED
    BY <1>3, <1>10

LEMMA SelectStep ==
  ASSUME Inv, SelectTest
  PROVE  Lifecycle!Select
  <1>1. /\ current_state = "Idle"
        /\ scheduled_tests \in Seq(Runs) /\ scheduled_tests # <<>>
        /\ current_test' = Head(scheduled_tests) /\ scheduled_tests' = Tail(scheduled_tests)
        /\ UNCHANGED <<published, results>>
    BY DEF SelectTest, Pass, Inv, Base, Typing, TypeOK
  <1>h. PICK h \in Runs : h = Head(scheduled_tests)
    BY <1>1
  <1>2. /\ 1 \in DOMAIN scheduled_tests /\ h = scheduled_tests[1]
        /\ \A i \in DOMAIN scheduled_tests' :
              i + 1 \in DOMAIN scheduled_tests /\ scheduled_tests'[i] = scheduled_tests[i + 1]
        /\ \A i \in DOMAIN scheduled_tests :
              i = 1 \/ (i - 1 \in DOMAIN scheduled_tests' /\ scheduled_tests'[i - 1] = scheduled_tests[i])
    BY <1>1, <1>h
  <1>3. \A q \in Runs : q # h => (InQueue(q)' <=> InQueue(q))
    BY <1>2 DEF InQueue
  <1>4. StageOf(h) = "Queued"
    BY <1>2, QueuedStage
  <1>5. StageOf(h)' = "Selected"
    <2>1. ~(published[h]["Finished"] > 0) /\ ~(published[h]["Canceled"] > 0) /\ ~Started(h)
      BY <1>4, StageCases
    <2>2. QED
      BY <1>1, <1>h, <2>1 DEF StageOf, Started
  <1>6. ASSUME NEW q \in Runs, q # h PROVE StageOf(q)' = StageOf(q)
    <2>1. CASE q = current_test
      <3>1. Ended(q)
        BY <1>1, <2>1, ConstantsAssumption DEF ConstantsAssumption, Inv, OneExecution
      <3>2. published[q]["Finished"] \in Nat /\ published[q]["Canceled"] \in Nat
        BY DEF Inv, Base, Typing, TypeOK, TestState
      <3>3. published[q]["Finished"] > 0 \/ published[q]["Canceled"] > 0
        BY <3>1, <3>2 DEF Ended
      <3>4. QED
        BY <1>1, <3>3 DEF StageOf
    <2>2. CASE q # current_test
      <3>1. q = current_test' <=> q = current_test
        BY <1>1, <1>h, <1>6, <2>2
      <3>2. QED
        BY <1>1, <1>3, <1>6, <3>1, StageKept
    <2>3. QED
      BY <2>1, <2>2
  <1>7. stages' = [stages EXCEPT ![h] = "Selected"]
    BY <1>5, <1>6 DEF stages
  <1>8. Lifecycle!Executing = {}
    BY <1>1, NobodyExecuting DEF Lifecycle!Executing
  <1>9. QED
    BY <1>1, <1>h, <1>7, <1>8 DEF Lifecycle!Select, stages

LEMMA ReportStep ==
  ASSUME Inv, SwitchTestResult
  PROVE  UNCHANGED Lifecycle!vars \/ \E r \in Runs : Lifecycle!Report(r)
  <1>1. UNCHANGED <<scheduled_tests, current_test, published>>
    BY DEF SwitchTestResult, queueVars, stateVars
  <1>2. \A r \in Runs : StageOf(r)' = StageOf(r)
    BY <1>1 DEF StageOf, Started
  <1>3. stages' = stages
    BY <1>2 DEF stages
  <1>4. CASE ReportsResults
    <2>1. current_test \in Runs /\ StageOf(current_test) = "Running"
      BY <1>4, CurrentStage DEF ReportsResults
    <2>2. {x.run : x \in results'} = {x.run : x \in results} \union {current_test}
      <3>1. results' = results \union {[run |-> current_test, pcap |-> traffic_filepath]}
        BY <1>4 DEF SwitchTestResult
      <3>2. [run |-> current_test, pcap |-> traffic_filepath].run = current_test
        OBVIOUS
      <3>3. QED
        BY <3>1, <3>2
    <2>3. Lifecycle!Report(current_test)
      BY <1>1, <1>3, <2>1, <2>2 DEF Lifecycle!Report, stages
    <2>4. QED
      BY <2>1, <2>3 DEF Lifecycle!Report
  <1>5. CASE ~ReportsResults
    <2>1. UNCHANGED results
      BY <1>5 DEF SwitchTestResult
    <2>2. QED
      BY <1>1, <2>1, StutterStep
  <1>6. QED
    BY <1>4, <1>5

LEMMA NextLifecycle == Inv /\ Inv' /\ [Next]_vars => [Lifecycle!Next]_(Lifecycle!vars)
  <1> SUFFICES ASSUME Inv, Inv', [Next]_vars PROVE Lifecycle!Next \/ UNCHANGED Lifecycle!vars
    OBVIOUS
  <1>0. TypeOK /\ OneEndPerRun'
    BY DEF Inv, Base, Typing, CountInv
  <1>1. CASE Quiet \/ PlainPass \/ IdlePass
    <2>1. UNCHANGED <<scheduled_tests, current_test, results, published>>
      BY <1>0, <1>1, QuietFrame, PlainPassFrame
         DEF queueVars, stateVars, outVars, IdlePass, Pass
    <2>2. QED
      BY <2>1, StutterStep
  <1>2. CASE SelectTest
    BY <1>2, SelectStep DEF Lifecycle!Next
  <1>3. CASE RunCancelTest
    <2>1. /\ current_state = "CancelTest" /\ UNCHANGED <<scheduled_tests, current_test, results>>
          /\ UNCHANGED published \/ publish_test_status(current_test, "Canceled")
      BY <1>3 DEF RunCancelTest, Pass, queueVars
    <2>2. current_test \in Runs /\ StageOf(current_test) = "Running"
      BY <2>1, CurrentStage
    <2>3. CASE UNCHANGED published
      BY <2>1, <2>3, StutterStep
    <2>4. CASE publish_test_status(current_test, "Canceled")
      BY <1>0, <2>1, <2>2, <2>4, AdvanceStep DEF Lifecycle!Next
    <2>5. QED
      BY <2>1, <2>3, <2>4
  <1>4. CASE SwitchTestStatus
    <2>1. /\ UNCHANGED <<scheduled_tests, current_test, results>>
          /\ current_state' = NextState(current_state, message)
          /\ current_state' = current_state => UNCHANGED published
          /\ current_state' # current_state => publish_test_status(current_test, message)
      BY <1>4 DEF SwitchTestStatus, queueVars
    <2>2. CASE current_state' = current_state
      BY <2>1, <2>2, StutterStep
    <2>3. CASE current_state' # current_state /\ current_state = "SetupTest"
      <3>1. /\ message = "Running" /\ current_test \in Runs /\ StageOf(current_test) = "Selected"
            /\ Fresh(current_test)
        BY <2>1, <2>3, CurrentStage DEF NextState, Inv, Base, CountInv, AnnouncedAsExecuted
      <3>2. Lifecycle!Advance(current_test, "Selected", "Running")
        BY <1>0, <2>1, <2>3, <3>1, AdvanceStep
      <3>3. QED
        BY <3>1, <3>2 DEF Lifecycle!Next
    <2>4. CASE current_state' # current_state /\ current_state # "SetupTest"
      <3>1. message \in {"Finished", "Canceled"} /\ current_state \in {"RunningTest", "CancelTest"}
        BY <2>1, <2>4 DEF NextState
      <3>2. current_test \in Runs /\ StageOf(current_test) = "Running"
        BY <3>1, CurrentStage
      <3>3. Lifecycle!Advance(current_test, "Running", message)
        BY <1>0, <2>1, <2>4, <3>1, <3>2, AdvanceStep
      <3>4. QED
        BY <3>1, <3>2, <3>3 DEF Lifecycle!Next
    <2>5. QED
      BY <2>2, <2>3, <2>4
  <1>5. CASE SwitchTestResult
    BY <1>5, ReportStep DEF Lifecycle!Next
  <1>6. ASSUME NEW r \in Runs, ScheduleTest(r) PROVE Lifecycle!Next
    BY <1>6, ScheduleStep DEF Lifecycle!Next
  <1>7. ASSUME NEW r \in Runs, PublishQueued(r) PROVE UNCHANGED Lifecycle!vars
    <2>1. UNCHANGED <<scheduled_tests, current_test, results>>
      BY <1>7 DEF PublishQueued, queueVars, stateVars
    <2>2. QED
      BY <1>0, <1>7, <2>1, PublishQueuedEffect, StutterStep
  <1>8. ASSUME NEW r \in Runs, UnscheduleTest(r) PROVE Lifecycle!Next
    BY <1>8, UnscheduleStep DEF Lifecycle!Next
  <1>9. QED
    BY <1>1, <1>2, <1>3, <1>4, <1>5, <1>6, <1>7, <1>8, NextCases

LEMMA InitLifecycle == Init => Lifecycle!Init
  <1> SUFFICES ASSUME Init PROVE Lifecycle!Init
    OBVIOUS
  <1>1. ASSUME NEW r \in Runs PROVE StageOf(r) = "Unknown"
    <2>1. published[r]["Finished"] = 0 /\ published[r]["Canceled"] = 0 /\ published[r]["Running"] = 0
      BY DEF Init, TestState
    <2>2. scheduled_tests = <<>> /\ r # current_test
      BY ConstantsAssumption DEF Init, ConstantsAssumption
    <2>3. QED
      BY <2>1, <2>2 DEF StageOf, Started
  <1>2. scheduled_tests = <<>> /\ {x.run : x \in results} = {}
    BY DEF Init
  <1>3. QED
    BY <1>1, <1>2 DEF Lifecycle!Init

\* Every behaviour of the state machine is, seen by a client, a behaviour of
\* the promised life cycle.
THEOREM LifecycleImplemented == Spec => ImplementsLifecycle
  <1>1. Spec => []Inv
    <2>1. Init => Base
      BY InitTyping, InitQueue, InitCount DEF Base
    <2>2. Base /\ [Next]_vars => Base'
      BY NextTyping, NextQueue, NextCount DEF Base
    <2>3. QED
      BY <2>1, <2>2, InitOneExecution, NextOneExecution, PTL DEF Spec, Inv
  <1>2. QED
    BY <1>1, InitLifecycle, NextLifecycle, PTL
       DEF Spec, ImplementsLifecycle, Lifecycle!Spec

=============================================================================
