--------------------------- MODULE TestStateMachine ---------------------------
(***************************************************************************)
(* The test manager's state machine (src/modules/EvseTestManager/          *)
(* TestStateMachine.cpp) with the handlers evse/evse_test_managerImpl.cpp  *)
(* connects to it.                                                         *)
(*                                                                         *)
(* Several threads enter the state machine: its own main thread and the    *)
(* handlers of commands and of published variables.  They serialise on     *)
(* state_machine_mutex, and run_state_machine() is a loop executed under   *)
(* it.  "lock" says which of them holds the mutex and where it is; each    *)
(* pass of the loop is one step, because set_enabled(), the tail of        *)
(* schedule_test() and the packet sniffer proceed without the mutex.       *)
(*                                                                         *)
(* The V2G module is the environment here: any status, result or heartbeat *)
(* at any time.  Time points are kept as ages, that is as the difference   *)
(* to now() that the code computes, in units of the constants; an age past *)
(* every limit it is compared with stops growing.                          *)
(***************************************************************************)
EXTENDS Naturals, Sequences

CONSTANTS Runs,                     \* test instances, identified by instance_id
          NoRun,                    \* an empty optional
          V2G_HEARTBEAT_TIMEOUT,    \* 20 s
          V2G_CANCELLATION_TIMEOUT, \* 10 s
          CLEANUP_PERIOD,           \* the hardcoded 10000 ms of CleanupTest
          SniffingEnabled           \* did the PacketSniffer constructor succeed?

ASSUME ConstantsAssumption ==
    /\ NoRun \notin Runs
    /\ V2G_HEARTBEAT_TIMEOUT \in Nat
    /\ V2G_CANCELLATION_TIMEOUT \in Nat
    /\ CLEANUP_PERIOD \in Nat
    /\ SniffingEnabled \in BOOLEAN

TestingState == {"Disabled", "Idle", "SetupTest", "RunningTest", "CancelTest", "CleanupTest"}

TestState == {"Queued", "Running", "Canceled", "Finished"}

\* Who holds state_machine_mutex, and where: in run_state_machine() called by
\* the main thread, before or after the switch of a process_... handler, or in
\* that switch.
LockPhase == {"free", "main", "status", "status_switch", "result", "result_switch", "handled"}

\* The capture as the state machine sees it; PacketSniffer models its thread.
CaptureState == {"DISABLED", "STANDBY", "RUNNING", "STOPPED"}

NoMessage == "NoMessage"

VARIABLES
    state_machine_enabled,            \* atomic, written without the mutex
    scheduled_tests,                  \* the deque, front first
    front_slot,                       \* the storage slot of the deque's front
    queued_slot,                      \* the slot schedule_test still refers to, 0 for none
    current_test,
    current_state,
    last_state_detect_state_change,
    current_state_age,                \* now - current_state_started
    v2g_heartbeat_age,                \* now - last_v2g_heartbeat
    traffic_filepath,                 \* NoRun or the instance the file is named after
    lock,
    message,                          \* the status being processed, if any
    capture,                          \* state of packet_sniffer
    evse_request,                     \* the last enable/disable request to the EVSE manager
    v2g_context,                      \* the instance last given to the V2G module
    \* History of what was asked for and published
    ticket,                           \* position of each instance in the order of scheduling
    next_ticket,
    published,                        \* number of test_status publications
    results                           \* published test_results

queueVars == <<scheduled_tests, front_slot>>
stateVars == <<current_test, current_state, last_state_detect_state_change>>
ageVars   == <<current_state_age, v2g_heartbeat_age>>
lockVars  == <<lock, message>>
traceVars == <<traffic_filepath, capture>>
evseVars  == <<evse_request, v2g_context>>
callVars  == <<queued_slot, ticket, next_ticket>>
outVars   == <<published, results>>

vars == <<state_machine_enabled, queueVars, stateVars, ageVars, lockVars, traceVars,
          evseVars, callVars, outVars>>

Init ==
    /\ state_machine_enabled = FALSE
    /\ scheduled_tests = <<>> /\ front_slot = 1
    /\ queued_slot = [r \in Runs |-> 0]
    /\ current_test = NoRun
    /\ current_state = "Disabled"
    /\ last_state_detect_state_change = "Disabled"
    /\ current_state_age = 0 /\ v2g_heartbeat_age = 0
    /\ traffic_filepath = NoRun
    /\ lock = "free" /\ message = NoMessage
    /\ capture = IF SniffingEnabled THEN "STANDBY" ELSE "DISABLED"
    /\ evse_request = "None" /\ v2g_context = NoRun
    /\ ticket = [r \in Runs |-> 0] /\ next_ticket = 1
    /\ published = [r \in Runs |-> [s \in TestState |-> 0]]
    /\ results = {}

publish_test_status(r, s) == published' = [published EXCEPT ![r][s] = @ + 1]

-----------------------------------------------------------------------------
(***************************************************************************)
(* Scheduling                                                              *)
(***************************************************************************)

emplace_back_AtFront(r) == scheduled_tests' = <<r>> \o scheduled_tests  \* mutant: emplace_front
emplace_back(r) == scheduled_tests' = Append(scheduled_tests, r)

\* schedule_test, the part under the mutex: the new instance goes to the back
\* and the call keeps the address of its deque element.
ScheduleTest(r) ==
    /\ lock = "free"
    /\ ticket[r] = 0
    /\ emplace_back(r)
    /\ queued_slot' = [queued_slot EXCEPT ![r] = front_slot + Len(scheduled_tests)]
    /\ ticket' = [ticket EXCEPT ![r] = next_ticket]
    /\ next_ticket' = next_ticket + 1
    /\ UNCHANGED <<state_machine_enabled, front_slot, stateVars, ageVars, lockVars, traceVars,
                   evseVars, outVars>>

LiveSlots == front_slot..(front_slot + Len(scheduled_tests) - 1)

\* schedule_test, the part after the mutex is released: the "Queued" status is
\* made from whatever the element's storage holds by now.  A destroyed element
\* is undefined behaviour: its memory still reads as before or as no instance.
PublishQueued(r) ==
    /\ queued_slot[r] # 0
    /\ \E id \in IF queued_slot[r] \in LiveSlots
                 THEN {scheduled_tests[queued_slot[r] - front_slot + 1]}
                 ELSE {r, NoRun} :
          IF id = NoRun THEN UNCHANGED published ELSE publish_test_status(id, "Queued")
    /\ queued_slot' = [queued_slot EXCEPT ![r] = 0]
    /\ UNCHANGED <<state_machine_enabled, queueVars, stateVars, ageVars, lockVars, traceVars,
                   evseVars, ticket, next_ticket, results>>

\* mutant: erase the element behind the match
erase_Next(i) ==
    /\ scheduled_tests' = [j \in 1..(Len(scheduled_tests) - 1) |->
                              scheduled_tests[IF j <= i THEN j ELSE j + 1]]
    /\ UNCHANGED front_slot

\* std::deque::erase moves the shorter side: elements before position i move
\* one slot up, or elements behind it one slot down.
erase(i) ==
    /\ scheduled_tests' = [j \in 1..(Len(scheduled_tests) - 1) |->
                              scheduled_tests[IF j < i THEN j ELSE j + 1]]
    /\ front_slot' = IF i - 1 < Len(scheduled_tests) \div 2 THEN front_slot + 1 ELSE front_slot

\* unschedule_test.  The caller knows the id once schedule_test made it public.
\* The "Canceled" status is made from a private copy, so that publishing it
\* after the mutex is released reads nothing shared.
UnscheduleTest(r) ==
    /\ lock = "free"
    /\ ticket[r] # 0 /\ queued_slot[r] = 0
    /\ \E i \in DOMAIN scheduled_tests : scheduled_tests[i] = r /\ erase(i)
    /\ publish_test_status(r, "Canceled")
    /\ UNCHANGED <<state_machine_enabled, stateVars, ageVars, lockVars, traceVars, evseVars,
                   queued_slot, ticket, next_ticket, results>>

\* unschedule_test finds no element with this id, and does nothing.
UnscheduleTest_NotFound(r) ==
    /\ lock = "free"
    /\ ticket[r] # 0 /\ queued_slot[r] = 0
    /\ \A i \in DOMAIN scheduled_tests : scheduled_tests[i] # r
    /\ UNCHANGED vars

-----------------------------------------------------------------------------
(***************************************************************************)
(* Session events of the EVSE manager, from a source other than this       *)
(* module (is_own_enable_source), and the passage of time.                 *)
(***************************************************************************)
disable_evse == evse_request' = "Disable"
enable_evse  == evse_request' = "Enable"

EvseEnabledExternally ==
    /\ disable_evse
    /\ state_machine_enabled' = TRUE
    /\ UNCHANGED <<queueVars, stateVars, ageVars, lockVars, traceVars, v2g_context, callVars, outVars>>

EvseDisabledExternally ==
    /\ state_machine_enabled' = FALSE
    /\ UNCHANGED <<queueVars, stateVars, ageVars, lockVars, traceVars, evseVars, callVars, outVars>>

LongestStay == IF V2G_CANCELLATION_TIMEOUT < CLEANUP_PERIOD THEN CLEANUP_PERIOD
                                                            ELSE V2G_CANCELLATION_TIMEOUT

older(age, limit) == IF age > limit THEN age ELSE age + 1

Tick ==
    /\ current_state_age' = older(current_state_age, LongestStay)
    /\ v2g_heartbeat_age' = older(v2g_heartbeat_age, V2G_HEARTBEAT_TIMEOUT)
    /\ UNCHANGED <<state_machine_enabled, queueVars, stateVars, lockVars, traceVars, evseVars,
                   callVars, outVars>>

-----------------------------------------------------------------------------
(***************************************************************************)
(* run_state_machine(): one action per state, one step per pass.           *)
(***************************************************************************)
InLoop == lock \in {"main", "status", "result", "handled"}

\* Where the thread continues when the loop is left.
AfterLoop == CASE lock = "status" -> "status_switch"
               [] lock = "result" -> "result_switch"
               [] OTHER           -> "free"

initialize_state == last_state_detect_state_change # current_state

time_in_current_state_Restarted == 0  \* mutant: every pass restarts the clock of the state

time_in_current_state == IF initialize_state THEN 0 ELSE current_state_age

\* The frame of a pass: the state is entered, and the loop repeats as long as
\* the pass selects another one.
Pass(state, next) ==
    /\ InLoop
    /\ current_state = state
    /\ last_state_detect_state_change' = current_state
    /\ current_state_age' = time_in_current_state
    /\ current_state' = next
    /\ lock' = IF next = state THEN AfterLoop ELSE lock
    /\ UNCHANGED <<state_machine_enabled, callVars, results, message>>

RunDisabled ==
    /\ Pass("Disabled", IF state_machine_enabled THEN "Idle" ELSE "Disabled")
    /\ UNCHANGED <<queueVars, current_test, v2g_heartbeat_age, traceVars, evseVars, published>>

RunIdle ==
    \/ /\ ~state_machine_enabled
       /\ Pass("Idle", "Disabled")
       /\ UNCHANGED <<queueVars, current_test, v2g_heartbeat_age, traceVars, evseVars, published>>
    \/ /\ state_machine_enabled /\ scheduled_tests = <<>>
       /\ Pass("Idle", "Idle")
       /\ UNCHANGED <<queueVars, current_test, v2g_heartbeat_age, traceVars, evseVars, published>>
    \/ /\ state_machine_enabled /\ scheduled_tests # <<>>
       /\ current_test' = Head(scheduled_tests)
       /\ scheduled_tests' = Tail(scheduled_tests)
       /\ front_slot' = front_slot + 1
       /\ Pass("Idle", "SetupTest")
       /\ UNCHANGED <<v2g_heartbeat_age, traceVars, evseVars, published>>

\* PacketSniffer::start_capture, from a sniffer in STANDBY or not.
start_capture(r) ==
    IF capture = "STANDBY" THEN capture' = "RUNNING" /\ traffic_filepath' = r
                           ELSE UNCHANGED capture /\ traffic_filepath' = NoRun

\* mutant: stop_capture does not wait for the capture thread
stop_capture_NoWait ==
    /\ capture' = IF capture = "RUNNING" THEN "STOPPING" ELSE capture
    /\ UNCHANGED traffic_filepath

\* mutant: only a running capture is reset
stop_capture_RunningOnly ==
    /\ capture' = IF capture = "RUNNING" THEN "STANDBY" ELSE capture
    /\ UNCHANGED traffic_filepath

\* PacketSniffer::stop_capture, once it returns.
stop_capture ==
    /\ capture' = IF capture \in {"RUNNING", "STOPPED"} THEN "STANDBY" ELSE capture
    /\ UNCHANGED traffic_filepath

setup_test(r) == v2g_context' = r /\ enable_evse

cleanup_test_NoDisable == UNCHANGED evseVars  \* mutant: the EVSE stays enabled

cleanup_test == disable_evse /\ UNCHANGED v2g_context

RunSetupTest ==
    /\ Pass("SetupTest", "SetupTest")
    /\ IF initialize_state
       THEN setup_test(current_test) /\ start_capture(current_test)
       ELSE UNCHANGED <<traceVars, evseVars>>
    /\ UNCHANGED <<queueVars, current_test, v2g_heartbeat_age, published>>

heartbeat_age_now_Restarted == 0  \* mutant: last_v2g_heartbeat is set on every pass

heartbeat_age_now == IF initialize_state THEN 0 ELSE v2g_heartbeat_age

V2GHung == state_machine_enabled /\ heartbeat_age_now > V2G_HEARTBEAT_TIMEOUT

RunRunningTest ==
    /\ Pass("RunningTest", IF V2GHung THEN "CancelTest" ELSE "RunningTest")
    /\ v2g_heartbeat_age' = heartbeat_age_now
    /\ UNCHANGED <<queueVars, current_test, traceVars, evseVars, published>>

\* signal_cancel_test calls the V2G module's cancel_test, whose body is empty.
RunCancelTest ==
    /\ IF time_in_current_state > V2G_CANCELLATION_TIMEOUT
       THEN Pass("CancelTest", "CleanupTest") /\ publish_test_status(current_test, "Canceled")
       ELSE Pass("CancelTest", "CancelTest") /\ UNCHANGED published
    /\ UNCHANGED <<queueVars, current_test, v2g_heartbeat_age, traceVars, evseVars>>

RunCleanupTest ==
    /\ Pass("CleanupTest", IF time_in_current_state > CLEANUP_PERIOD THEN "Idle" ELSE "CleanupTest")
    /\ IF initialize_state THEN cleanup_test /\ stop_capture ELSE UNCHANGED <<traceVars, evseVars>>
    /\ UNCHANGED <<queueVars, current_test, v2g_heartbeat_age, published>>

RunStateMachine == \/ RunDisabled \/ RunIdle \/ RunSetupTest
                   \/ RunRunningTest \/ RunCancelTest \/ RunCleanupTest

-----------------------------------------------------------------------------
(***************************************************************************)
(* The main thread and the handlers of what the V2G module publishes.      *)
(***************************************************************************)
Acquire(phase) ==
    /\ lock = "free" /\ lock' = phase
    /\ UNCHANGED <<state_machine_enabled, queueVars, stateVars, ageVars, traceVars, evseVars,
                   callVars, outVars>>

\* main_thread, every MAINLOOP_UPDATE_RATE
MainThread == Acquire("main") /\ UNCHANGED message

ProcessHeartbeat ==
    /\ lock = "free"
    /\ v2g_heartbeat_age' = 0
    /\ UNCHANGED <<state_machine_enabled, queueVars, stateVars, current_state_age, lockVars,
                   traceVars, evseVars, callVars, outVars>>

ProcessTestStatus(s) == Acquire("status") /\ message' = s

ProcessTestResult == Acquire("result") /\ UNCHANGED message

\* mutant: a test the V2G module reports as canceled still has to be canceled
NextState_CancelAgain(state, s) ==
    CASE state = "SetupTest" /\ s = "Running" -> "RunningTest"
      [] state \in {"RunningTest", "CancelTest"} /\ s = "Finished" -> "CleanupTest"
      [] state = "RunningTest" /\ s = "Canceled" -> "CancelTest"
      [] OTHER -> state

\* The switch of process_test_status: the state a status leads to, if any.
NextState(state, s) ==
    CASE state = "SetupTest" /\ s = "Running" -> "RunningTest"
      [] state \in {"RunningTest", "CancelTest"} /\ s \in {"Finished", "Canceled"} -> "CleanupTest"
      [] OTHER -> state

\* The switch of process_test_status, and the second run_state_machine() after it.
SwitchTestStatus ==
    /\ lock = "status_switch" /\ lock' = "handled"
    /\ current_state' = NextState(current_state, message)
    /\ IF current_state' = current_state THEN UNCHANGED published
                                         ELSE publish_test_status(current_test, message)
    /\ message' = NoMessage
    /\ UNCHANGED <<state_machine_enabled, queueVars, current_test, last_state_detect_state_change,
                   ageVars, traceVars, evseVars, callVars, results>>

ReportsResults_InCleanup == current_state \in {"RunningTest", "CancelTest", "CleanupTest"}  \* mutant: late results

ReportsResults == current_state \in {"RunningTest", "CancelTest"}

\* publish_test_result
SwitchTestResult ==
    /\ lock = "result_switch" /\ lock' = "handled"
    /\ results' = IF ReportsResults
                  THEN results \union {[run |-> current_test, pcap |-> traffic_filepath]}
                  ELSE results
    /\ UNCHANGED <<state_machine_enabled, queueVars, stateVars, ageVars, message, traceVars,
                   evseVars, callVars, published>>

\* The capture thread ends by itself on a read error (PacketSniffer::capture).
CaptureFails ==
    /\ capture = "RUNNING" /\ capture' = "STOPPED"
    /\ UNCHANGED <<state_machine_enabled, queueVars, stateVars, ageVars, lockVars,
                   traffic_filepath, evseVars, callVars, outVars>>

-----------------------------------------------------------------------------
Scheduling(r) == \/ ScheduleTest(r) \/ PublishQueued(r)
                 \/ UnscheduleTest(r) \/ UnscheduleTest_NotFound(r)

Environment == \/ EvseEnabledExternally \/ EvseDisabledExternally
               \/ ProcessHeartbeat \/ ProcessTestResult \/ CaptureFails
               \/ \E s \in TestState : ProcessTestStatus(s)

Threads == MainThread \/ RunStateMachine \/ SwitchTestStatus \/ SwitchTestResult

Next == \/ \E r \in Runs : Scheduling(r)
        \/ Environment
        \/ Threads
        \/ Tick

Spec == Init /\ [][Next]_vars

(***************************************************************************)
(* The main thread polls forever, whoever holds the mutex goes on until it *)
(* releases it, and time passes.  Nothing is assumed of the V2G module, of *)
(* the vehicle or of the clients.                                          *)
(***************************************************************************)
Fairness == WF_vars(MainThread) /\ WF_vars(RunStateMachine) /\ WF_vars(SwitchTestStatus)
            /\ WF_vars(SwitchTestResult) /\ WF_vars(Tick)

FairSpec == Spec /\ Fairness

-----------------------------------------------------------------------------
(***************************************************************************)
(* Properties                                                              *)
(***************************************************************************)
\* The range of every variable.
TypeOK ==
    /\ state_machine_enabled \in BOOLEAN
    /\ scheduled_tests \in Seq(Runs)
    /\ front_slot \in Nat \ {0}
    /\ queued_slot \in [Runs -> Nat]
    /\ current_test \in Runs \union {NoRun}
    /\ current_state \in TestingState
    /\ last_state_detect_state_change \in TestingState
    /\ current_state_age \in Nat
    /\ v2g_heartbeat_age \in Nat
    /\ traffic_filepath \in Runs \union {NoRun}
    /\ lock \in LockPhase
    /\ message \in TestState \union {NoMessage}
    /\ capture \in CaptureState
    /\ evse_request \in {"None", "Enable", "Disable"}
    /\ v2g_context \in Runs \union {NoRun}
    /\ ticket \in [Runs -> Nat]
    /\ next_ticket \in Nat \ {0}
    /\ published \in [Runs -> [TestState -> Nat]]
    /\ results \subseteq [run : Runs, pcap : Runs \union {NoRun}]

Started(r) == published[r]["Running"] > 0
Ended(r)   == published[r]["Canceled"] + published[r]["Finished"] > 0

\* An instance is announced as running at most once and ends at most once,
\* whatever the V2G module sends and however the timeouts, a withdrawal and a
\* late or repeated status interleave.
OneEndPerRun ==
    \A r \in Runs : /\ published[r]["Running"] <= 1
                    /\ published[r]["Canceled"] + published[r]["Finished"] <= 1

\* "Schedule a new test to be run after all previously scheduled tests": the
\* deque is in the order of scheduling, and all of it is younger than the
\* instance last taken from it.
InScheduleOrder ==
    /\ \A i, j \in DOMAIN scheduled_tests :
          i < j => ticket[scheduled_tests[i]] < ticket[scheduled_tests[j]]
    /\ current_test # NoRun =>
          \A i \in DOMAIN scheduled_tests : ticket[current_test] < ticket[scheduled_tests[i]]

\* A result is published only for an instance that was announced as running
\* and has not ended: clients drop their interest in an instance that ended.
ResultsOnlyWhileRunning ==
    [][\A x \in results' \ results : Started(x.run) /\ ~Ended(x.run)]_vars

\* A published result carries the capture of its own instance, although the
\* capture thread may have died and although traffic_filepath outlives a test.
ResultsCarryOwnCapture ==
    \A x \in results : x.pcap = IF SniffingEnabled THEN x.run ELSE NoRun

\* Between two tests the EVSE is not offered to vehicles by this module, and
\* the sniffer is ready for the next capture.
CleanBetweenTests ==
    current_state \in {"Disabled", "Idle"} =>
        evse_request # "Enable" /\ capture \in {"DISABLED", "STANDBY"}

\* A test runs, and its statuses and results are accepted, only after the V2G
\* module was given the test to run.
V2GRunsCurrentTest ==
    current_state \in {"RunningTest", "CancelTest"} =>
        current_test # NoRun /\ v2g_context = current_test

\* What a test sets up is there as long as it runs, and nothing of it is left
\* for the next one, although the outcomes of its cleanup may be late or never come.
SetUpAndCleanedUp == V2GRunsCurrentTest /\ CleanBetweenTests

\* The promise to the clients (TestLifecycle).
StageOf(r) ==
    IF published[r]["Finished"] > 0      THEN "Finished"
    ELSE IF published[r]["Canceled"] > 0 THEN "Canceled"
    ELSE IF Started(r)                   THEN "Running"
    ELSE IF r = current_test             THEN "Selected"
    ELSE IF \E i \in DOMAIN scheduled_tests : scheduled_tests[i] = r THEN "Queued"
                                         ELSE "Unknown"

Lifecycle == INSTANCE TestLifecycle WITH queue    <- scheduled_tests,
                                         stage    <- [r \in Runs |-> StageOf(r)],
                                         reported <- {x.run : x \in results}

\* Every step of the state machine is a step of the promised life cycle, or
\* none that a client can see.
ImplementsLifecycle == Lifecycle!Spec

\* A test the V2G module went silent about is given up, as long as testing
\* stays enabled (the heartbeat timeout).
HungTestIsAborted ==
    (<>[]state_machine_enabled /\ <>[][~ProcessHeartbeat]_vars)
        => []<>(current_state # "RunningTest")

\* Cancelling and cleaning up end without any help of the V2G module.
CancelEnds == current_state \in {"CancelTest", "CleanupTest"} ~> current_state \in {"Disabled", "Idle"}

\* No scheduled test is forgotten: if testing stays enabled, vehicles keep
\* connecting (no endless SetupTest) and tests end, each gets its turn.
EveryTestIsServed ==
    (<>[]state_machine_enabled /\ []<>(current_state \in {"Disabled", "Idle", "CleanupTest"}))
        => \A r \in Runs : (ticket[r] # 0) ~> Started(r) \/ Ended(r) \/ current_test = r

=============================================================================
