# Verification of the EVSE test system

A TLA+ development for the [EVSE test system](../src/README.md): EVerest modules
that let a charging station run interoperability test cases against the vehicles
that connect to it.  The specifications are translated from the source; TLC checks
them on small instances and TLAPS proves theorems for all instances.

Contents: [inventory](#inventory) · [modules](#modules) · [runs](#runs) ·
[divergences found](#what-the-code-does-not-do) · [proofs](#proofs) ·
[what is not modelled](#what-is-not-modelled) · [plan](#plan)

## Inventory

The system is three EVerest modules.  Modules exchange commands (calls) and
variables (publications) through the framework; each subscription's handler runs in
a thread of its own, and any two handlers may run at the same time.

    browser --HTTP--> PyTestServer --enqueue_test, cancel_test--> EvseTestManager
                          ^ test_status, test_result                |        ^
                          +-----------------------------------------+        | test_status, test_result,
                                                                    |        | heartbeat
                         set_test_context, cancel_test              v        |
    EVSE manager <--enable_disable / session_event--> EvseTestManager --> EvseTestV2G <--TCP/TLS--> vehicle

| component | state | operations | what is hard | what makes it correct |
|---|---|---|---|---|
| **EvseTestManager / TestStateMachine** | deque of scheduled tests, current test, state and its clock, heartbeat clock, capture file | enqueue, cancel, passes of the main thread every 250 ms, status, result and heartbeat of the V2G module | five kinds of threads; timeouts against messages; a mutex released too early; an atomic flag outside it | instances run one at a time in order and end once; results belong to their instance; nothing waits forever |
| **EvseTestManager / handlers** | the EVSE manager's last request | session events from other sources, setup and cleanup of a test | external events in any state | the EVSE is offered exactly while a test wants it |
| **EvseTestManager / EV simulation** | last plug-in payload, "ignore the next unplug" | Node-RED messages | telling an own message from the user's | – |
| **EvseTestManager / PacketSniffer** | atomic state, mutex and condition variable, detached capture thread | start, stop, capture | lost wake-ups, failures of pcap, two captures | one writer; stop returns; start finds the sniffer ready |
| **EvseTestV2G / connections** | one `v2g_context` for all threads, registered test wrapper | accept, read, handshake, messages, teardown | one thread per connection and no lock; a slow end; flags set by handlers | one session at a time; a session is ended by its own end only; no use of a destroyed test |
| **EvseTestV2G / handshake** | selected protocol, identification mode | protocol by priority | a test's constraints against the vehicle's offer | the protocol is one of the test's |
| **EvseTestV2G / ISO and DIN servers** | state of the message sequence, session id, contactor, what the EVSE manager has reported | one handler per request, one per command | sequences of legal messages, pauses, renegotiation, commands that are late or of the session before | phases are granted in order and rest on reports of this session; a flag that aborts ends the session |
| **EvseTestV2G / test cases** (20: one class for each protocol and test) | what a test has seen, its times, outcome | override handlers, control pilot events, the end of the connection | verdicts depend on times taken in two threads, and on any order of requests, repetitions, state B and the end | who passes did what the test asks for, in time; who did it does not fail; without the deviation there is no verdict |
| **EvseTestV2G / SDP, crypto, reports, tools** | none that lasts | conversions, library calls | – | – |
| **PyTestServer / scenarios** | dictionary of tracked scenarios, event streams, capture files | upload, list, download, delete; status and result | one thread per request and one for messages, no lock; an exception ends a request in the middle | a scenario is deleted once, with its file; OK means that all was done |
| **PyTestServer / constraints** | none | request → list of constraints | combinations that no protocol allows | every generated test can run |

`PROJECT.json` lists every component with its sources and what is modelled of it,
every hazard with its line and the properties that watch it, and for each definition
the lines it translates.

## Modules

**TestLifecycle** – the abstract specification: what the manager promises a client
about an instance.  *Unknown → Queued → Selected → Running → Finished/Canceled*, or
*Queued → Canceled*; one instance executes at a time, the oldest is selected, a result
is reported while the instance runs.

**TestStateMachine** – `TestStateMachine.cpp` with the handlers that
`evse_test_managerImpl.cpp` connects to it.  Variables have the names of the members.

* `lock` is `state_machine_mutex` and the place of its holder.  One pass of the loop in
  `run_state_machine()` is one action (`RunDisabled` … `RunCleanupTest`), since
  `set_enabled()`, the tail of `schedule_test()` and the capture thread go on without
  the mutex.  A handler is `ProcessTestStatus` (runs the loop), `SwitchTestStatus` (its
  `switch`), and the loop again.
* `front_slot` and `queued_slot` follow the storage of the deque, because
  `schedule_test()` keeps a pointer into it; `PublishQueued` reads through that pointer.
* Times are ages: `current_state_age` is the code's `now - current_state_started`.
  `Tick` lets them grow up to one more than the limits they are compared with.
* The sniffer is the contract **Capture** offers; **PacketSniffer** is shown to implement it.
* `EvseEnabledExternally` is the handler's `disable_evse(); set_enabled(true)` as one
  step: the state machine's enable flag and the EVSE are read by no step in between
  that could tell.  `enable_disable` requests are kept as the last one made.

**Capture / PacketSniffer** – the contract of a capture as the manager relies on it,
and the sniffer itself: the caller (`start_capture`, `stop_capture` up to the evaluation
of the predicate and falling asleep), the capture threads (open, loop, acknowledge,
notify), failures of `pcap_dump_open` and `pcap_dispatch`, spurious wake-ups.

**V2GConnection** – `connection_handle_tcp`, `process_connection_thread` and
`v2g_handle_connection`: any number of connection threads over one `v2g_context`.
`at[c]` is the place of a thread; a step is a stretch of code between two accesses to
what others write.  Of `ctx->state` the model keeps whether it is 0
(`established`), which is what decides if a second connection is turned away.  What a
message does to it is left to chance (`HandleRequest`), so the properties hold for all
servers and test cases.  `handle_dlink_ready`, `handle_set_test_context` and the event
handlers interleave with every step.  `dlink_ready` is history.

**IsoServer** – the message sequence: `IsoServerBase` of `iso_server.cpp` on the
`v2g_context`, with the commands of the EVSE manager that write the same context
(`ISO15118_chargerImpl.cpp`).  A handler `handle_iso_…` is one action from the request
to the reply.  The two that wait are several actions each, the commands go on between them:
`WaitForContactor`, `ContactorWaitEnds` (the loop has read why it ends, `contactor_wait`) and
`PowerDeliveryGoesOn` (the validation, which reads `stop_hlc` again);
`handle_iso_certificate_installation` and `CertificateInstallationEnds`.  The two assignments
of a rejected authorization are two actions (`handle_authorization_response`,
`RejectAuthorization`).  `StopHlc` sets the flag or withdraws it at any time.  `iso_validate_response_code`
is the set of results the code can come to: the vehicle may know the session id or not,
and an index beyond the table of states may allow anything.  `session` is the place of
`v2g_handle_connection`; sessions follow one another, their overlaps are
V2GConnection's.  A response code is OK or FAILED.  What certificates, signatures,
measured values, meters, the schedule and the SAE extension decide is a choice.
`debugMode` is off.  History variables: `response` (the last code), `granted` (the
phases a vehicle has been granted, kept for connections that end on a failed response),
`accepted`, `isolation_checked`, `offer_replaced`, `contactor_wait`.

**DinServer** – the same for DIN 70121: `DinServerBase` of `din_server.cpp` and the
commands that write its part of the context.  No handler waits here; instead the three
reports of the EVSE manager and the three commands that abort a session (`StopHlc`, which may
also withdraw a stop, `EmergencyShutdown`, `handle_dlink_ready`) come between any two
requests.  `reported`, `granted` and `aborts` (who has asked for the end of this session, and
has not withdrawn it) are history.  `iso_selected_payment_option` is a
constant of a behaviour: the DIN server reads what a paused ISO session left behind.

**TestSession** – what all test cases share: one session of a vehicle with the server of
a test, the base server reduced to what a test sees of it (a request in order may succeed
or fail, one out of order fails, `ctx->state` moves on in any case), the flags of the
link, the control pilot, the end of the connection, and the verdict.  `base` holds the fields
of the `TestBase` classes, `seen` what the vehicle really did, which is what the properties
compare the verdict with.

The control pilot is two variables.  `pilot` is the vehicle's own; each change of it, into
state B or out of it (`VehicleEntersB`, `VehicleLeavesB`), is published and on its way
(`on_its_way`) for any time.  `cp_state` is what the server believes: state B arrives and is
stamped (`BspEventArrives`, `bsp_event` is the stamp), is entered into `cp_state`
(`BspEventUpdates`), and the test is told of it (`BspEventB`); the end of state B arrives and
is entered (`BspEventOther`), of which no test takes the time.  Requests are handled between
any two of these steps.  Changes arrive in order and one is handled after the other.

* **ResponseTests** – ten tests that answer one request wrongly or not at all, and expect
  the vehicle to stop: `chn_authorization_004`, `service_discovery_008`,
  `service_detail_payment_selection_003`, `cablecheck_007`,
  `charge_parameter_discovery_002`, `session_setup_004`, `service_detail_011`, `_013`,
  `current_demand_002`, `_005`.
* **OngoingTests** – three that tell the vehicle to go on waiting until its own timer
  expires: `authorization_009`, `precharge_006`, `cable_check_006`.
* **StateFTests** – three that signal control pilot state F: `session_setup_007`,
  `service_detail_payment_selection_012`, `current_demand_007`.
* **WeldingTest** – `welding_session_stop_001`, which stops the charge and follows the
  vehicle through welding detection to SessionStop.
* **TestCases** – all seventeen as one specification, with their properties.  A test's
  definitions have its name: `<test>_verdict`, `<test>_din_accepts` (what `handle_request`
  lets through), `<test>_iso_session_stop`.
* **SmartCharging** – `chx_smart_charging_scheduling_001` to `003`: the schedule with
  three entries, the judgement in each CurrentDemand, renegotiation, and the thread of
  `stop_charging` that sets `stop_hlc` when the vehicle does not stop.  `seen.schedule` and
  `seen.scheduled` are the schedule that the vehicle was sent last, and when.  A schedule may
  come again at any time: with ISO 15118-2 the vehicle renegotiates; with DIN 70121 it may,
  when failed responses do not end the connection, have a request refused whose handler sets
  the state back.  With DC only: with AC the tests judge meter readings
  (`on_powermeter_event`, called from `handle_meter_update`), which is not modelled.

**TrackedScenarios** – `module.py` of PyTestServer with `constraints.py`.  `pc` and `job`
are the place and the local variables of each thread of a request and of the thread of the
messages; a step is what no other thread can divide.  A request begins with its first
look at the dictionary (`BeginOne`, `BeginDeleteAll`, `BeginDownloadAll`), or with an upload
whose tests `generate_constraints` counts, and ends with OK (`Done`) or with an exception
(`Raise`), which leaves what was done so far.  `slot` and `used` are CPython's dictionary:
entries in the order of insertion, deleted ones left behind until an insertion packs the
table (`Repack`); a download walks over the entries and fails when the number of scenarios
is not the one it began with (`SizeChanged`), so a deletion and an upload between two of
its steps cancel out.  `send_live_event` writes to a copy of the list of streams and
removes a broken one; `list.remove` raises when another thread has done that before
(`DropConnection`), and the request ends there.  `deleted` is history.

**…_proofs** – the theorems.  **MCTestStateMachine**, **MCTrackedScenarios** –
symmetry for TLC, and the configuration that is uploaded.

## Runs

Passing runs:

| run | bounds | shows |
|---|---|---|
| `manager_safety` | 2 instances, all timeouts 1, symmetry | life cycle, order, results, capture, cleanliness under all interleavings; refines `TestLifecycle` |
| `manager_liveness` | 2 instances, timeouts 0, no sniffer | hung tests are aborted, cancelling ends, every test is served |
| `sniffer` | 3 capture threads | captures use device and file one after the other, each start finds it ready; refines `Capture`; captures end |
| `v2g_connections` | 1 TCP and 1 TLS connection, slots reused | the registered wrapper exists, the context is clean afterwards, a TCP session alone is changed by its own thread only, silent vehicles leave |
| `iso_sessions` | sessions of any number and length; both payments; AC (without TLS) and DC; both settings of `terminate_connection_on_failed_response` | phases in order, states inside their table, authorization, cable check, contactor and contract current; implements the test cases' base server (0.9 million states, about 2 min) |
| `din_sessions` | sessions of any number and length, both settings of `terminate_connection_on_failed_response`, with and without a contract left behind | phases in order, a charge is not taken up again, grants rest on reports of this session, what has asked for the end of the session and has not withdrawn it gets it; implements the test cases' base server (26 thousand states) |
| `test_cases` | 17 tests, one session, both protocols, times up to 6 units, one change of the control pilot on its way (3.6 million states, about 90 s) | who passes really was in state B and ended in time, did not talk on; who did all that and was heard does not fail; no verdict without the deviation; waiting ends |
| `tracked_scenarios` | 2 tests, 2 requests at a time and the messages, 1 event stream, symmetry (2.9 million states, about 3 min) | a tracked result keeps its capture unless it is about to be deleted, a scenario is deleted once, OK means done |
| `smart_charging` | 3 tests, DC, both protocols, times up to 8 units, two power limits (3.7 million states, about 2 min) | a vehicle fails only for what it did, and passes only if it kept to each rising schedule it was sent, charged for long enough and reached the second entry |

Why the bounds suffice.  Two instances are enough for an instance to be queued,
selected or withdrawn while another one runs, ends or leaves late messages; the theorems
cover any number.  Timeouts matter by their order with the messages only: at 1
an age is below, at and above its limit.  The liveness run takes 0 (an age is at
its limit, then above) because its state graph is searched for cycles; it does
without sniffer because `stop_capture()` is a step of the manager there, whose
termination the sniffer's own runs are about.  Three capture threads are one more than
can be alive at once.  Two connections overlap in every phase; a thread's slot is used
again when it has gone, so that a late teardown meets a later session; the TLS one is
what turns away, or is turned away.  `IsoServer` needs no bound on messages or sessions,
its state is finite.  Its commands are limited in number only where a second one could
not be told from the first: one abort (stop, emergency or data link) at a time,
since while it lasts each makes every response fail; and one answer to an authorization
between its two assignments.  The EVSE manager offers at least one payment.  The vehicles of
an AC charger come without TLS (`AcTls`): the handlers ask for it in service discovery only,
where they do not ask for the charger, and DC vehicles come with it and without.

Bounds of the test cases.  Time is counted in units from 1, 0 stands for a time that was
never taken.  `TestCases.cfg` has timeouts of 1 and 2 with a sequence timeout of 6 (`MaxTime`), so that
each time can be taken before, at and after the limits it is compared with, in each order
of the limits, and `OngoingTimeout + TcpTimeout` can be exceeded before reading ends.
`Epoch`, the distance of the two clocks, only has to be larger than all of them.  One
change of the control pilot is on its way at a time (`MaxOnItsWay`) while another one is being
handled; before the response that a test is about, the vehicle does not change it, but `Init`
has each combination of `pilot`, `cp_state` and a change on its way, which is all that the
test can tell of what was before.  After it, the vehicle enters state B in
at most two units of time in `authorization_004` (`MaxB`: once in time, once not), in one in
the tests that judge it in the same way (`OneStateB`), and not at all in those in which no
property asks for it (`NoStateB`).  A response that takes no time is not sent in the unit in
which a state B was stamped (`StampsAreEarlier`), so that stamps before a response are the
smaller ones, as in the code, whose clock is finer.
Time passes only once the test has taken a first time and until it has failed, before and
after that no time is compared.  What a vehicle sends is limited where the verdict cannot
change any more: nothing after a request that the test remembers as failed (OngoingTests,
WeldingTest), after the response that the test is about the request itself and five others,
early and late ones of the sequence (`Sent`, `LaterRequests`: PaymentServiceSelection,
CertificateInstallation, CableCheck, PowerDelivery, SessionStop), and no earlier ones once the
cable check is ongoing, where CertificateInstallation stands for them all and only where
a failed response ends the session (`cable_check_006_sent`).  The data link goes at any time before
the response that a test is about, and after it at once; later only while reading is
forced (`DlinkMatters`), because otherwise it ends the session as any other failed
read does.  Time does not pass between the end of the data link and that of reading
(`MayRead`), which `connection_read` notices within a second.  A message that is none is `UNKNOWN`.  The two states
`WAIT_FOR_CURRENTDEMAND…` of the servers, which no test distinguishes, are one.  There are
no contracts and no AC.  Deadlock is not checked in these two runs: a session ends, and
nothing follows it.

`SmartCharging.cfg` scales 60 s, 120 s and 20 s to 1 each, which keeps the order of all
limits; `EntryDuration` (one hour) is 5, so that, as in the code, an entry is
allowed for until the next one is over.  `MaxTime` (8) lets a charge go on past
`TargetDuration` (5), and a second schedule be sent and exceeded in the middle of it.
Schedules are sent any number of times, at any time; a vehicle that supports 10 W at first and
then 30 W, or the other way round (`MaxPowers`), gets another one with DIN 70121, where the
limits depend on it.  Of the requests that are left to the base server only Authorization
comes out of order: that is enough for a refused request to set the state back.  The power
the vehicle asks for is that of an entry, 1 W more, 2 W or nothing, so each side of each limit
occurs.  Time stands still once a vehicle that asked for too much has been stopped
(`SmartTick`): its verdict is settled.

Premises of the ISO properties.  `MessagesInOrder` (`PhasesInOrder` and `StateInTable`, in
DinServer `PhasesInOrder` and `ChargeEndsForGood`) and `ContractSelectedOverTls` are about
`terminate_connection_on_failed_response = TRUE`.
That is not the default.  With `false` the code leaves it to the vehicle to stop after a
failed response, its handlers set the next state even when they refuse a request, and
`granted` would mean nothing.  `CableCheckIsCurrent` and `ContactorBeforeCharge`, which with
`AuthorizationIsCurrent` make `GrantsAreCurrent`, hold with both settings.
`ContactorBeforeCharge` excepts one end of the wait for the contactor (`"withdrawn"`): a stop
ends the loop, and `handle_stop_charging(false)` takes it back before
`iso_validate_response_code` reads the flag; nothing tells the rest of the handler why the
wait was over, and PowerDelivery is answered with OK although the contactor is open
(`iso_server.cpp:1272` and `:55`).  `ContractSelectedOverTls` excepts sessions in which the
EVSE manager has called `session_setup` again after service discovery (`offer_replaced`): the offer it
sets is not corrected before the next service discovery.  A cable check counts as
current (`isolation_checked`) when its answer came after the end of the last session: one
that comes between two sessions is taken for the next by the code, and nothing in the
command tells them apart.  `AuthorizationIsCurrent` is about external payment, where the
answer is asked for after the selection; a contract's answer is not tied to a request in
the code.

The base server of the test cases.  TestSession does not contain the servers but a base
server of its own: which requests are in order (`InOrder`), how they may be answered
(`validate_response_code`), what each handler may expect next (`NextStates`).  A behaviour of
a server that it lacks would be missing from everything that is said about the twenty tests.
`ImplementsBaseServer`, in `DinServer` and in `IsoServer`, says that it lacks none: their
steps are steps of `TestSession` without a test, or steps that it does not see, under the
mapping of `state` to the request that names it there.  A test can only let through what a
server does, so tests that leave a request to it are covered.  For ISO 15118-2 the property is about what
TestSession is about, DC and external payment, without the requests it leaves out because
they belong to contracts or to AC: PaymentDetails, CertificateUpdate, ChargingStatus and
MeteringReceipt (`WithinTests`, before and after a step).  A handler that waits is not seen, and neither is the state after a pause,
where the session ends.  The first version of the base server did not pass:
`handle_iso_certificate_installation` answers OK to a request that is out of order, and the
session goes on when it should have ended (`SentAsItIs` has been in TestSession since).

Premises of the test cases' properties.  Tests are left out by name where the code does
not keep the property, each time with the reason at the property and below.
Both state B properties speak of the vehicle's own control pilot (`seen.was_b`, `seen.b`),
and a test knows only of what it was told.  `PassMeansStateB` therefore lets a
vehicle pass that was not in state B in time if at the response a change was still on its way
(`seen.sent`: it has left state B, and `cp_state` still has it, or its earlier state B is
stamped later), and, in the tests whose time starts after the response, if a state B before
that start was delayed past it (`seen.delayed`).  `FailIsDeserved` demands that
the vehicle be heard before time passes and before the connection ends (`Unheard`), and that
its state B was not stamped before the response but entered into `cp_state` after the test
has looked (`seen.stamped`).  In each of these the code's verdict is wrong about the vehicle,
and the model has it.  `OngoingEnds` is about sessions that failed responses end: the others go on
after the test has refused.  `ScheduleFailIsDeserved` lets the vehicle know the schedule
it was sent, not the server's clock: exceeding the entry in force counts against it, though
the test forgives it within the grace periods.  `PassIsEarned` compares powers only for
rising schedules, and does not ask for the length of a charge that went on although the vehicle
was refused something, nor for the second entry when a schedule was sent after the charge
began (see below).

Premises of PyTestServer.  The manager's ids are new and its results name a capture that
exists; it publishes at most one result of an instance.  The framework calls the handlers
of messages one after the other and survives their exceptions.  Writing to a stream fails
or returns.  `OkMeansDone` speaks of what a request was asked for when it began: the
scenarios that then had a result, the tests of its upload.  An archive may miss a result
when a scenario was added during the download (see below).  Two tests suffice for an upload
to be interrupted between them, and for a deletion of one to be made up by the other;
with two requests at a time two deletions meet in one scenario while messages arrive, and a
download meets a deletion and the upload that follows it.

Fairness.  `TestStateMachine!Fairness`: the main thread loops forever, a holder of the
mutex runs on, time passes; nothing of the V2G module, of vehicles or of clients.
`HungTestIsAborted` and `EveryTestIsServed` say in their premise what else they need.
`PacketSniffer`: its threads run.  `V2GConnection`: threads run, and `ReadFails`
is fair because `is_sequence_timeout` bounds every read by 60 s; that a connection which
receives forever stays is allowed, hence the second disjunct of `SilentConnectionEnds`.

## What the code does not do

Each of these runs checks one statement that a comment or an interface makes and finds a
behaviour of the code that breaks it (`findings` in `PROJECT.json` quotes the lines).

| run | broken statement | what happens |
|---|---|---|
| `sniffer_lost_wakeup` | notify waiting threads | state and notification change without the mutex, between the waiter's test and its sleep |
| `v2g_overlap` | a running session is detected | `ctx->state` stays 0 until SessionSetup: two connections run a session each on one context |
| `tests_clocks` | state B must start before the timeout period measured from the last AuthorizationRes | `chn_authorization_009` subtracts milliseconds of the monotonic clock from milliseconds since the epoch: a vehicle that enters state B in time fails |

Seen while modelling, without a run of its own: the behaviour is in the model, and where
a property would be broken by it the property says what it leaves out.

Manager and connections:

* `schedule_test` makes the *Queued* status from a deque element after unlocking; another
  thread has moved or destroyed it (`TestStateMachine.cpp:45`).
* A board support event is dispatched to a copy of the wrapper's pointer after unlocking;
  the wrapper may be gone (`evse_test_v2gImpl.cpp:46`).
* The teardown of a TCP connection comes up to 5 s after its session and terminates a later
  one (`connection.cpp:447`); so does a TLS connection that is turned away
  (`tls_connection.cpp:66`).
* `v2g_handle_connection` ends with `v2g_ctx_init_charging_state`, which resets
  `is_charging` (`v2g_server.cpp:943`) before `connection_teardown` tests it
  (`connection.cpp:378`): for a session that ended while charging, the orders to open the
  contactor are dead code, although the call is to "cleanup and notify lower layers".
* With testing disabled a hung test is not aborted (premise of `HungTestIsAborted`); an
  external *Enabled* event disables the EVSE for good in SetupTest; cancelling the
  executing instance is ignored; `stop_capture` also waits forever after `pcap_dump_open`
  has failed; a `dlink_ready(false)` between accepting and starting a session is forgotten.

Servers:

* `handle_iso_power_delivery` sets its last FAILED after the response code has decided what
  the connection does (`iso_server.cpp:1384`), so the connection goes on, although
  `manifest.yaml:31` has it terminated immediately.
* A contract's authorization is finished before it is marked as rejected.  After a paused
  ISO session with a contract, a rejected answer authorizes a DIN session
  (`ISO15118_chargerImpl.cpp:265-271` with `v2g_ctx.cpp:262`).
* The DIN server notes charging even when PowerDelivery does not start it
  (`din_server.cpp:874-877`).

Test cases:

* In `chn_service_discovery_008`, `chn_cablecheck_007` and `chn_current_demand_002` a
  vehicle that stops the session too late passes: SessionStop restarts the clock and is
  not itself compared with it.  The comments say that it restarts the timer, but the tester
  itself closes right after SessionStopRes.
* `chn_service_discovery_008` does not count an additional SessionSetup as a deviation.
* A `dlink_ready(false)` ends the connection from the tester's side, and the vehicle passes.
* The control pilot's state is looked at in the connection's thread and changed in
  another.  A vehicle that leaves state B just before the response is taken to be in it
  and passes (`chn_cablecheck_007.cpp:208`); one whose state B was stamped just before the
  response, and is entered into `cp_state` after the test has looked, is found to have entered
  it too early, and fails (`chn_authorization_004.cpp:66`).
* `chn_authorization_009` never clears `validate_control_pilot` (`cpp:272`): a vehicle that
  was in state B at the last AuthorizationRes, but not at an earlier one, must still enter it.
* In the three state F tests the time since state F is negative
  (`chn_session_setup_007.cpp:82` and `:168`, `chn_service_detail_payment_selection_012.cpp:195`,
  `chn_current_demand_007.cpp:101`), so requests after state F are always accepted, though
  `chn_session_setup_007.hpp` speaks of "any request received after control pilot state 'F'".
* `chn_precharge_006`: `sequence_time` is always 0 (`cpp:225`), so the longest gap between
  two requests is not what the vehicle's timer is compared with.
* `chn_cable_check_006`: any state B since the cable check began will do (`cpp:115-126`);
  the first response after the end of waiting is FAILED but does not end the session even
  when failed responses should (`cpp:308-313`); a vehicle that is late with its first
  CableCheck is judged as one that did not terminate (`cpp:15-21`).
* `chn_welding_session_stop_001`: a pause that SessionStop refuses after the validation of
  the response is not counted, and the vehicle can pass (`cpp:303-312`, `364-376`).
* `chx_smart_charging_scheduling`: the limit of the entry before is allowed for as long as
  `SCHEDULE_ENTRY_DURATION` plus the grace period after that entry's *start*, more than an
  hour, although the second entry begins after 200 s (`base.cpp:433`).  A falling schedule
  is therefore never enforced, and test 002 cannot fail a vehicle in its entry of 0 W:
  `RisingScheduleIsFollowed` is about
  the tests whose schedules rise for this reason (`Rising`: 001 and 003 with DIN 70121).  The
  third entry begins at 460 s, after the 340 s of charging.  With ISO 15118-2 the limits do not depend on what the vehicle supports.
  When failed responses do not end the session, a vehicle whose PowerDelivery was
  refused is timed from 0, asked to stop at once, and can pass; one that is sent a new schedule
  before its second entry can pass without reaching that of the new one (the exceptions of
  `PassIsLongEnough`).  A Start after CurrentDemand, with ISO 15118-2, begins no charge: the base
  server has set FAILED before the test looks at the response code (`iso_server.cpp:1384`).
* The thread of `stop_charging` looks once a second whether the connection has ended, and
  may set `stop_hlc` for the session after (`testcase.cpp:82-96`).

PyTestServer:

* A test is enqueued before it is tracked (`module.py:258-264`): statuses that come in
  between are dropped, and so would be its result.  A call of `enqueue_test` that raises
  after the manager has taken the test leaves one that runs and is never tracked.
* Two threads that find the same event stream broken both remove it; the second one's
  `ValueError` ends its upload with the tests that were left, or its deletion (`module.py:454`).
* A download passes over a result when a deletion and an upload come between two of its
  steps and the insertion packs the dictionary.  `OkMeansDone` excuses each download during
  which another scenario was tracked for this reason; what it says of downloads is about
  deletions, results and broken streams.

## Proofs

For any set of instances, capture threads and connections, and any timeouts.
The assumptions on the constants (`ConstantsAssumption`, `ConnAssumption`, …) say that
"none" is not an instance, that timeouts are natural numbers, and that the supported
authorizations are payment options (`AcTls`, a bound, is any set of truth values: the theorems
hold for AC with TLS, too).

* `TestStateMachine_proofs`.  `TypeCorrect` is the base of all.
  *Order* (`ScheduleOrderKept`): `InScheduleOrder` is not inductive, a new instance must
  be younger than all, so `TicketsGrow` says that tickets are below `next_ticket`.
  *Ends once* (`EndsOnce`): counting needs to know where the counts come from:
  `FreshUntilSelected` (an instance in the deque, or unknown, has announced nothing) and
  `AnnouncedAsExecuted` (what the current one has announced is a function of the state).
  With `QueueInv`, which makes the elements of the deque distinct, they are inductive.
  `ResultsInTime` is the action property that follows.
  *Setup* (`SetUpForEachTest`, `OwnCapture`): `SetupInv` relates
  `last_state_detect_state_change` to what the entry code of each state has done: the
  switch of a status can come before the entry code has run.
  *Refinement* (`LifecycleImplemented`): every step maps to a step of
  `TestLifecycle` or to a stutter.  The mapping reads an instance's stage off its
  announcements, so it needs the invariants above and `OneExecution`.
* `PacketSniffer_proofs`.  `TypeCorrect`, `CapturesSeparated`: the atomic state determines
  which thread may be active (`StateOfThreads`) and where the caller is (`StateOfCaller`).
  *Refinement* (`CaptureImplemented`): every step maps to a step of `Capture` or to a
  stutter.  `Capture` has one file, the sniffer one for each thread; that the file is
  closed when the state goes back needs that nobody writes while no thread is active
  (`Idle`), and that a thread which leaves is the last one that wrote (`LastWriter`).
* `V2GConnection_proofs`.  `WrapperAlive`, `ContextIsCleared`: inductive with `TypeOK`, by
  the move of one thread per step (`ThreadMoves`).  `SessionUndisturbed` follows from
  `TypeOK`; its premise `Alone` leaves out TLS connections, whose teardown does disturb
  sessions.
* `IsoServer_proofs`.  `TypeCorrect` first: each reply is one of `Results`
  (`ValidatedType`).  `PhasesInOrder` and `StateInTable` are inductive together with
  `TypeOK`: a request that passes in a state was allowed by it (`OrderedReply`,
  `AllowedAc`, `AllowedDc`), so the phases its state required are granted, and those of
  the next state follow from it; a request that does not pass ends the connection.
  `AuthorizationOfThisSession`: `AnswerIsCurrent` says that a finished authorization with
  external payment was accepted, which selecting a payment establishes and no late command breaks.
  `ContractsOverTls`: between service discovery and selection the offer is the corrected
  one (`ContractOnOffer`).  `GrantsRestOnNow`, an action property, is proved by who may
  answer what (`WhoReplies`: each step that is not a reply leaves `last_v2g_msg` and
  `response` alone): the cable check rests on `IsolationKept` (with DC, a check that is
  marked as finished was finished since the renegotiation), and the contactor on
  `StartsCharging` (only Start with a good code is answered well), `GoodFromGood` (a response
  that went wrong stays wrong) and `AbortStays`: an abort that ended the wait is still in the
  flags when they are read again, unless it was a stop and has been withdrawn.
  *Refinement* (`BaseServerImplemented`): three lemmas carry it.  What the table allows is
  in order for TestSession (`AllowedIsInOrder`), each result of the validation is one of its
  results (`AnswerIsKnown`), and each next state is one that it reckons with (`Follows`,
  `NextFollows`); each handler is then an instance of `ServedAsExpected`, except SessionStop
  and the installation of certificates.
  `iso_validate_state` has its membership in parentheses, `{(request \in …)}`, because tlapm
  reads `{request \in …}` as the empty set, which is not what it is for TLC.

* `DinServer_proofs`.  Two lemmas reduce a request to what its response tells: one that is
  accepted was allowed by the state (`Accepted`, `Allowed`), and no flag was set.
  `PhasesAreInOrder` is then proved as for ISO 15118-2 (`Order`), and
  `NoSecondCharge` reads off it that a state which allows power again is not reached after
  a charge.  `AbortsEndSessions`: with a flag set, each reply ends the session
  (`NoAnswerInAbort`), and what is in `aborts` has its flag set, whichever other one is
  withdrawn (`AbortsKept`).  `GrantsAreFounded`: what the handlers look at says what was reported
  in this session (`ReportsKept`), because the end of a session resets both.
  `BaseServerImplemented` is proved as for ISO 15118-2; the second power delivery, which ends
  the session, is a case of its own (`PowerDeliveryIsServed`).
* `TestCases_proofs`, for any timeouts and any selection of the seventeen tests.  Each
  test's `handle_request` is first shown to do one of a few things (`Steps`: refuse, leave
  to the base server, deviate, stop, signal state F, …), so that the invariants need one
  case for each of these and not one for each handler.  `TypeCorrect` needs that no noted time lies
  in the future (`TypeNow`).  `Inv` relates what a test has noted to what the vehicle did,
  in one part for each kind of test.  The control pilot needs three: the changes on their way
  alternate between what the vehicle is in and what the server knows (`Alternates`), each
  stamp is that of a state B which the vehicle had entered by then, at once unless it was
  delayed (`StateBNotes`), and the latest stamp is not earlier than the vehicle's last state B
  (`LatestB`).  The verdicts follow at the moment the connection
  closes (`Judging`), and nothing follows a closed session (`Close`): that gives
  `VerdictNeedsDeviationCorrect`, `PassMeansStateBCorrect`, `PassMeansEndCorrect`,
  `TalkerNeverPassesCorrect`, which together are `PassIsDeservedCorrect`, `FailIsDeservedCorrect`
  and `OngoingEndsCorrect`.

* `SmartCharging_proofs`, for any durations in which an entry begins before the one before
  it is no longer allowed (`DurationAssumption`: 200 s and 260 s against an hour and 120 s),
  and any power limits.  Two lemmas relate the handler's nest of conditions to the entries in
  force: what it takes for too much is more than each of them allows (`ExceedsIsOver`), and in
  a rising schedule nothing that exceeds all of them, the grace period included, is missed
  (`BeyondGraceExceeds`).  That the schedule which the server judges by, and its time, are those
  the vehicle was sent last is part of `Types`.  `Inv` relates the test's flags to what the vehicle did
  (`Noted`, `RisingNoted`), says why a vehicle was asked to stop (`StopNoted`) and that its
  charge began after the schedule, unless there was another one since, and before its first
  good CurrentDemand (`ScheduledFirst`, `StartedFirst`), without which the time since the schedule could be shorter than the one
  since the start (`ChargedPastSecondEntry`).  `ScheduleFailIsDeservedCorrect` and
  `PassIsEarnedCorrect` read the verdict off it.

* `TrackedScenarios_proofs`, for any number of tests, requests and streams, and any uploads.
  `TypeCorrect` rests on two lemmas about the dictionary: an insertion, packed or not, keeps
  the other entries apart (`Inserts`, by `RankProperties`), and a removal does, too.  `Core` is
  inductive with it: what a thread is about to track was never tracked (`Fresh`) and differs
  from what others are about to track (`Apart`); what it is about to delete has a result
  (`Deleting`); a result that is not tracked yet has its capture (`Results`).  That gives
  `DeletedOnceCorrect` and `CaptureKeptCorrect`.  `OkMeansDoneCorrect` is a rely-guarantee
  argument: `World` says what every step leaves true for the other threads, `OthersKeep`
  that a request's `Task` (what is left of its deletion, what its download has packed)
  survives it, and `TaskQuiet`, `TaskShown` and `TaskEvent` that its own steps keep it.

Only model-checked: everything about liveness (`HungTestIsAborted`, `CancelEnds`,
`EveryTestIsServed`, `CapturesEnd`, `SilentConnectionEnds`), which needs fairness and
ENABLED.

## What is not modelled

* Delivery of messages between the modules is the framework's: external, and in the
  manager's model the V2G module may send anything at any time.
* `stop()` and the destructors: the process ends.  `scoped_lock_timeout` proceeding
  without the mutex after 120 s: it is there to print a stack trace.
* The EV simulation; system clock jumps (ages only grow by one).
* The content of messages, reports and captures; which protocol is selected.
* The reports that test cases write; the AC part of smart charging (see above).
* Blocking writes (`connection_write`) and the 2 s and 3 s of a TCP close as durations.
* SDP, sockets, TLS, certificates, formatting, configuration, scripts, web pages.
* The components marked as planned below.

## Plan

1. **Done** – the manager with its sniffer and the abstract life cycle; the V2G
   connections; both servers with the EVSE manager's commands; the twenty test cases, and
   their base server as an abstraction of both; PyTestServer; the theorems: every invariant
   and every refinement that a run checks.
2. **PyTestServer** – TrackedScenarios composed with TestLifecycle as its source of
   messages.
3. **ChargingProfile** – the search of `check_iso2_charging_profile_values` over small
   schedules, against what it should find, and whether it ends; **Handshake**,
   protocol selection as a function, against a declarative definition over all small offers.
4. **TestSystem** – the manager and the V2G module composed through the messages between
   them, with time: 60 s of a read against 20 s + 10 s + 10 s of the manager's timeouts;
   the ten seconds of `stop_charging` against the next session; V2GConnection's
   `HandleRequest` shown to allow what the servers do.
5. EV simulation.
