---------------------------- MODULE TestSession -----------------------------
(***************************************************************************)
(* One session of a vehicle with the server of a test case: what all test  *)
(* cases of src/modules/EvseTestV2G/testcases share.  The server's         *)
(* handle_request lets a request through to the base server, or to the     *)
(* handler that the test overrides, or ends the session; when the          *)
(* connection closes, the test gives its verdict (testcase.hpp,            *)
(* v2g_server.cpp:763-948).                                                *)
(*                                                                         *)
(* The vehicle enters and leaves state B of the control pilot.  The board  *)
(* support module publishes each change, which arrives later and is        *)
(* handled in another thread: it is stamped, it changes cp_state, and the  *)
(* test is told of it, with requests handled in between.  Changes arrive   *)
(* in order, and one is handled after the other.                           *)
(*                                                                         *)
(* The base server (DinServer, IsoServer) is reduced to what a test sees   *)
(* of it: a request in order succeeds or fails, for whatever reason, one   *)
(* out of order fails, and ctx->state moves on in any case.  Contracts and *)
(* AC chargers are left out, and so is the contactor.                      *)
(*                                                                         *)
(* Time is counted in units; it starts at 1, 0 stands for a time_point     *)
(* that was never set.  It passes once the first of them is taken.         *)
(***************************************************************************)
EXTENDS Integers, FiniteSets

CONSTANTS
    SetupTimeout,       \* V2G_TEST_MESSAGE_TIMEOUT_SESSION_SETUP
    DetailTimeout,      \* V2G_TEST_MESSAGE_TIMEOUT_SERVICE_DETAIL
    DemandTimeout,      \* V2G_TEST_EVCC_CURRENT_DEMAND_REQ_TIMEOUT
    StateBTimeout,      \* V2G_TEST_EVCC_STATE_B_SHUTDOWN_TIMEOUT
    TcpTimeout,         \* V2G_TEST_TCP_CONNECTION_TERMINATION_TIMEOUT
    OngoingTimeout,     \* V2G_EVCC_ONGOING_TIMEOUT_60S, V2G_EVCC_PRECHARGE_TIMEOUT
    MaxTime,            \* bound: the sequence timeout of the server, later than all others
    LaterRequests,      \* bound: what the vehicle sends after the deviation, but for the request itself
    MaxOnItsWay,        \* bound: the changes of the control pilot that are on their way at a time
    MaxB,               \* bound: the units in which the vehicle enters state B, or the test has
                        \* noted one, after a response that the test is about, except in
    NoStateB,           \* the tests for which it neither enters nor leaves it, and
    OneStateB           \* those for which it enters it in one unit

ASSUME TimeAssumption ==
    /\ {SetupTimeout, DetailTimeout, DemandTimeout, StateBTimeout, TcpTimeout, OngoingTimeout,
        MaxTime} \subseteq Nat \ {0}
    /\ StateBTimeout < TcpTimeout
    /\ OngoingTimeout + TcpTimeout < MaxTime
    /\ MaxOnItsWay \in Nat /\ MaxB \in Nat

VARIABLES
    test,                   \* the test case, and
    protocol,               \* the protocol that the vehicle has chosen
    terminate_connection_on_failed_response,
    session,                \* "open", "closing" or "closed"
    state,                  \* the request that is expected (ctx->state)
    last_v2g_msg,
    is_connection_terminated,
    force_next_connection_req_res,
    pilot,                  \* the control pilot: "B", or "C" for all others
    on_its_way,             \* how many of its changes have not arrived
    cp_state,               \* test_data.cp_state: "B", or "C" for all others
    bsp_event,              \* the stamp of an event B that is being handled, or 0
    outcome,                \* test_data.outcome
    base,                   \* the fields of the test's TestBase
    clock,
    seen                    \* history: what the vehicle really did

config    == <<test, protocol, terminate_connection_on_failed_response>>
linkVars  == <<is_connection_terminated, force_next_connection_req_res>>
replyVars == <<session, state, last_v2g_msg>>
bspVars   == <<pilot, on_its_way, cp_state, bsp_event>>
testVars  == <<outcome, base>>

vars == <<config, linkVars, replyVars, bspVars, testVars, clock, seen>>

\* V2gMsgTypeId, as far as the vehicle's requests go
Msg == [SUPPORTED_APP_PROTOCOL |-> 0, SESSION_SETUP |-> 1, SERVICE_DISCOVERY |-> 2,
        SERVICE_DETAIL |-> 3, PAYMENT_SERVICE_SELECTION |-> 4, PAYMENT_DETAILS |-> 5,
        AUTHORIZATION |-> 6, CHARGE_PARAMETER_DISCOVERY |-> 7, CERTIFICATE_UPDATE |-> 9,
        CERTIFICATE_INSTALLATION |-> 10, CABLE_CHECK |-> 12, PRE_CHARGE |-> 13,
        POWER_DELIVERY |-> 14, CURRENT_DEMAND |-> 15, WELDING_DETECTION |-> 16,
        SESSION_STOP |-> 17, UNKNOWN |-> 18]

\* Bound: the requests that the vehicle sends; UNKNOWN is a message that is none.
Requests == {Msg[m] : m \in DOMAIN Msg \ {"SUPPORTED_APP_PROTOCOL", "PAYMENT_DETAILS",
                                           "CERTIFICATE_UPDATE"}}

\* The fields of the TestBase classes, under the names they share here: received, failed
\* and aborted are received_authorization, cable_check_failed, precharge_aborted...;
\* req_time and res_time are those of the request that the test is about.  The times
\* earliest and last_sequence, and first_time for the latest, are chn_cable_check_006's.
NewTest == [received |-> FALSE, failed |-> FALSE, extra |-> FALSE, aborted |-> FALSE,
            validate |-> FALSE, b_time |-> 0, first_time |-> 0, req_time |-> 0,
            res_time |-> 0, sequence_time |-> 0, stop_req_time |-> 0, stop_res_time |-> 0,
            earliest |-> 0, last_sequence |-> 0]

\* What the vehicle really did: when the first and the last response that the test is
\* about were sent; whether it was in state B then, whether a change of the control pilot
\* was on its way (sent), or a state B had a stamp but was not in cp_state (stamped); when
\* it entered state B after that, and whether such a change was on its way for long
\* (delayed); whether it went on sending requests, and when it stopped the session or
\* disconnected.
NotSeen == [first |-> 0, last |-> 0, was_b |-> FALSE, sent |-> FALSE, stamped |-> FALSE,
            b |-> {}, delayed |-> FALSE, talked |-> FALSE, stopped |-> 0]

EntriesOfB == CASE test \in NoStateB  -> 0
                [] test \in OneStateB -> 1
                [] OTHER              -> MaxB

Init ==
    /\ terminate_connection_on_failed_response \in BOOLEAN
    /\ session = "open" /\ state = Msg.SESSION_SETUP /\ last_v2g_msg = Msg.UNKNOWN
    /\ is_connection_terminated = FALSE /\ force_next_connection_req_res = FALSE
    /\ pilot \in {"B", "C"} /\ cp_state \in {"B", "C"} /\ bsp_event = 0
    /\ on_its_way \in 0..(IF EntriesOfB = 0 THEN 0 ELSE MaxOnItsWay)
    /\ (pilot = cp_state) = (on_its_way % 2 = 0)
    /\ outcome = "PreconditionsNotMet" /\ base = NewTest
    /\ clock = 1 /\ seen = NotSeen

-----------------------------------------------------------------------------
(***************************************************************************)
(* The base servers                                                        *)
(***************************************************************************)
\* din_states and iso_dc_states.  A state has the name of the request it waits for first;
\* WAIT_FOR_CURRENTDEMAND and WAIT_FOR_CURRENTDEMAND_POWERDELIVERY are one here.
InOrder(m) ==
    \/ m = state
    \/ m = Msg.PRE_CHARGE /\ state = Msg.POWER_DELIVERY
    \/ m = Msg.SERVICE_DETAIL /\ state = Msg.PAYMENT_SERVICE_SELECTION
    \/ m = Msg.POWER_DELIVERY /\ state = Msg.CURRENT_DEMAND
    \/ m = Msg.SESSION_STOP /\ state \notin {Msg.SESSION_SETUP, Msg.CURRENT_DEMAND, Msg.UNKNOWN}

\* What the handler of a request expects next.  Authorization, cable check and the charge
\* parameters of ISO 15118-2 may be ongoing; power delivery ends, or it starts or, in
\* ISO 15118-2, is negotiated anew, once there has been CurrentDemand.
NextStates(m) ==
    CASE m = Msg.SESSION_SETUP              -> {Msg.SERVICE_DISCOVERY}
      [] m = Msg.SERVICE_DISCOVERY          -> {Msg.PAYMENT_SERVICE_SELECTION}
      [] m = Msg.SERVICE_DETAIL             -> {Msg.PAYMENT_SERVICE_SELECTION}
      [] m = Msg.PAYMENT_SERVICE_SELECTION  -> {Msg.AUTHORIZATION}
      [] m = Msg.CERTIFICATE_INSTALLATION   -> {Msg.PAYMENT_DETAILS}
      [] m = Msg.AUTHORIZATION              -> {Msg.AUTHORIZATION, Msg.CHARGE_PARAMETER_DISCOVERY}
      [] m = Msg.CHARGE_PARAMETER_DISCOVERY ->
            {Msg.CABLE_CHECK} \union (IF protocol = "ISO" THEN {m} ELSE {})
      [] m = Msg.CABLE_CHECK                -> {Msg.CABLE_CHECK, Msg.PRE_CHARGE}
      [] m = Msg.PRE_CHARGE                 -> {Msg.POWER_DELIVERY}
      [] m = Msg.POWER_DELIVERY             ->
            {Msg.WELDING_DETECTION}
            \union (IF last_v2g_msg # Msg.CURRENT_DEMAND THEN {Msg.CURRENT_DEMAND}
                    ELSE IF protocol = "ISO" THEN {Msg.CHARGE_PARAMETER_DISCOVERY} ELSE {})
      [] m = Msg.CURRENT_DEMAND             -> {Msg.CURRENT_DEMAND}
      [] m = Msg.WELDING_DETECTION          -> {Msg.WELDING_DETECTION}

\* din_validate_response_code and iso_validate_response_code: whether the response is
\* good, and what the connection does then.  A request in order fails on its contents, an
\* unknown session or a stop of the session, too.
validate_response_code(m) ==
    {[ok    |-> ok,
      event |-> CASE is_connection_terminated -> "TERMINATE_CONNECTION"
                  [] ~is_connection_terminated /\ ~ok
                     /\ terminate_connection_on_failed_response -> "SEND_AND_TERMINATE"
                  [] OTHER -> "NO_EVENT"]
     : ok \in IF InOrder(m) \/ is_connection_terminated THEN BOOLEAN ELSE {FALSE}}

Succeeds(v) == v.ok /\ v.event = "NO_EVENT"

\* What is no request is ignored; DIN 70121 has no service details and no certificates.
Ignored(m) == \/ protocol = "DIN" /\ m \in {Msg.SERVICE_DETAIL, Msg.CERTIFICATE_INSTALLATION}
              \/ m = Msg.UNKNOWN

-----------------------------------------------------------------------------
(***************************************************************************)
(* handle_request, and the message loop around it                          *)
(***************************************************************************)
\* mutant: the next request is counted from the present one
Reply_Counted(sent, event, next) ==
    /\ session' = IF event \in {"SEND_AND_TERMINATE", "TERMINATE_CONNECTION"}
                  THEN "closing" ELSE "open"
    /\ last_v2g_msg' = IF event = "IGNORE_MSG" THEN last_v2g_msg ELSE sent
    /\ state' = state + 1

\* The server replies, or not; ctx->last_v2g_msg is what it has replied to.
Reply(sent, event, next) ==
    /\ session' = IF event \in {"SEND_AND_TERMINATE", "TERMINATE_CONNECTION"}
                  THEN "closing" ELSE "open"
    /\ last_v2g_msg' = IF event = "IGNORE_MSG" THEN last_v2g_msg ELSE sent
    /\ state' = next

\* A response that the test is about is sent: the first one, and the last one so far.  What
\* the vehicle did before no longer counts.
ResponseSent(first, time) ==
    [seen EXCEPT !.first = first, !.last = time, !.was_b = (pilot = "B"),
                 !.sent = on_its_way > 0, !.stamped = bsp_event > 0 /\ cp_state # "B",
                 !.b = {}, !.delayed = FALSE]

\* Bound: a response that takes no time is not sent in the unit in which a state B was
\* stamped, so that a stamp before a response is the earlier one.
StampsAreEarlier == bsp_event < clock /\ base.b_time < clock

\* The vehicle goes on talking after the response that should have made it stop.
Talks == seen' = [seen EXCEPT !.talked = @ \/ seen.last > 0]

\* handle_din_power_delivery ends a session in which power is to be delivered once more.
ChargesAgain(m) ==
    protocol = "DIN" /\ m = Msg.POWER_DELIVERY /\ last_v2g_msg = Msg.CURRENT_DEMAND

\* handle_iso_certificate_installation sends what the EVSE manager has answered as it is,
\* whether the request is in order or not, and even when the session is to end.
SentAsItIs(m) == m = Msg.CERTIFICATE_INSTALLATION /\ Reply(m, "NO_EVENT", Msg.PAYMENT_DETAILS)

\* A request that the test leaves to the base server
BaseHandles(m) ==
    /\ IF Ignored(m)
       THEN UNCHANGED replyVars
       ELSE \/ \E v \in validate_response_code(m), next \in NextStates(m) :
                   Reply(m, v.event, next)
            \/ ChargesAgain(m) /\ Reply(m, "SEND_AND_TERMINATE", Msg.WELDING_DETECTION)
            \/ SentAsItIs(m)
    /\ Talks
    /\ UNCHANGED <<linkVars, testVars, clock>>

\* A request that the test does not accept ends the connection, and the test has failed,
\* if it counts already.
UnexpectedRequest(counts) ==
    /\ base' = [base EXCEPT !.extra = @ \/ counts]
    /\ outcome' = IF counts THEN "PassCriteriaNotMet" ELSE outcome
    /\ session' = "closing"
    /\ Talks
    /\ UNCHANGED <<linkVars, state, last_v2g_msg, clock>>

\* SessionStop ends the connection in any case; the test takes its times, or not.
HandleSessionStop(takes_times) ==
    /\ Reply(Msg.SESSION_STOP, "SEND_AND_TERMINATE", Msg.UNKNOWN)
    /\ base' = IF takes_times
               THEN [base EXCEPT !.stop_req_time = clock, !.stop_res_time = clock] ELSE base
    /\ seen' = [seen EXCEPT !.stopped = clock]
    /\ UNCHANGED <<linkVars, outcome, clock>>

\* What the vehicle sends.  Bound: not everything after the response that the test is about.
Sent(request) ==
    IF seen.last = 0 THEN Requests ELSE {m \in Requests : m = request \/ m \in LaterRequests}

\* The server of a test: what it accepts, whether anything else counts, the request whose
\* handler it overrides, that handler, and the one of SessionStop.
CountingServer(accepted, counts, overridden, handler, session_stop) ==
    /\ session = "open" /\ clock < MaxTime
    /\ \E m \in Sent(overridden) :
           IF m \notin accepted THEN UnexpectedRequest(counts)
           ELSE CASE m = overridden       -> handler
                  [] m = Msg.SESSION_STOP -> session_stop
                  [] OTHER                -> BaseHandles(m)
    /\ UNCHANGED <<config, bspVars>>

TestServer(accepted, overridden, handler, session_stop) ==
    CountingServer(accepted, TRUE, overridden, handler, session_stop)

-----------------------------------------------------------------------------
(***************************************************************************)
(* The verdict                                                             *)
(***************************************************************************)
\* mutant: any state B before the end will do
StateBMissed_AnyTime(from, to) == base.validate /\ (base.b_time = 0 \/ to < base.b_time)

\* The vehicle was not in state B, and did not enter it between the two times.
StateBMissed(from, to) == base.validate /\ (base.b_time < from \/ to < base.b_time)

StopLate(from) == base.stop_req_time > 0 /\ base.stop_req_time - from > TcpTimeout

CloseLate(from) ==
    clock - (IF base.stop_res_time = 0 THEN from ELSE base.stop_res_time) > TcpTimeout

Verdict(preconditions, criteria) ==
    CASE ~preconditions              -> "PreconditionsNotMet"
      [] preconditions /\ criteria   -> "PassCriteriaMet"
      [] preconditions /\ ~criteria  -> "PassCriteriaNotMet"

-----------------------------------------------------------------------------
(***************************************************************************)
(* What happens around the requests                                        *)
(***************************************************************************)
\* The vehicle enters state B, or leaves it, and this is published.  Bound: only after the
\* response that the test is about; before it, what Init has on its way is enough.
PilotChanges ==
    /\ session = "open" /\ seen.last > 0
    /\ on_its_way < MaxOnItsWay /\ on_its_way' = on_its_way + 1
    /\ UNCHANGED <<config, linkVars, replyVars, cp_state, bsp_event, testVars, clock>>

VehicleEntersB ==
    /\ pilot = "C" /\ pilot' = "B"
    /\ Cardinality(seen.b \union ({base.b_time} \ {0})) < EntriesOfB
    /\ seen' = [seen EXCEPT !.b = @ \union {clock}]
    /\ PilotChanges

VehicleLeavesB == pilot = "B" /\ pilot' = "C" /\ UNCHANGED seen /\ PilotChanges

\* The change that the server has not heard of yet
Arrives == session = "open" /\ on_its_way > 0 /\ bsp_event = 0 /\ on_its_way' = on_its_way - 1

\* State B arrives at the subscription of the board support events, and is stamped.
BspEventArrives ==
    /\ Arrives /\ cp_state # "B"
    /\ bsp_event' = clock
    /\ UNCHANGED <<config, linkVars, replyVars, pilot, cp_state, testVars, clock, seen>>

\* It is entered into cp_state.
BspEventUpdates ==
    /\ session = "open" /\ bsp_event > 0 /\ cp_state # "B"
    /\ cp_state' = "B"
    /\ UNCHANGED <<config, linkVars, replyVars, pilot, on_its_way, bsp_event, testVars, clock,
                   seen>>

\* mutant: the time of the handler, instead of the event's
BspEventB_OnArrival(takes_time) ==
    /\ session = "open" /\ bsp_event > 0 /\ cp_state = "B"
    /\ bsp_event' = 0
    /\ base' = IF takes_time THEN [base EXCEPT !.b_time = clock] ELSE base
    /\ UNCHANGED <<config, linkVars, replyVars, pilot, on_its_way, cp_state, outcome, clock, seen>>

\* The test is told of it, and takes its time always or only once it has to validate.
BspEventB(takes_time) ==
    /\ session = "open" /\ bsp_event > 0 /\ cp_state = "B"
    /\ bsp_event' = 0
    /\ base' = IF takes_time THEN [base EXCEPT !.b_time = bsp_event] ELSE base
    /\ UNCHANGED <<config, linkVars, replyVars, pilot, on_its_way, cp_state, outcome, clock, seen>>

\* The end of state B arrives.  No test takes that time.
BspEventOther ==
    /\ Arrives /\ cp_state = "B"
    /\ cp_state' = "C"
    /\ UNCHANGED <<config, linkVars, replyVars, pilot, bsp_event, testVars, clock, seen>>

\* A state B of which the server does not know
EntryOnItsWay == on_its_way > (IF pilot = "B" THEN 0 ELSE 1)

\* Reading ends when the data link has gone, unless it is forced.  Bound: at once.
MayRead == is_connection_terminated => force_next_connection_req_res

\* Bound: time passes only while the test can still have a verdict.
Tick ==
    /\ MayRead
    /\ session = "open" /\ (seen.first > 0 \/ base.earliest > 0) /\ ~base.failed
    /\ clock < MaxTime
    /\ clock' = clock + 1
    /\ seen' = [seen EXCEPT !.delayed = @ \/ (seen.last > 0 /\ EntryOnItsWay)]
    /\ UNCHANGED <<config, linkVars, replyVars, bspVars, testVars>>

\* The vehicle closes its connection.
VehicleCloses ==
    /\ session = "open" /\ session' = "closing"
    /\ seen' = [seen EXCEPT !.stopped = clock]
    /\ UNCHANGED <<config, linkVars, state, last_v2g_msg, bspVars, testVars, clock>>

\* No request came within the sequence timeout, or the data link has gone and reading is
\* not forced.
ReadFails ==
    /\ session = "open" /\ session' = "closing"
    /\ clock = MaxTime \/ ~MayRead
    /\ UNCHANGED <<config, linkVars, state, last_v2g_msg, bspVars, testVars, clock, seen>>

\* handle_dlink_ready(false)
DlinkTerminated ==
    /\ session = "open" /\ ~is_connection_terminated
    /\ is_connection_terminated' = TRUE
    /\ UNCHANGED <<config, force_next_connection_req_res, replyVars, bspVars, testVars,
                   clock, seen>>

\* dispatch_connection_close_event, and the result is published.
ConnectionClose(verdict) ==
    /\ session = "closing" /\ session' = "closed"
    /\ outcome' = verdict
    /\ UNCHANGED <<config, linkVars, state, last_v2g_msg, bspVars, base, clock, seen>>

\* Bound: when reading is not forced, the data link goes only before the response that the
\* test is about, or as soon as it was sent.
DlinkMatters == seen.last \in {0, clock} \/ force_next_connection_req_res

Environment ==
    \/ VehicleEntersB \/ VehicleLeavesB \/ BspEventArrives \/ BspEventUpdates \/ BspEventOther
    \/ Tick \/ VehicleCloses \/ ReadFails
    \/ (DlinkMatters /\ DlinkTerminated)
=============================================================================
