----------------------------- MODULE TestCases ------------------------------
(***************************************************************************)
(* The test cases of ResponseTests, OngoingTests, StateFTests and          *)
(* WeldingTest, one session with a vehicle that may do anything, and what  *)
(* their verdicts are worth.                                               *)
(***************************************************************************)
EXTENDS ResponseTests, OngoingTests, StateFTests, WeldingTest

CONSTANT Tests      \* the test cases to check

ResponseTestNames == {"authorization_004", "service_discovery_008",
                      "service_detail_payment_selection_003", "cablecheck_007",
                      "charge_parameter_discovery_002", "session_setup_004",
                      "service_detail_011", "service_detail_013", "current_demand_002",
                      "current_demand_005"}

OngoingTestNames == {"authorization_009", "precharge_006", "cable_check_006"}

StateFTestNames == {"session_setup_007", "service_detail_payment_selection_012",
                    "current_demand_007"}

ASSUME TestsAssumption == Tests \subseteq ResponseTestNames \union OngoingTestNames
                                          \union StateFTestNames
                                          \union {"welding_session_stop_001"}

\* v2g_create_din_server, v2g_create_iso_server
Protocols(t) == CASE t = "authorization_009" -> {"DIN"}
                  [] t \in {"service_detail_011", "service_detail_013"} -> {"ISO"}
                  [] OTHER -> {"DIN", "ISO"}

TestInit == test \in Tests /\ protocol \in Protocols(test) /\ Init

TakesBTime ==
    CASE test = "authorization_004" -> authorization_004_takes_b_time
      [] test = "service_discovery_008" -> service_discovery_008_takes_b_time
      [] test = "service_detail_payment_selection_003" ->
            service_detail_payment_selection_003_takes_b_time
      [] test = "cablecheck_007" -> cablecheck_007_takes_b_time
      [] test = "charge_parameter_discovery_002" -> charge_parameter_discovery_002_takes_b_time
      [] test = "session_setup_004" -> session_setup_004_takes_b_time
      [] test = "service_detail_011" -> service_detail_011_takes_b_time
      [] test = "service_detail_013" -> service_detail_013_takes_b_time
      [] test = "current_demand_002" -> current_demand_002_takes_b_time
      [] test = "current_demand_005" -> current_demand_005_takes_b_time
      [] test = "welding_session_stop_001" -> welding_session_stop_001_takes_b_time
      [] test = "authorization_009" -> authorization_009_takes_b_time
      [] test = "precharge_006" -> precharge_006_takes_b_time
      [] test = "cable_check_006" -> cable_check_006_takes_b_time
      [] test \in StateFTestNames -> FALSE

TestVerdict ==
    CASE test = "authorization_004" -> authorization_004_verdict
      [] test = "service_discovery_008" -> service_discovery_008_verdict
      [] test = "service_detail_payment_selection_003" ->
            service_detail_payment_selection_003_verdict
      [] test = "cablecheck_007" -> cablecheck_007_verdict
      [] test = "charge_parameter_discovery_002" -> charge_parameter_discovery_002_verdict
      [] test = "session_setup_004" -> session_setup_004_verdict
      [] test = "service_detail_011" -> service_detail_011_verdict
      [] test = "service_detail_013" -> service_detail_013_verdict
      [] test = "current_demand_002" -> current_demand_002_verdict
      [] test = "current_demand_005" -> current_demand_005_verdict
      [] test = "welding_session_stop_001" -> welding_session_stop_001_verdict
      [] test = "authorization_009" -> authorization_009_verdict
      [] test = "precharge_006" -> precharge_006_verdict
      [] test = "cable_check_006" -> cable_check_006_verdict
      [] test = "session_setup_007" -> session_setup_007_verdict
      [] test = "service_detail_payment_selection_012" ->
            service_detail_payment_selection_012_verdict
      [] test = "current_demand_007" -> current_demand_007_verdict

HandleRequest ==
    \/ authorization_004 \/ service_discovery_008 \/ service_detail_payment_selection_003
    \/ cablecheck_007 \/ charge_parameter_discovery_002 \/ session_setup_004
    \/ service_detail_011 \/ service_detail_013 \/ current_demand_002
    \/ current_demand_005 \/ welding_session_stop_001 \/ authorization_009 \/ precharge_006
    \/ cable_check_006
    \/ session_setup_007 \/ service_detail_payment_selection_012 \/ current_demand_007

Next == HandleRequest \/ BspEventB(TakesBTime) \/ ConnectionClose(TestVerdict) \/ Environment

Spec == TestInit /\ [][Next]_vars

-----------------------------------------------------------------------------
(***************************************************************************)
(* Properties                                                              *)
(***************************************************************************)
Times == 0..MaxTime

TypeOK ==
    /\ test \in Tests /\ protocol \in {"DIN", "ISO"}
    /\ terminate_connection_on_failed_response \in BOOLEAN
    /\ session \in {"open", "closing", "closed"}
    /\ state \in {Msg[m] : m \in DOMAIN Msg} /\ last_v2g_msg \in Requests
    /\ is_connection_terminated \in BOOLEAN /\ force_next_connection_req_res \in BOOLEAN
    /\ pilot \in {"B", "C"} /\ on_its_way \in 0..MaxOnItsWay
    /\ cp_state \in {"B", "C"} /\ bsp_event \in Times
    /\ outcome \in {"PreconditionsNotMet", "PassCriteriaMet", "PassCriteriaNotMet"}
    /\ base \in [received : BOOLEAN, failed : BOOLEAN, extra : BOOLEAN, aborted : BOOLEAN,
                 validate : BOOLEAN, b_time : Times, first_time : Times, req_time : Times,
                 res_time : Times, sequence_time : Times, stop_req_time : Times,
                 stop_res_time : Times, earliest : Times, last_sequence : Times]
    /\ clock \in Times
    /\ seen \in [first : Times, last : Times, was_b : BOOLEAN, sent : BOOLEAN, stamped : BOOLEAN,
                 b : SUBSET Times, delayed : BOOLEAN, talked : BOOLEAN, stopped : Times]

Judged(verdict) == session = "closed" /\ outcome = verdict

\* When the vehicle's timers start: at the deviation, or when it should have given up
\* waiting for a response
Reference == CASE test = "session_setup_004"  -> seen.first + SetupTimeout
               [] test = "service_detail_011" -> seen.first + DetailTimeout
               [] test = "current_demand_005" -> seen.first + DemandTimeout
               [] OTHER                       -> seen.last

\* The vehicle entered state B in time, or was in it already.
EntersBInTime == seen.b \intersect (Reference..Reference + StateBTimeout) # {}

EnteredB == seen.was_b \/ EntersBInTime

\* It entered state B, or once more, too late.
LateStateB == \E time \in seen.b : time > Reference + StateBTimeout

\* The server has not heard of a state B, or only when time had passed.
Unheard == EntryOnItsWay \/ bsp_event > 0 \/ seen.delayed

\* It stopped the session, or closed the connection, in time.
EndedInTime == seen.stopped \in Reference..Reference + TcpTimeout

\* A vehicle passes or fails only when the deviation took place: a session that did not
\* get so far, or that failed on something else, is inconclusive.  chn_cable_check_006 may
\* give up on a vehicle that is late with its first CableCheck.
VerdictNeedsDeviation ==
    session = "closed" /\ outcome # "PreconditionsNotMet"
    => seen.last > 0 \/ (test = "cable_check_006" /\ base.aborted)

\* A vehicle that passes really was in state B in time, although each change of the control
\* pilot arrives late and is handled in another thread, and the test asks for them only
\* sometimes.  It may also have left state B by the response, or have been there before, as
\* long as a change was still on its way then: the server cannot know that.  Where the
\* vehicle's time starts later than the response, a state B before it may be stamped after
\* its start, when time has passed on the way.  chn_cable_check_006 is left out: it
\* takes any state B since the cable check has begun.
PassMeansStateB ==
    /\ Judged("PassCriteriaMet") /\ test \notin StateFTestNames \union {"cable_check_006"}
    => EnteredB \/ seen.sent \/ (seen.delayed /\ Reference # seen.last)

\* A vehicle that passes and ended the session itself did so in time.  Five tests are left
\* out: at SessionStop they start their clock anew without having looked at it, or they
\* allow for the longest time between two requests, too.
PassMeansEnd ==
    /\ Judged("PassCriteriaMet") /\ seen.stopped > 0
    /\ test \notin {"service_discovery_008", "cablecheck_007", "current_demand_002",
                    "welding_session_stop_001", "cable_check_006"}
    => EndedInTime

\* A vehicle that goes on with the session after the deviation does not pass, in the tests
\* that let nothing but SessionStop through then, and in the one whose request cannot be
\* repeated.
TalkerNeverPasses ==
    /\ test \in {"authorization_004", "cablecheck_007", "charge_parameter_discovery_002",
                 "session_setup_004", "current_demand_002", "current_demand_005"}
    /\ seen.talked
    => ~Judged("PassCriteriaMet")

\* What it takes to pass: state B and the end of the session, each in time, and silence.
PassIsDeserved == PassMeansStateB /\ PassMeansEnd /\ TalkerNeverPasses

\* A vehicle that reacts to the deviation as it should does not fail: it stays silent,
\* ends the session in time and, unless the deviation is state F, before that enters
\* state B once, in time, and is heard before any time has passed.  One that was there
\* before is not asked for it only if the server knew of it, in cp_state: what was on its
\* way then, or stamped but not yet entered, counts as too early.
FailIsDeserved ==
    /\ Judged("PassCriteriaNotMet") /\ test \in ResponseTestNames \union StateFTestNames
    => \/ seen.talked \/ ~EndedInTime
       \/ /\ test \in ResponseTestNames
          /\ \/ ~EnteredB \/ LateStateB \/ Unheard \/ seen.stamped
             \/ seen.sent /\ Reference # seen.last

\* "Validate the control pilot state 'B' started before the timeout period measured from
\* the time the last AuthorizationRes message was sent" (chn_authorization_009.cpp:74-75): a
\* vehicle that gives up in time, enters state B in time and is heard, and only then ends
\* the session, in time, does not fail.
OngoingFailIsDeserved ==
    /\ Judged("PassCriteriaNotMet") /\ test = "authorization_009"
    => \/ base.extra \/ base.aborted \/ ~GaveUpInTime
       \/ ~EntersBInTime \/ ~EndedInTime \/ LateStateB \/ Unheard \/ seen.stamped

\* When failed responses end the connection, a vehicle is told "ongoing" no longer than
\* its own timeout and the time that it needs to end the session, although handlers start
\* the timer anew after other requests.
OngoingEnds ==
    /\ test \in OngoingTestNames /\ terminate_connection_on_failed_response /\ seen.first > 0
    => seen.last <= seen.first + OngoingTimeout + TcpTimeout
=============================================================================
