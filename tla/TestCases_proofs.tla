-------------------------- MODULE TestCases_proofs ---------------------------
(***************************************************************************)
(* Theorems of TestCases, for any times that the tests allow the vehicle   *)
(* and any selection of tests.                                             *)
(*                                                                         *)
(* handle_request is first reduced to the few things that a test's server  *)
(* can do with a request.  What the test has noted is then related to what *)
(* the vehicle did (one invariant for each kind of test), and the verdict, *)
(* which nothing follows, is read from it.                                 *)
(***************************************************************************)
EXTENDS TestCases, TLAPS

-----------------------------------------------------------------------------
(***************************************************************************)
(* Messages                                                                *)
(***************************************************************************)
Ids == {Msg[m] : m \in DOMAIN Msg}

LEMMA Numbers ==
    /\ Msg.SUPPORTED_APP_PROTOCOL = 0 /\ Msg.SESSION_SETUP = 1 /\ Msg.SERVICE_DISCOVERY = 2
    /\ Msg.SERVICE_DETAIL = 3 /\ Msg.PAYMENT_SERVICE_SELECTION = 4 /\ Msg.PAYMENT_DETAILS = 5
    /\ Msg.AUTHORIZATION = 6 /\ Msg.CHARGE_PARAMETER_DISCOVERY = 7
    /\ Msg.CERTIFICATE_UPDATE = 9 /\ Msg.CERTIFICATE_INSTALLATION = 10
    /\ Msg.CABLE_CHECK = 12 /\ Msg.PRE_CHARGE = 13 /\ Msg.POWER_DELIVERY = 14
    /\ Msg.CURRENT_DEMAND = 15 /\ Msg.WELDING_DETECTION = 16 /\ Msg.SESSION_STOP = 17
    /\ Msg.UNKNOWN = 18
  BY DEF Msg

LEMMA IdNumbers == Ids = {0, 1, 2, 3, 4, 5, 6, 7, 9, 10, 12, 13, 14, 15, 16, 17, 18}
  BY DEF Ids, Msg

LEMMA RequestNumbers == Requests = {1, 2, 3, 4, 6, 7, 10, 12, 13, 14, 15, 16, 17, 18}
  BY DEF Requests, Msg

\* What the base server has a handler for, other than SessionStop
Handled == Requests \ {Msg.SESSION_STOP, Msg.UNKNOWN}

\* No handler waits for a SessionSetup.
LEMMA NextStatesAreIds ==
    ASSUME NEW m \in Handled
    PROVE  NextStates(m) \subseteq Ids \ {Msg.SESSION_SETUP}
  BY Numbers, IdNumbers, RequestNumbers DEF Handled, NextStates

Events == {"NO_EVENT", "SEND_AND_TERMINATE", "TERMINATE_CONNECTION"}

\* A response that is not good does not leave the connection open, if failed responses end it.
LEMMA Responses ==
    ASSUME NEW m, NEW v \in validate_response_code(m)
    PROVE  /\ v \in [ok : BOOLEAN, event : Events]
           /\ v.event = "NO_EVENT" /\ terminate_connection_on_failed_response =>
                 v.ok /\ InOrder(m)
           /\ Succeeds(v) => InOrder(m)
           /\ v.event = "NO_EVENT" => ~is_connection_terminated
  <1>1. PICK ok \in BOOLEAN :
          /\ ok => InOrder(m) \/ is_connection_terminated
          /\ v = [ok    |-> ok,
                  event |-> CASE is_connection_terminated -> "TERMINATE_CONNECTION"
                              [] ~is_connection_terminated /\ ~ok
                                 /\ terminate_connection_on_failed_response -> "SEND_AND_TERMINATE"
                              [] OTHER -> "NO_EVENT"]
    BY DEF validate_response_code
  <1>2. v.ok = ok
    BY <1>1
  <1>3. CASE is_connection_terminated
    BY <1>1, <1>2, <1>3 DEF Events, Succeeds
  <1>4. CASE ~is_connection_terminated /\ ~ok /\ terminate_connection_on_failed_response
    BY <1>1, <1>2, <1>4 DEF Events, Succeeds
  <1>5. CASE ~is_connection_terminated /\ (ok \/ ~terminate_connection_on_failed_response)
    BY <1>1, <1>2, <1>5 DEF Events, Succeeds
  <1>6. QED
    BY <1>3, <1>4, <1>5

-----------------------------------------------------------------------------
(***************************************************************************)
(* What the server of a test can do with a request                         *)
(***************************************************************************)
InSession == session = "open" /\ clock < MaxTime /\ UNCHANGED <<config, bspVars>>

TalkerTests == {"authorization_004", "cablecheck_007", "charge_parameter_discovery_002",
                "session_setup_004", "current_demand_002", "current_demand_005"}

\* After the deviation these tests let nothing through, or only what cannot succeed.
Silenced == test \in TalkerTests \ {"session_setup_004"} => ~base.received

Deviates ==
    \E request \in Handled, sent \in Requests, event \in {"NO_EVENT", "IGNORE_MSG"},
       forced \in BOOLEAN, failing \in SUBSET Requests :
        /\ test = "session_setup_004" => request = Msg.SESSION_SETUP
        /\ Deviate(request, sent, event, forced, failing)

ResponseStep ==
    /\ InSession
    /\ \/ \E counts \in BOOLEAN : (test \in TalkerTests => counts) /\ UnexpectedRequest(counts)
       \/ \E m \in Requests \ {Msg.SESSION_STOP} : BaseHandles(m) /\ test # "session_setup_004" /\ Silenced
       \/ \E takes_times \in BOOLEAN : HandleSessionStop(takes_times)
       \/ Deviates /\ Silenced

\* The handler of a request whose response never comes to an end
OngoingStep(request, next) ==
    /\ InSession /\ ~base.failed
    /\ \/ UnexpectedRequest(TRUE)
       \/ \E m \in {n \in Requests : n < request} : BaseHandles(m)
       \/ \E takes_times \in BOOLEAN : HandleSessionStop(takes_times)
       \/ \E v \in validate_response_code(request), last_time \in {clock, base.req_time},
             validate \in {base.validate \/ cp_state # "B", cp_state # "B"} :
             Answer(request, v, next, Repeated(request, last_time), validate)

CableCheckStep ==
    /\ InSession /\ ~base.failed
    /\ \/ cable_check_006_unexpected_request \/ cable_check_006_cable_check
       \/ cable_check_006_charge_parameter \/ HandleSessionStop(base.received)
       \/ \E m \in {n \in Requests : n < Msg.CABLE_CHECK} : BaseHandles(m)

SignalsStateF ==
    \E request \in Handled :
        \/ /\ test # "service_detail_payment_selection_012"
           /\ \/ SignalStateF(request, {"signalled", "stopped"}, base.failed)
              \/ SignalStateF(request, {"signalled", "stopped"}, FALSE)
        \/ /\ test = "service_detail_payment_selection_012"
           /\ SignalStateF(request, {"signalled", "stopped", "missed"}, base.failed)

StateFStep ==
    /\ InSession
    /\ \/ UnexpectedRequest(TRUE) \/ HandleSessionStop(FALSE) \/ SignalsStateF
       \/ \E m \in Requests \ {Msg.SESSION_STOP} : BaseHandles(m)

WeldingStep ==
    /\ InSession
    /\ \/ welding_session_stop_001_current_demand
       \/ welding_session_stop_001_din_power_delivery \/ welding_session_stop_001_iso_power_delivery
       \/ welding_session_stop_001_din_session_stop \/ welding_session_stop_001_iso_session_stop
       \/ \E m \in Handled : Handles(m, NextStates(m))
       \/ UNCHANGED <<linkVars, replyVars, testVars, clock, seen>>

\* The five kinds of deviation
LEMMA Deviations ==
    ASSUME NEW request \in Handled,
           test = "session_setup_004" => request = Msg.SESSION_SETUP,
           \/ FailedResponse(request) \/ UnforcedResponse(request) \/ SwappedResponse(request)
           \/ SwappedValidatedResponse(request) \/ NoResponse(request)
    PROVE  Deviates
  <1> DEFINE swapped == {request} \union IF InOrder(request) THEN {Msg.PAYMENT_SERVICE_SELECTION} ELSE {}
  <1>1. /\ request \in Requests /\ Msg.PAYMENT_SERVICE_SELECTION \in Requests
        /\ {request} \in SUBSET Requests /\ swapped \in SUBSET Requests
    BY Numbers, RequestNumbers DEF Handled
  <1>2. CASE FailedResponse(request)
    <2>1. Deviate(request, request, "NO_EVENT", TRUE, {request})
      BY <1>2 DEF FailedResponse
    <2>2. QED
      BY <1>1, <2>1 DEF Deviates
  <1>3. CASE UnforcedResponse(request)
    <2>1. Deviate(request, request, "NO_EVENT", FALSE, {request})
      BY <1>3 DEF UnforcedResponse
    <2>2. QED
      BY <1>1, <2>1 DEF Deviates
  <1>4. CASE SwappedResponse(request)
    <2>1. Deviate(request, Msg.PAYMENT_SERVICE_SELECTION, "NO_EVENT", FALSE, {request})
      BY <1>4 DEF SwappedResponse
    <2>2. QED
      BY <1>1, <2>1 DEF Deviates
  <1>5. CASE SwappedValidatedResponse(request)
    <2>1. Deviate(request, Msg.PAYMENT_SERVICE_SELECTION, "NO_EVENT", FALSE, swapped)
      BY <1>5 DEF SwappedValidatedResponse
    <2> HIDE DEF swapped
    <2>2. QED
      BY <1>1, <2>1 DEF Deviates
  <1>6. CASE NoResponse(request)
    <2>1. Deviate(request, request, "IGNORE_MSG", FALSE, {request})
      BY <1>6 DEF NoResponse
    <2>2. QED
      BY <1>1, <2>1 DEF Deviates
  <1>7. QED
    BY <1>2, <1>3, <1>4, <1>5, <1>6

LEMMA SentAreRequests == \A request : Sent(request) \subseteq Requests
  BY DEF Sent

\* CountingServer, with its IFs taken apart
Serves(accepted, counts, overridden, handler, session_stop) ==
    /\ InSession
    /\ \/ UnexpectedRequest(counts)
       \/ overridden \in accepted /\ handler
       \/ session_stop
       \/ \E m \in accepted \ {overridden, Msg.SESSION_STOP} : m \in Requests /\ BaseHandles(m)

LEMMA Authorization004 ==
    ASSUME base.received \in BOOLEAN, base.failed \in BOOLEAN, authorization_004
    PROVE  ResponseStep /\ test = "authorization_004"
  <1> USE Numbers, RequestNumbers DEF Handled
  <1>1. CASE protocol = "DIN"
    <2>1. /\ test = "authorization_004"
          /\ Serves(authorization_004_din_accepts, TRUE, Msg.AUTHORIZATION,
                    authorization_004_din_contract_authentication,
                    authorization_004_din_session_stop)
      BY <1>1, SentAreRequests DEF authorization_004, TestServer, CountingServer, Serves, InSession
    <2>2. \A m \in authorization_004_din_accepts \ {Msg.SESSION_STOP} :
              Silenced /\ (test = "session_setup_004" => m = Msg.SESSION_SETUP)
      BY <2>1 DEF authorization_004_din_accepts, OnceUpTo, UpTo, Between, Certificates, Silenced, TalkerTests
    <2>3. Msg.AUTHORIZATION \in authorization_004_din_accepts /\ authorization_004_din_contract_authentication
          => Deviates /\ Silenced
      BY <2>1, <2>2, Deviations DEF authorization_004_din_contract_authentication
    <2>4. QED
      BY <2>1, <2>2, <2>3
      DEF Serves, ResponseStep, TalkerTests, authorization_004_din_session_stop, Tested
  <1>2. CASE protocol = "ISO"
    <2>1. /\ test = "authorization_004"
          /\ Serves(authorization_004_iso_accepts, TRUE, Msg.AUTHORIZATION,
                    authorization_004_iso_authorization,
                    authorization_004_iso_session_stop)
      BY <1>2, SentAreRequests DEF authorization_004, TestServer, CountingServer, Serves, InSession
    <2>2. \A m \in authorization_004_iso_accepts \ {Msg.SESSION_STOP} :
              Silenced /\ (test = "session_setup_004" => m = Msg.SESSION_SETUP)
      BY <2>1 DEF authorization_004_iso_accepts, OnceUpTo, UpTo, Between, Certificates, Silenced, TalkerTests
    <2>3. Msg.AUTHORIZATION \in authorization_004_iso_accepts /\ authorization_004_iso_authorization
          => Deviates /\ Silenced
      BY <2>1, <2>2, Deviations DEF authorization_004_iso_authorization
    <2>4. QED
      BY <2>1, <2>2, <2>3
      DEF Serves, ResponseStep, TalkerTests, authorization_004_iso_session_stop, Tested
  <1>3. QED
    BY <1>1, <1>2 DEF authorization_004

LEMMA ServiceDiscovery008 ==
    ASSUME base.received \in BOOLEAN, base.failed \in BOOLEAN, service_discovery_008
    PROVE  ResponseStep /\ test = "service_discovery_008"
  <1> USE Numbers, RequestNumbers DEF Handled
  <1>1. CASE protocol = "DIN"
    <2>1. /\ test = "service_discovery_008"
          /\ Serves(service_discovery_008_din_accepts, TRUE, Msg.SERVICE_DISCOVERY,
                    service_discovery_008_din_service_discovery,
                    service_discovery_008_din_session_stop)
      BY <1>1, SentAreRequests DEF service_discovery_008, TestServer, CountingServer, Serves, InSession
    <2>2. \A m \in service_discovery_008_din_accepts \ {Msg.SESSION_STOP} :
              Silenced /\ (test = "session_setup_004" => m = Msg.SESSION_SETUP)
      BY <2>1 DEF service_discovery_008_din_accepts, OnceUpTo, UpTo, Between, Certificates, Silenced, TalkerTests
    <2>3. Msg.SERVICE_DISCOVERY \in service_discovery_008_din_accepts /\ service_discovery_008_din_service_discovery
          => Deviates /\ Silenced
      BY <2>1, <2>2, Deviations DEF service_discovery_008_din_service_discovery
    <2>4. QED
      BY <2>1, <2>2, <2>3
      DEF Serves, ResponseStep, TalkerTests, service_discovery_008_din_session_stop, Tested
  <1>2. CASE protocol = "ISO"
    <2>1. /\ test = "service_discovery_008"
          /\ Serves(service_discovery_008_iso_accepts, TRUE, Msg.SERVICE_DISCOVERY,
                    service_discovery_008_iso_service_discovery,
                    service_discovery_008_iso_session_stop)
      BY <1>2, SentAreRequests DEF service_discovery_008, TestServer, CountingServer, Serves, InSession
    <2>2. \A m \in service_discovery_008_iso_accepts \ {Msg.SESSION_STOP} :
              Silenced /\ (test = "session_setup_004" => m = Msg.SESSION_SETUP)
      BY <2>1 DEF service_discovery_008_iso_accepts, OnceUpTo, UpTo, Between, Certificates, Silenced, TalkerTests
    <2>3. Msg.SERVICE_DISCOVERY \in service_discovery_008_iso_accepts /\ service_discovery_008_iso_service_discovery
          => Deviates /\ Silenced
      BY <2>1, <2>2, Deviations DEF service_discovery_008_iso_service_discovery
    <2>4. QED
      BY <2>1, <2>2, <2>3
      DEF Serves, ResponseStep, TalkerTests, service_discovery_008_iso_session_stop, Tested
  <1>3. QED
    BY <1>1, <1>2 DEF service_discovery_008

LEMMA ServiceDetailPaymentSelection003 ==
    ASSUME base.received \in BOOLEAN, base.failed \in BOOLEAN, service_detail_payment_selection_003
    PROVE  ResponseStep /\ test = "service_detail_payment_selection_003"
  <1> USE Numbers, RequestNumbers DEF Handled
  <1>1. CASE protocol = "DIN"
    <2>1. /\ test = "service_detail_payment_selection_003"
          /\ Serves(service_detail_payment_selection_003_din_accepts, TRUE, Msg.PAYMENT_SERVICE_SELECTION,
                    service_detail_payment_selection_003_din_service_payment_selection,
                    service_detail_payment_selection_003_din_session_stop)
      BY <1>1, SentAreRequests DEF service_detail_payment_selection_003, TestServer, CountingServer, Serves, InSession
    <2>2. \A m \in service_detail_payment_selection_003_din_accepts \ {Msg.SESSION_STOP} :
              Silenced /\ (test = "session_setup_004" => m = Msg.SESSION_SETUP)
      BY <2>1 DEF service_detail_payment_selection_003_din_accepts, OnceUpTo, UpTo, Between, Certificates, Silenced, TalkerTests
    <2>3. Msg.PAYMENT_SERVICE_SELECTION \in service_detail_payment_selection_003_din_accepts /\ service_detail_payment_selection_003_din_service_payment_selection
          => Deviates /\ Silenced
      BY <2>1, <2>2, Deviations DEF service_detail_payment_selection_003_din_service_payment_selection
    <2>4. QED
      BY <2>1, <2>2, <2>3
      DEF Serves, ResponseStep, TalkerTests, service_detail_payment_selection_003_din_session_stop, Tested
  <1>2. CASE protocol = "ISO"
    <2>1. /\ test = "service_detail_payment_selection_003"
          /\ Serves(service_detail_payment_selection_003_iso_accepts, TRUE, Msg.PAYMENT_SERVICE_SELECTION,
                    service_detail_payment_selection_003_iso_payment_service_selection,
                    service_detail_payment_selection_003_iso_session_stop)
      BY <1>2, SentAreRequests DEF service_detail_payment_selection_003, TestServer, CountingServer, Serves, InSession
    <2>2. \A m \in service_detail_payment_selection_003_iso_accepts \ {Msg.SESSION_STOP} :
              Silenced /\ (test = "session_setup_004" => m = Msg.SESSION_SETUP)
      BY <2>1 DEF service_detail_payment_selection_003_iso_accepts, OnceUpTo, UpTo, Between, Certificates, Silenced, TalkerTests
    <2>3. Msg.PAYMENT_SERVICE_SELECTION \in service_detail_payment_selection_003_iso_accepts /\ service_detail_payment_selection_003_iso_payment_service_selection
          => Deviates /\ Silenced
      BY <2>1, <2>2, Deviations DEF service_detail_payment_selection_003_iso_payment_service_selection
    <2>4. QED
      BY <2>1, <2>2, <2>3
      DEF Serves, ResponseStep, TalkerTests, service_detail_payment_selection_003_iso_session_stop, Tested
  <1>3. QED
    BY <1>1, <1>2 DEF service_detail_payment_selection_003

LEMMA Cablecheck007 ==
    ASSUME base.received \in BOOLEAN, base.failed \in BOOLEAN, cablecheck_007
    PROVE  ResponseStep /\ test = "cablecheck_007"
  <1> USE Numbers, RequestNumbers DEF Handled
  <1>1. CASE protocol = "DIN"
    <2>1. /\ test = "cablecheck_007"
          /\ Serves(cablecheck_007_din_accepts, TRUE, Msg.CABLE_CHECK,
                    cablecheck_007_din_cable_check,
                    cablecheck_007_din_session_stop)
      BY <1>1, SentAreRequests DEF cablecheck_007, TestServer, CountingServer, Serves, InSession
    <2>2. \A m \in cablecheck_007_din_accepts \ {Msg.SESSION_STOP} :
              Silenced /\ (test = "session_setup_004" => m = Msg.SESSION_SETUP)
      BY <2>1 DEF cablecheck_007_din_accepts, OnceUpTo, UpTo, Between, Certificates, Silenced, TalkerTests
    <2>3. Msg.CABLE_CHECK \in cablecheck_007_din_accepts /\ cablecheck_007_din_cable_check
          => Deviates /\ Silenced
      BY <2>1, <2>2, Deviations DEF cablecheck_007_din_cable_check
    <2>4. QED
      BY <2>1, <2>2, <2>3
      DEF Serves, ResponseStep, TalkerTests, cablecheck_007_din_session_stop, Tested
  <1>2. CASE protocol = "ISO"
    <2>1. /\ test = "cablecheck_007"
          /\ Serves(cablecheck_007_iso_accepts, TRUE, Msg.CABLE_CHECK,
                    cablecheck_007_iso_cable_check,
                    cablecheck_007_iso_session_stop)
      BY <1>2, SentAreRequests DEF cablecheck_007, TestServer, CountingServer, Serves, InSession
    <2>2. \A m \in cablecheck_007_iso_accepts \ {Msg.SESSION_STOP} :
              Silenced /\ (test = "session_setup_004" => m = Msg.SESSION_SETUP)
      BY <2>1 DEF cablecheck_007_iso_accepts, OnceUpTo, UpTo, Between, Certificates, Silenced, TalkerTests
    <2>3. Msg.CABLE_CHECK \in cablecheck_007_iso_accepts /\ cablecheck_007_iso_cable_check
          => Deviates /\ Silenced
      BY <2>1, <2>2, Deviations DEF cablecheck_007_iso_cable_check
    <2>4. QED
      BY <2>1, <2>2, <2>3
      DEF Serves, ResponseStep, TalkerTests, cablecheck_007_iso_session_stop, Tested
  <1>3. QED
    BY <1>1, <1>2 DEF cablecheck_007

LEMMA ChargeParameterDiscovery002 ==
    ASSUME base.received \in BOOLEAN, base.failed \in BOOLEAN, charge_parameter_discovery_002
    PROVE  ResponseStep /\ test = "charge_parameter_discovery_002"
  <1> USE Numbers, RequestNumbers DEF Handled
  <1>1. CASE protocol = "DIN"
    <2>1. /\ test = "charge_parameter_discovery_002"
          /\ Serves(charge_parameter_discovery_002_din_accepts, TRUE, Msg.CHARGE_PARAMETER_DISCOVERY,
                    charge_parameter_discovery_002_din_charge_parameter,
                    charge_parameter_discovery_002_din_session_stop)
      BY <1>1, SentAreRequests DEF charge_parameter_discovery_002, TestServer, CountingServer, Serves, InSession
    <2>2. \A m \in charge_parameter_discovery_002_din_accepts \ {Msg.SESSION_STOP} :
              Silenced /\ (test = "session_setup_004" => m = Msg.SESSION_SETUP)
      BY <2>1 DEF charge_parameter_discovery_002_din_accepts, OnceUpTo, UpTo, Between, Certificates, Silenced, TalkerTests
    <2>3. Msg.CHARGE_PARAMETER_DISCOVERY \in charge_parameter_discovery_002_din_accepts /\ charge_parameter_discovery_002_din_charge_parameter
          => Deviates /\ Silenced
      BY <2>1, <2>2, Deviations DEF charge_parameter_discovery_002_din_charge_parameter
    <2>4. QED
      BY <2>1, <2>2, <2>3
      DEF Serves, ResponseStep, TalkerTests, charge_parameter_discovery_002_din_session_stop, Tested
  <1>2. CASE protocol = "ISO"
    <2>1. /\ test = "charge_parameter_discovery_002"
          /\ Serves(charge_parameter_discovery_002_iso_accepts, TRUE, Msg.CHARGE_PARAMETER_DISCOVERY,
                    charge_parameter_discovery_002_iso_charge_parameter_discovery,
                    charge_parameter_discovery_002_iso_session_stop)
      BY <1>2, SentAreRequests DEF charge_parameter_discovery_002, TestServer, CountingServer, Serves, InSession
    <2>2. \A m \in charge_parameter_discovery_002_iso_accepts \ {Msg.SESSION_STOP} :
              Silenced /\ (test = "session_setup_004" => m = Msg.SESSION_SETUP)
      BY <2>1 DEF charge_parameter_discovery_002_iso_accepts, OnceUpTo, UpTo, Between, Certificates, Silenced, TalkerTests
    <2>3. Msg.CHARGE_PARAMETER_DISCOVERY \in charge_parameter_discovery_002_iso_accepts /\ charge_parameter_discovery_002_iso_charge_parameter_discovery
          => Deviates /\ Silenced
      BY <2>1, <2>2, Deviations DEF charge_parameter_discovery_002_iso_charge_parameter_discovery
    <2>4. QED
      BY <2>1, <2>2, <2>3
      DEF Serves, ResponseStep, TalkerTests, charge_parameter_discovery_002_iso_session_stop, Tested
  <1>3. QED
    BY <1>1, <1>2 DEF charge_parameter_discovery_002

LEMMA SessionSetup004 ==
    ASSUME base.received \in BOOLEAN, base.failed \in BOOLEAN, session_setup_004
    PROVE  ResponseStep /\ test = "session_setup_004"
  <1> USE Numbers, RequestNumbers DEF Handled
  <1>1. CASE protocol = "DIN"
    <2>1. /\ test = "session_setup_004"
          /\ Serves(session_setup_004_din_accepts, TRUE, Msg.SESSION_SETUP,
                    session_setup_004_din_session_setup,
                    session_setup_004_din_session_stop)
      BY <1>1, SentAreRequests DEF session_setup_004, TestServer, CountingServer, Serves, InSession
    <2>2. \A m \in session_setup_004_din_accepts \ {Msg.SESSION_STOP} :
              Silenced /\ (test = "session_setup_004" => m = Msg.SESSION_SETUP)
      BY <2>1 DEF session_setup_004_din_accepts, OnceUpTo, UpTo, Between, Certificates, Silenced, TalkerTests
    <2>3. Msg.SESSION_SETUP \in session_setup_004_din_accepts /\ session_setup_004_din_session_setup
          => Deviates /\ Silenced
      BY <2>1, <2>2, Deviations DEF session_setup_004_din_session_setup
    <2>4. QED
      BY <2>1, <2>2, <2>3
      DEF Serves, ResponseStep, TalkerTests, session_setup_004_din_session_stop, Tested
  <1>2. CASE protocol = "ISO"
    <2>1. /\ test = "session_setup_004"
          /\ Serves(session_setup_004_iso_accepts, TRUE, Msg.SESSION_SETUP,
                    session_setup_004_iso_session_setup,
                    session_setup_004_iso_session_stop)
      BY <1>2, SentAreRequests DEF session_setup_004, TestServer, CountingServer, Serves, InSession
    <2>2. \A m \in session_setup_004_iso_accepts \ {Msg.SESSION_STOP} :
              Silenced /\ (test = "session_setup_004" => m = Msg.SESSION_SETUP)
      BY <2>1 DEF session_setup_004_iso_accepts, OnceUpTo, UpTo, Between, Certificates, Silenced, TalkerTests
    <2>3. Msg.SESSION_SETUP \in session_setup_004_iso_accepts /\ session_setup_004_iso_session_setup
          => Deviates /\ Silenced
      BY <2>1, <2>2, Deviations DEF session_setup_004_iso_session_setup
    <2>4. QED
      BY <2>1, <2>2, <2>3
      DEF Serves, ResponseStep, TalkerTests, session_setup_004_iso_session_stop, Tested
  <1>3. QED
    BY <1>1, <1>2 DEF session_setup_004

LEMMA ServiceDetail011 ==
    ASSUME base.received \in BOOLEAN, base.failed \in BOOLEAN, service_detail_011
    PROVE  ResponseStep /\ test = "service_detail_011"
  <1> USE Numbers, RequestNumbers DEF Handled
  <1>1. CASE protocol = "ISO"
    <2>1. /\ test = "service_detail_011"
          /\ Serves(service_detail_011_accepts, base.received, Msg.SERVICE_DETAIL,
                    service_detail_011_service_detail,
                    service_detail_011_session_stop)
      BY <1>1, SentAreRequests DEF service_detail_011, TestServer, CountingServer, Serves, InSession
    <2>2. \A m \in service_detail_011_accepts \ {Msg.SESSION_STOP} :
              Silenced /\ (test = "session_setup_004" => m = Msg.SESSION_SETUP)
      BY <2>1 DEF service_detail_011_accepts, OnceUpTo, UpTo, Between, Certificates, Silenced, TalkerTests
    <2>3. Msg.SERVICE_DETAIL \in service_detail_011_accepts /\ service_detail_011_service_detail
          => Deviates /\ Silenced
      BY <2>1, <2>2, Deviations DEF service_detail_011_service_detail
    <2>4. QED
      BY <2>1, <2>2, <2>3
      DEF Serves, ResponseStep, TalkerTests, service_detail_011_session_stop, Tested
  <1>2. QED
    BY <1>1 DEF service_detail_011

LEMMA ServiceDetail013 ==
    ASSUME base.received \in BOOLEAN, base.failed \in BOOLEAN, service_detail_013
    PROVE  ResponseStep /\ test = "service_detail_013"
  <1> USE Numbers, RequestNumbers DEF Handled
  <1>1. CASE protocol = "ISO"
    <2>1. /\ test = "service_detail_013"
          /\ Serves(service_detail_013_accepts, base.received, Msg.SERVICE_DETAIL,
                    service_detail_013_service_detail,
                    service_detail_013_session_stop)
      BY <1>1, SentAreRequests DEF service_detail_013, TestServer, CountingServer, Serves, InSession
    <2>2. \A m \in service_detail_013_accepts \ {Msg.SESSION_STOP} :
              Silenced /\ (test = "session_setup_004" => m = Msg.SESSION_SETUP)
      BY <2>1 DEF service_detail_013_accepts, OnceUpTo, UpTo, Between, Certificates, Silenced, TalkerTests
    <2>3. Msg.SERVICE_DETAIL \in service_detail_013_accepts /\ service_detail_013_service_detail
          => Deviates /\ Silenced
      BY <2>1, <2>2, Deviations DEF service_detail_013_service_detail
    <2>4. QED
      BY <2>1, <2>2, <2>3
      DEF Serves, ResponseStep, TalkerTests, service_detail_013_session_stop, Tested
  <1>2. QED
    BY <1>1 DEF service_detail_013

LEMMA CurrentDemand002 ==
    ASSUME base.received \in BOOLEAN, base.failed \in BOOLEAN, current_demand_002
    PROVE  ResponseStep /\ test = "current_demand_002"
  <1> USE Numbers, RequestNumbers DEF Handled
  <1>1. CASE protocol = "DIN"
    <2>1. /\ test = "current_demand_002"
          /\ Serves(current_demand_002_din_accepts, TRUE, Msg.CURRENT_DEMAND,
                    current_demand_002_din_current_demand,
                    current_demand_002_din_session_stop)
      BY <1>1, SentAreRequests DEF current_demand_002, TestServer, CountingServer, Serves, InSession
    <2>2. \A m \in current_demand_002_din_accepts \ {Msg.SESSION_STOP} :
              Silenced /\ (test = "session_setup_004" => m = Msg.SESSION_SETUP)
      BY <2>1 DEF current_demand_002_din_accepts, OnceUpTo, UpTo, Between, Certificates, Silenced, TalkerTests
    <2>3. Msg.CURRENT_DEMAND \in current_demand_002_din_accepts /\ current_demand_002_din_current_demand
          => Deviates /\ Silenced
      BY <2>1, <2>2, Deviations DEF current_demand_002_din_current_demand
    <2>4. QED
      BY <2>1, <2>2, <2>3
      DEF Serves, ResponseStep, TalkerTests, current_demand_002_din_session_stop, Tested
  <1>2. CASE protocol = "ISO"
    <2>1. /\ test = "current_demand_002"
          /\ Serves(current_demand_002_iso_accepts, TRUE, Msg.CURRENT_DEMAND,
                    current_demand_002_iso_current_demand,
                    current_demand_002_iso_session_stop)
      BY <1>2, SentAreRequests DEF current_demand_002, TestServer, CountingServer, Serves, InSession
    <2>2. \A m \in current_demand_002_iso_accepts \ {Msg.SESSION_STOP} :
              Silenced /\ (test = "session_setup_004" => m = Msg.SESSION_SETUP)
      BY <2>1 DEF current_demand_002_iso_accepts, OnceUpTo, UpTo, Between, Certificates, Silenced, TalkerTests
    <2>3. Msg.CURRENT_DEMAND \in current_demand_002_iso_accepts /\ current_demand_002_iso_current_demand
          => Deviates /\ Silenced
      BY <2>1, <2>2, Deviations DEF current_demand_002_iso_current_demand
    <2>4. QED
      BY <2>1, <2>2, <2>3
      DEF Serves, ResponseStep, TalkerTests, current_demand_002_iso_session_stop, Tested
  <1>3. QED
    BY <1>1, <1>2 DEF current_demand_002

LEMMA CurrentDemand005 ==
    ASSUME base.received \in BOOLEAN, base.failed \in BOOLEAN, current_demand_005
    PROVE  ResponseStep /\ test = "current_demand_005"
  <1> USE Numbers, RequestNumbers DEF Handled
  <1>1. CASE protocol = "DIN"
    <2>1. /\ test = "current_demand_005"
          /\ Serves(current_demand_005_din_accepts, TRUE, Msg.CURRENT_DEMAND,
                    current_demand_005_din_current_demand,
                    current_demand_005_din_session_stop)
      BY <1>1, SentAreRequests DEF current_demand_005, TestServer, CountingServer, Serves, InSession
    <2>2. \A m \in current_demand_005_din_accepts \ {Msg.SESSION_STOP} :
              Silenced /\ (test = "session_setup_004" => m = Msg.SESSION_SETUP)
      BY <2>1 DEF current_demand_005_din_accepts, OnceUpTo, UpTo, Between, Certificates, Silenced, TalkerTests
    <2>3. Msg.CURRENT_DEMAND \in current_demand_005_din_accepts /\ current_demand_005_din_current_demand
          => Deviates /\ Silenced
      BY <2>1, <2>2, Deviations DEF current_demand_005_din_current_demand
    <2>4. QED
      BY <2>1, <2>2, <2>3
      DEF Serves, ResponseStep, TalkerTests, current_demand_005_din_session_stop, Tested
  <1>2. CASE protocol = "ISO"
    <2>1. /\ test = "current_demand_005"
          /\ Serves(current_demand_005_iso_accepts, TRUE, Msg.CURRENT_DEMAND,
                    current_demand_005_iso_current_demand,
                    current_demand_005_iso_session_stop)
      BY <1>2, SentAreRequests DEF current_demand_005, TestServer, CountingServer, Serves, InSession
    <2>2. \A m \in current_demand_005_iso_accepts \ {Msg.SESSION_STOP} :
              Silenced /\ (test = "session_setup_004" => m = Msg.SESSION_SETUP)
      BY <2>1 DEF current_demand_005_iso_accepts, OnceUpTo, UpTo, Between, Certificates, Silenced, TalkerTests
    <2>3. Msg.CURRENT_DEMAND \in current_demand_005_iso_accepts /\ current_demand_005_iso_current_demand
          => Deviates /\ Silenced
      BY <2>1, <2>2, Deviations DEF current_demand_005_iso_current_demand
    <2>4. QED
      BY <2>1, <2>2, <2>3
      DEF Serves, ResponseStep, TalkerTests, current_demand_005_iso_session_stop, Tested
  <1>3. QED
    BY <1>1, <1>2 DEF current_demand_005

LEMMA Authorization009 ==
    ASSUME base.received \in BOOLEAN, authorization_009
    PROVE  OngoingStep(Msg.AUTHORIZATION, Msg.AUTHORIZATION) /\ test = "authorization_009"
  <1>1. CASE protocol = "DIN"
    <2>1. /\ test = "authorization_009" /\ ~base.failed
          /\ Serves(authorization_009_accepts, TRUE, Msg.AUTHORIZATION,
                    authorization_009_contract_authentication, authorization_009_session_stop)
      BY <1>1, SentAreRequests DEF authorization_009, TestServer, CountingServer, Serves, InSession
    <2>2. \A m \in authorization_009_accepts \ {Msg.AUTHORIZATION, Msg.SESSION_STOP} :
              m < Msg.AUTHORIZATION
      BY Numbers, RequestNumbers DEF authorization_009_accepts, GoodCase
    <2>3. ASSUME authorization_009_contract_authentication
          PROVE  OngoingStep(Msg.AUTHORIZATION, Msg.AUTHORIZATION)
      <3>1. PICK v \in validate_response_code(Msg.AUTHORIZATION) :
                Answer(Msg.AUTHORIZATION, v, Msg.AUTHORIZATION,
                       Repeated(Msg.AUTHORIZATION, clock), base.validate \/ cp_state # "B")
        BY <2>3 DEF authorization_009_contract_authentication
      <3>2. QED
        BY <2>1, <3>1 DEF OngoingStep, Serves
    <2>4. QED
      BY <2>1, <2>2, <2>3 DEF Serves, OngoingStep, authorization_009_session_stop
  <1>2. QED
    BY <1>1 DEF authorization_009

LEMMA Precharge006 ==
    ASSUME base.received \in BOOLEAN, precharge_006
    PROVE  OngoingStep(Msg.PRE_CHARGE, Msg.POWER_DELIVERY) /\ test = "precharge_006"
  <1> USE Numbers, RequestNumbers
  <1>1. CASE protocol = "DIN"
    <2>1. /\ test = "precharge_006" /\ ~base.failed
          /\ Serves(precharge_006_din_accepts, TRUE, Msg.PRE_CHARGE,
                    precharge_006_din_pre_charge, precharge_006_din_session_stop)
      BY <1>1, SentAreRequests DEF precharge_006, TestServer, CountingServer, Serves, InSession
    <2>2. \A m \in precharge_006_din_accepts \ {Msg.PRE_CHARGE, Msg.SESSION_STOP} :
              m < Msg.PRE_CHARGE
      BY DEF precharge_006_din_accepts, GoodCase
    <2>3. QED
      BY <2>1, <2>2
      DEF Serves, OngoingStep, precharge_006_din_pre_charge, precharge_006_din_session_stop
  <1>2. CASE protocol = "ISO"
    <2>1. /\ test = "precharge_006" /\ ~base.failed
          /\ Serves(precharge_006_iso_accepts, TRUE, Msg.PRE_CHARGE,
                    precharge_006_iso_pre_charge, precharge_006_iso_session_stop)
      BY <1>2, SentAreRequests DEF precharge_006, TestServer, CountingServer, Serves, InSession
    <2>2. \A m \in precharge_006_iso_accepts \ {Msg.PRE_CHARGE, Msg.SESSION_STOP} :
              m < Msg.PRE_CHARGE
      BY DEF precharge_006_iso_accepts, GoodCase
    <2>3. QED
      BY <2>1, <2>2
      DEF Serves, OngoingStep, precharge_006_iso_pre_charge, precharge_006_iso_session_stop
  <1>3. QED
    BY <1>1, <1>2 DEF precharge_006

LEMMA CableCheck006 ==
    ASSUME base.received \in BOOLEAN, cable_check_006
    PROVE  CableCheckStep /\ test = "cable_check_006"
  <1>1. /\ test = "cable_check_006" /\ ~base.failed /\ InSession
    BY DEF cable_check_006, InSession
  <1>2. PICK m \in cable_check_006_sent :
          IF m \notin cable_check_006_accepts THEN cable_check_006_unexpected_request
          ELSE CASE m = Msg.CABLE_CHECK                -> cable_check_006_cable_check
                 [] m = Msg.CHARGE_PARAMETER_DISCOVERY -> cable_check_006_charge_parameter
                 [] m = Msg.SESSION_STOP               -> cable_check_006_session_stop
                 [] OTHER                              -> BaseHandles(m)
    BY DEF cable_check_006
  <1>3. m \in cable_check_006_accepts \ {Msg.CABLE_CHECK, Msg.SESSION_STOP}
        => m \in Requests /\ m < Msg.CABLE_CHECK
    BY Numbers, RequestNumbers DEF cable_check_006_accepts, GoodCase
  <1>4. QED
    BY <1>1, <1>2, <1>3 DEF CableCheckStep, cable_check_006_session_stop

LEMMA SessionSetup007 ==
    ASSUME session_setup_007
    PROVE  StateFStep /\ test = "session_setup_007"
  <1> USE DEF SignalsStateF
  <1>1. CASE protocol = "DIN"
    <2>1. /\ test = "session_setup_007"
          /\ Serves(session_setup_007_din_accepts, TRUE, Msg.SESSION_SETUP,
                    session_setup_007_din_session_setup, FALSE)
      BY <1>1, SentAreRequests DEF session_setup_007, TestServer, CountingServer, Serves, InSession
    <2>2. Msg.SESSION_SETUP \in Handled
      BY Numbers, RequestNumbers DEF Handled
    <2>3. session_setup_007_din_session_setup => SignalsStateF
      BY <2>1, <2>2 DEF session_setup_007_din_session_setup
    <2>4. QED
      BY <2>1, <2>3 DEF Serves, StateFStep
  <1>2. CASE protocol = "ISO"
    <2>1. /\ test = "session_setup_007"
          /\ Serves(session_setup_007_iso_accepts, TRUE, Msg.SESSION_SETUP,
                    session_setup_007_iso_session_setup, FALSE)
      BY <1>2, SentAreRequests DEF session_setup_007, TestServer, CountingServer, Serves, InSession
    <2>2. Msg.SESSION_SETUP \in Handled
      BY Numbers, RequestNumbers DEF Handled
    <2>3. session_setup_007_iso_session_setup => SignalsStateF
      BY <2>1, <2>2 DEF session_setup_007_iso_session_setup
    <2>4. QED
      BY <2>1, <2>3 DEF Serves, StateFStep
  <1>3. QED
    BY <1>1, <1>2 DEF session_setup_007

LEMMA ServiceDetailPaymentSelection012 ==
    ASSUME service_detail_payment_selection_012
    PROVE  StateFStep /\ test = "service_detail_payment_selection_012"
  <1> USE DEF SignalsStateF
  <1>1. CASE protocol = "DIN"
    <2>1. /\ test = "service_detail_payment_selection_012"
          /\ Serves(service_detail_payment_selection_012_din_accepts, TRUE, Msg.PAYMENT_SERVICE_SELECTION,
                    service_detail_payment_selection_012_din_service_payment_selection, FALSE)
      BY <1>1, SentAreRequests DEF service_detail_payment_selection_012, TestServer, CountingServer, Serves, InSession
    <2>2. Msg.PAYMENT_SERVICE_SELECTION \in Handled
      BY Numbers, RequestNumbers DEF Handled
    <2>3. service_detail_payment_selection_012_din_service_payment_selection => SignalsStateF
      BY <2>1, <2>2 DEF service_detail_payment_selection_012_din_service_payment_selection
    <2>4. QED
      BY <2>1, <2>3 DEF Serves, StateFStep
  <1>2. CASE protocol = "ISO"
    <2>1. /\ test = "service_detail_payment_selection_012"
          /\ Serves(service_detail_payment_selection_012_iso_accepts, TRUE, Msg.PAYMENT_SERVICE_SELECTION,
                    service_detail_payment_selection_012_iso_payment_service_selection, FALSE)
      BY <1>2, SentAreRequests DEF service_detail_payment_selection_012, TestServer, CountingServer, Serves, InSession
    <2>2. Msg.PAYMENT_SERVICE_SELECTION \in Handled
      BY Numbers, RequestNumbers DEF Handled
    <2>3. service_detail_payment_selection_012_iso_payment_service_selection => SignalsStateF
      BY <2>1, <2>2 DEF service_detail_payment_selection_012_iso_payment_service_selection
    <2>4. QED
      BY <2>1, <2>3 DEF Serves, StateFStep
  <1>3. QED
    BY <1>1, <1>2 DEF service_detail_payment_selection_012

LEMMA CurrentDemand007 ==
    ASSUME current_demand_007
    PROVE  StateFStep /\ test = "current_demand_007"
  <1> USE DEF SignalsStateF
  <1>1. CASE protocol = "DIN"
    <2>1. /\ test = "current_demand_007"
          /\ Serves(current_demand_007_din_accepts, TRUE, Msg.CURRENT_DEMAND,
                    current_demand_007_din_current_demand, HandleSessionStop(FALSE))
      BY <1>1, SentAreRequests DEF current_demand_007, TestServer, CountingServer, Serves, InSession
    <2>2. Msg.CURRENT_DEMAND \in Handled
      BY Numbers, RequestNumbers DEF Handled
    <2>3. current_demand_007_din_current_demand => SignalsStateF
      BY <2>1, <2>2 DEF current_demand_007_din_current_demand
    <2>4. QED
      BY <2>1, <2>3 DEF Serves, StateFStep
  <1>2. CASE protocol = "ISO"
    <2>1. /\ test = "current_demand_007"
          /\ Serves(current_demand_007_iso_accepts, TRUE, Msg.CURRENT_DEMAND,
                    current_demand_007_iso_current_demand, HandleSessionStop(FALSE))
      BY <1>2, SentAreRequests DEF current_demand_007, TestServer, CountingServer, Serves, InSession
    <2>2. Msg.CURRENT_DEMAND \in Handled
      BY Numbers, RequestNumbers DEF Handled
    <2>3. current_demand_007_iso_current_demand => SignalsStateF
      BY <2>1, <2>2 DEF current_demand_007_iso_current_demand
    <2>4. QED
      BY <2>1, <2>3 DEF Serves, StateFStep
  <1>3. QED
    BY <1>1, <1>2 DEF current_demand_007

LEMMA WeldingSessionStop001 ==
    ASSUME protocol \in {"DIN", "ISO"}, welding_session_stop_001
    PROVE  WeldingStep /\ test = "welding_session_stop_001"
  <1>1. /\ test = "welding_session_stop_001" /\ InSession
    BY DEF welding_session_stop_001, InSession
  <1>2. PICK m \in SentToWelding :
          CASE m = Msg.CURRENT_DEMAND -> welding_session_stop_001_current_demand
            [] m = Msg.POWER_DELIVERY /\ protocol = "DIN" ->
                  welding_session_stop_001_din_power_delivery
            [] m = Msg.POWER_DELIVERY /\ protocol = "ISO" ->
                  welding_session_stop_001_iso_power_delivery
            [] m = Msg.SESSION_STOP /\ protocol = "DIN" ->
                  welding_session_stop_001_din_session_stop
            [] m = Msg.SESSION_STOP /\ protocol = "ISO" ->
                  welding_session_stop_001_iso_session_stop
            [] Ignored(m) -> UNCHANGED <<linkVars, replyVars, testVars, clock, seen>>
            [] OTHER -> Handles(m, NextStates(m))
    BY DEF welding_session_stop_001
  <1>3. m \in Requests /\ Ignored(Msg.UNKNOWN)
    BY <1>2, Numbers, RequestNumbers DEF SentToWelding, Ignored
  <1>4. CASE m = Msg.CURRENT_DEMAND
    BY <1>1, <1>2, <1>4 DEF WeldingStep
  <1>5. CASE m = Msg.POWER_DELIVERY
    <2>1. Msg.POWER_DELIVERY \in Handled
      BY Numbers, RequestNumbers DEF Handled
    <2>2. \/ welding_session_stop_001_din_power_delivery
          \/ welding_session_stop_001_iso_power_delivery
      <3>1. CASE protocol = "DIN"
        BY <1>2, <1>5, <3>1, Numbers DEF Ignored
      <3>2. CASE protocol = "ISO"
        BY <1>2, <1>5, <3>2, Numbers DEF Ignored
      <3>3. QED
        BY <3>1, <3>2
    <2>3. QED
      BY <1>1, <2>1, <2>2 DEF WeldingStep
  <1>6. CASE m = Msg.SESSION_STOP
    BY <1>1, <1>2, <1>6, Numbers DEF WeldingStep
  <1>7. CASE m \notin {Msg.CURRENT_DEMAND, Msg.POWER_DELIVERY, Msg.SESSION_STOP}
    BY <1>1, <1>2, <1>3, <1>7 DEF WeldingStep, Handled
  <1>8. QED
    BY <1>4, <1>5, <1>6, <1>7

LEMMA Steps ==
    ASSUME TypeOK, Next
    PROVE  \/ test \in ResponseTestNames /\ ResponseStep
           \/ test = "authorization_009" /\ OngoingStep(Msg.AUTHORIZATION, Msg.AUTHORIZATION)
           \/ test = "precharge_006" /\ OngoingStep(Msg.PRE_CHARGE, Msg.POWER_DELIVERY)
           \/ test = "cable_check_006" /\ CableCheckStep
           \/ test \in StateFTestNames /\ StateFStep
           \/ test = "welding_session_stop_001" /\ WeldingStep
           \/ BspEventB(TakesBTime) \/ ConnectionClose(TestVerdict)
           \/ VehicleEntersB \/ VehicleLeavesB
           \/ BspEventArrives \/ BspEventUpdates \/ BspEventOther
           \/ Tick \/ VehicleCloses \/ ReadFails \/ DlinkTerminated
  <1>1. base.received \in BOOLEAN /\ base.failed \in BOOLEAN /\ protocol \in {"DIN", "ISO"}
    BY DEF TypeOK
  <1>2. CASE HandleRequest
    BY <1>1, <1>2, Authorization004, ServiceDiscovery008, ServiceDetailPaymentSelection003,
       Cablecheck007, ChargeParameterDiscovery002, SessionSetup004, ServiceDetail011,
       ServiceDetail013, CurrentDemand002, CurrentDemand005, Authorization009, Precharge006,
       CableCheck006, SessionSetup007, ServiceDetailPaymentSelection012, CurrentDemand007,
       WeldingSessionStop001
    DEF HandleRequest, ResponseTestNames, StateFTestNames
  <1>3. QED
    BY <1>2 DEF Next, Environment

-----------------------------------------------------------------------------
(***************************************************************************)
(* Types.  No time that was noted lies in the future.                      *)
(***************************************************************************)
Bases(times) ==
    [received : BOOLEAN, failed : BOOLEAN, extra : BOOLEAN, aborted : BOOLEAN,
     validate : BOOLEAN, b_time : times, first_time : times, req_time : times,
     res_time : times, sequence_time : times, stop_req_time : times,
     stop_res_time : times, earliest : times, last_sequence : times]

Seens(times) ==
    [first : times, last : times, was_b : BOOLEAN, sent : BOOLEAN, stamped : BOOLEAN,
     b : SUBSET times, delayed : BOOLEAN, talked : BOOLEAN, stopped : times]

SoFar == 0..clock

TypeNow ==
    /\ test \in Tests /\ protocol \in {"DIN", "ISO"}
    /\ terminate_connection_on_failed_response \in BOOLEAN
    /\ session \in {"open", "closing", "closed"}
    /\ state \in Ids /\ last_v2g_msg \in Requests
    /\ is_connection_terminated \in BOOLEAN /\ force_next_connection_req_res \in BOOLEAN
    /\ pilot \in {"B", "C"} /\ on_its_way \in 0..MaxOnItsWay
    /\ cp_state \in {"B", "C"} /\ bsp_event \in SoFar
    /\ outcome \in {"PreconditionsNotMet", "PassCriteriaMet", "PassCriteriaNotMet"}
    /\ base \in Bases(SoFar) /\ clock \in Times \ {0} /\ seen \in Seens(SoFar)

LEMMA MaxTimeIsNat == MaxTime \in Nat
  BY TimeAssumption

LEMMA MaxOnItsWayIsNat == MaxOnItsWay \in Nat
  BY TimeAssumption

LEMMA TypeNowImpliesTypeOK ==
    ASSUME TypeNow
    PROVE  TypeOK
  <1>1. SoFar \subseteq Times
    BY MaxTimeIsNat DEF TypeNow, SoFar, Times
  <1>2. base \in Bases(Times) /\ seen \in Seens(Times) /\ bsp_event \in Times
    BY <1>1 DEF TypeNow, Bases, Seens
  <1>3. QED
    BY <1>2 DEF TypeNow, TypeOK, Ids, Bases, Seens

\* Time may pass.
LEMMA Later ==
    ASSUME clock \in Times, clock' \in Times, clock <= clock'
    PROVE  /\ SoFar \subseteq SoFar' /\ clock' \in SoFar' /\ clock \in SoFar /\ 0 \in SoFar
           /\ \A b \in Bases(SoFar) : b \in Bases(SoFar')
           /\ \A s \in Seens(SoFar) : s \in Seens(SoFar')
  <1>1. SoFar \subseteq SoFar' /\ clock' \in SoFar' /\ clock \in SoFar /\ 0 \in SoFar
    BY MaxTimeIsNat DEF SoFar, Times
  <1>2. QED
    BY <1>1 DEF Bases, Seens

LEMMA TypeInit ==
    ASSUME TestInit
    PROVE  TypeNow
  <1> USE DEF TestInit, Init, TypeNow
  <1>1. test \in Tests /\ protocol \in {"DIN", "ISO"}
    BY DEF Protocols
  <1>2. base \in Bases(SoFar) /\ seen \in Seens(SoFar)
    BY DEF NewTest, NotSeen, SoFar, Bases, Seens
  <1>3. state \in Ids /\ last_v2g_msg \in Requests
    BY Numbers, IdNumbers, RequestNumbers
  <1>4. clock \in Times \ {0} /\ bsp_event \in SoFar
    BY TimeAssumption DEF Times, SoFar
  <1>5. on_its_way \in 0..MaxOnItsWay
    BY MaxOnItsWayIsNat
  <1>6. QED
    BY <1>1, <1>2, <1>3, <1>4, <1>5

\* What a response that the test is about notes
ResponseFields(response, first, time) ==
    /\ response.first = first /\ response.last = time
    /\ response.was_b = (pilot = "B") /\ response.sent = (on_its_way > 0)
    /\ response.stamped = (bsp_event > 0 /\ cp_state # "B")
    /\ response.b = {} /\ response.delayed = FALSE
    /\ response.talked = seen.talked /\ response.stopped = seen.stopped

LEMMA TypeResponseSent ==
    ASSUME NEW times, seen \in Seens(times), NEW first \in times, NEW time \in times
    PROVE  /\ ResponseSent(first, time) \in Seens(times)
           /\ ResponseFields(ResponseSent(first, time), first, time)
  <1> DEFINE was_b   == pilot = "B"
             sent    == on_its_way > 0
             stamped == bsp_event > 0 /\ cp_state # "B"
  <1>1. was_b \in BOOLEAN /\ sent \in BOOLEAN /\ stamped \in BOOLEAN
    OBVIOUS
  <1>2. ResponseSent(first, time) =
          [seen EXCEPT !.first = first, !.last = time, !.was_b = was_b, !.sent = sent,
                       !.stamped = stamped, !.b = {}, !.delayed = FALSE]
    BY DEF ResponseSent
  <1> HIDE DEF was_b, sent, stamped
  <1>3. /\ ResponseSent(first, time) \in Seens(times)
        /\ ResponseSent(first, time).first = first /\ ResponseSent(first, time).last = time
        /\ ResponseSent(first, time).was_b = was_b /\ ResponseSent(first, time).sent = sent
        /\ ResponseSent(first, time).stamped = stamped
        /\ ResponseSent(first, time).b = {} /\ ResponseSent(first, time).delayed = FALSE
        /\ ResponseSent(first, time).talked = seen.talked
        /\ ResponseSent(first, time).stopped = seen.stopped
    BY <1>1, <1>2 DEF Seens
  <1>4. QED
    BY <1>3 DEF ResponseFields, was_b, sent, stamped

LEMMA TypeUnexpected ==
    ASSUME TypeNow, NEW counts \in BOOLEAN, UnexpectedRequest(counts), InSession
    PROVE  TypeNow'
  <1>1. clock' = clock /\ SoFar' = SoFar
    BY DEF UnexpectedRequest, SoFar
  <1>2. base' \in Bases(SoFar) /\ seen' \in Seens(SoFar)
    BY DEF TypeNow, UnexpectedRequest, Talks, Bases, Seens
  <1>3. QED
    BY <1>1, <1>2 DEF TypeNow, UnexpectedRequest, InSession, config, bspVars, linkVars

LEMMA TypeBaseHandles ==
    ASSUME TypeNow, NEW m \in Requests \ {Msg.SESSION_STOP}, BaseHandles(m), InSession
    PROVE  TypeNow'
  <1>1. clock' = clock /\ SoFar' = SoFar /\ UNCHANGED <<linkVars, testVars>>
    BY DEF BaseHandles, SoFar
  <1>2. seen' \in Seens(SoFar)
    BY DEF TypeNow, BaseHandles, Talks, Seens
  <1>3. state' \in Ids /\ last_v2g_msg' \in Requests /\ session' \in {"open", "closing"}
    <2>1. CASE UNCHANGED replyVars
      BY <2>1 DEF TypeNow, replyVars, InSession
    <2>2. ASSUME NEW v, NEW next \in NextStates(m), Reply(m, v.event, next), m \in Handled
          PROVE  state' \in Ids /\ last_v2g_msg' \in Requests /\ session' \in {"open", "closing"}
      BY <2>2, NextStatesAreIds DEF Reply, TypeNow
    <2>3. CASE Reply(m, "SEND_AND_TERMINATE", Msg.WELDING_DETECTION)
      BY <2>3, Numbers, IdNumbers DEF Reply, TypeNow
    <2>4. ~Ignored(m) => m \in Handled
      BY DEF Ignored, Handled
    <2>5. CASE SentAsItIs(m)
      BY <2>5, Numbers, IdNumbers DEF SentAsItIs, Reply, TypeNow
    <2>6. QED
      BY <2>1, <2>2, <2>3, <2>4, <2>5 DEF BaseHandles
  <1>4. QED
    BY <1>1, <1>2, <1>3 DEF TypeNow, InSession, config, bspVars, linkVars, testVars

LEMMA TypeSessionStop ==
    ASSUME TypeNow, NEW takes_times \in BOOLEAN, HandleSessionStop(takes_times), InSession
    PROVE  TypeNow'
  <1>1. clock' = clock /\ SoFar' = SoFar /\ clock \in SoFar
    BY MaxTimeIsNat DEF HandleSessionStop, SoFar, TypeNow, Times
  <1>2. base' \in Bases(SoFar) /\ seen' \in Seens(SoFar)
    BY <1>1 DEF TypeNow, HandleSessionStop, Bases, Seens
  <1>3. state' \in Ids /\ last_v2g_msg' \in Requests /\ session' \in {"open", "closing"}
    BY Numbers, IdNumbers, RequestNumbers DEF HandleSessionStop, Reply, TypeNow
  <1>4. QED
    BY <1>1, <1>2, <1>3 DEF TypeNow, HandleSessionStop, InSession, config, bspVars, linkVars

LEMMA TypeDeviates ==
    ASSUME TypeNow, Deviates, InSession
    PROVE  TypeNow'
  <1>1. PICK request \in Handled, sent \in Requests, event \in {"NO_EVENT", "IGNORE_MSG"},
             forced \in BOOLEAN, failing \in SUBSET Requests :
             Deviate(request, sent, event, forced, failing)
    BY DEF Deviates
  <1>2. PICK v \in validate_response_code(request), next \in NextStates(request) :
          IF Succeeds(v)
          THEN /\ Reply(sent, event, next)
               /\ base' = [base EXCEPT !.received = TRUE, !.req_time = clock,
                                       !.res_time = clock + 1,
                                       !.validate = @ \/ cp_state # "B"]
               /\ clock' = clock + 1
               /\ force_next_connection_req_res' = (force_next_connection_req_res \/ forced)
               /\ seen' = [ResponseSent(clock, clock + 1) EXCEPT !.talked = @ \/ seen.last > 0]
          ELSE /\ \E m \in failing : Reply(m, v.event, next)
               /\ base' = [base EXCEPT !.received = TRUE, !.failed = TRUE, !.req_time = clock]
               /\ Talks
               /\ UNCHANGED <<clock, force_next_connection_req_res>>
    BY <1>1 DEF Deviate
  <1>3. /\ clock \in Times /\ clock' \in Times \ {0} /\ clock <= clock'
    BY <1>2, MaxTimeIsNat DEF InSession, TypeNow, Times
  <1>4. /\ SoFar \subseteq SoFar' /\ clock' \in SoFar' /\ clock \in SoFar
        /\ base \in Bases(SoFar') /\ seen \in Seens(SoFar')
    BY <1>3, Later DEF TypeNow
  <1>5. base' \in Bases(SoFar') /\ seen' \in Seens(SoFar')
    <2>1. CASE Succeeds(v)
      <3>1. clock + 1 \in SoFar' /\ {} \in SUBSET SoFar'
        BY <1>2, <1>4, <2>1
      <3>2. base' \in Bases(SoFar')
        <4>1. base' = [base EXCEPT !.received = TRUE, !.req_time = clock,
                                   !.res_time = clock + 1, !.validate = @ \/ cp_state # "B"]
          BY <1>2, <2>1
        <4>2. QED
          BY <1>4, <3>1, <4>1 DEF Bases
      <3>3. seen' = [ResponseSent(clock, clock + 1) EXCEPT !.talked = @ \/ seen.last > 0]
        BY <1>2, <2>1
      <3>4. seen' \in Seens(SoFar')
        <4>1. ResponseSent(clock, clock + 1) \in Seens(SoFar')
          BY <1>4, <3>1, TypeResponseSent
        <4>2. QED
          BY <3>3, <4>1 DEF Seens
      <3>5. QED
        BY <3>2, <3>4
    <2>2. CASE ~Succeeds(v)
      BY <1>2, <1>4, <2>2 DEF Bases, Seens, Talks
    <2>3. QED
      BY <2>1, <2>2
  <1>6. state' \in Ids /\ last_v2g_msg' \in Requests /\ session' \in {"open", "closing"}
    BY <1>2, NextStatesAreIds DEF Reply, TypeNow
  <1>7. force_next_connection_req_res' \in BOOLEAN
    BY <1>2 DEF TypeNow
  <1>8. is_connection_terminated' = is_connection_terminated /\ outcome' = outcome
    BY <1>1 DEF Deviate
  <1>9. QED
    BY <1>3, <1>4, <1>5, <1>6, <1>7, <1>8 DEF TypeNow, InSession, config, bspVars

\* Requests in the tests whose server never finishes
LEMMA TypeAnswered ==
    ASSUME TypeNow, InSession, NEW request \in Requests, NEW event, NEW next \in Ids,
           NEW repeated \in Bases(SoFar), NEW good, NEW forever, NEW starts, NEW validate \in BOOLEAN,
           Answered(request, event, next, repeated, good, forever, starts, validate)
    PROVE  TypeNow'
  <1>1. clock' = clock /\ SoFar' = SoFar /\ clock \in SoFar
    BY MaxTimeIsNat DEF Answered, SoFar, TypeNow, Times
  <1>2. base' \in Bases(SoFar)
    <2>1. PICK time \in SoFar, validated \in BOOLEAN, aborted \in BOOLEAN, failed \in BOOLEAN :
             base' = [repeated EXCEPT !.aborted = aborted, !.failed = failed,
                                      !.res_time = time, !.validate = validated]
      BY <1>1 DEF Answered, Bases
    <2>2. QED
      BY <2>1 DEF Bases
  <1>3. seen' \in Seens(SoFar)
    <2>1. CASE seen' = seen
      BY <2>1 DEF TypeNow
    <2>2. CASE seen' = ResponseSent(IF seen.first = 0 /\ starts THEN clock ELSE seen.first, clock)
      <3>1. (IF seen.first = 0 /\ starts THEN clock ELSE seen.first) \in SoFar
        BY <1>1 DEF TypeNow, Seens
      <3>2. QED
        BY <1>1, <2>2, <3>1, TypeResponseSent DEF TypeNow
    <2>3. QED
      BY <2>1, <2>2 DEF Answered
  <1>4. state' \in Ids /\ last_v2g_msg' \in Requests /\ session' \in {"open", "closing"}
    BY DEF Answered, Reply, TypeNow
  <1>5. QED
    BY <1>1, <1>2, <1>3, <1>4 DEF TypeNow, Answered, InSession, config, bspVars, linkVars

LEMMA TypeRepeated ==
    ASSUME TypeNow, NEW request, NEW last_time \in SoFar
    PROVE  Repeated(request, last_time) \in Bases(SoFar)
  <1> DEFINE longest == IF base.res_time > 0
                        THEN LongerOf(base.sequence_time, last_time - base.res_time)
                        ELSE base.sequence_time
             first   == IF last_v2g_msg = request THEN base.first_time ELSE clock
  <1>1. clock \in SoFar /\ base.res_time \in SoFar /\ base.sequence_time \in SoFar
        /\ base.first_time \in SoFar /\ clock \in Nat
    BY MaxTimeIsNat DEF TypeNow, Bases, SoFar, Times
  <1>2. longest \in SoFar /\ first \in SoFar
    BY <1>1 DEF LongerOf, SoFar
  <1>3. Repeated(request, last_time) =
          [base EXCEPT !.received = TRUE, !.first_time = first, !.sequence_time = longest,
                       !.req_time = clock]
    BY DEF Repeated
  <1> HIDE DEF longest, first
  <1>4. QED
    BY <1>1, <1>2, <1>3 DEF TypeNow, Bases

LEMMA TypeOngoing ==
    ASSUME TypeNow, NEW request \in Handled, NEW next \in Ids, OngoingStep(request, next)
    PROVE  TypeNow'
  <1>1. InSession /\ request \in Requests
    BY DEF OngoingStep, Handled
  <1>2. CASE UnexpectedRequest(TRUE)
    BY <1>1, <1>2, TypeUnexpected
  <1>3. ASSUME NEW m \in Requests, m < request, BaseHandles(m)
        PROVE  TypeNow'
    <2>1. m # Msg.SESSION_STOP
      BY <1>3, Numbers, RequestNumbers DEF Handled
    <2>2. QED
      BY <1>1, <1>3, <2>1, TypeBaseHandles
  <1>4. ASSUME NEW takes_times \in BOOLEAN, HandleSessionStop(takes_times)
        PROVE  TypeNow'
    BY <1>1, <1>4, TypeSessionStop
  <1>5. ASSUME NEW v \in validate_response_code(request), NEW last_time \in {clock, base.req_time},
               NEW validate \in {base.validate \/ cp_state # "B", cp_state # "B"},
               Answer(request, v, next, Repeated(request, last_time), validate)
        PROVE  TypeNow'
    <2>1. last_time \in SoFar
      BY MaxTimeIsNat DEF TypeNow, Bases, SoFar, Times
    <2>2. validate \in BOOLEAN
      BY Zenon
    <2>3. Repeated(request, last_time) \in Bases(SoFar)
      BY <2>1, TypeRepeated
    <2>4. QED
      BY <1>1, <1>5, <2>2, <2>3, TypeAnswered DEF Answer
  <1>6. QED
    BY <1>2, <1>3, <1>4, <1>5 DEF OngoingStep

LEMMA TypeCableCheck ==
    ASSUME TypeNow, CableCheckStep
    PROVE  TypeNow'
  <1>1. InSession /\ clock \in SoFar
    BY MaxTimeIsNat DEF CableCheckStep, TypeNow, SoFar, Times
  <1>2. CASE cable_check_006_unexpected_request
    <2>1. clock' = clock /\ SoFar' = SoFar
      BY <1>2 DEF cable_check_006_unexpected_request, SoFar
    <2>2. base' \in Bases(SoFar) /\ seen' \in Seens(SoFar)
      BY <1>2 DEF TypeNow, cable_check_006_unexpected_request, Talks, Bases, Seens
    <2>3. QED
      BY <1>1, <1>2, <2>1, <2>2
      DEF TypeNow, cable_check_006_unexpected_request, InSession, config, bspVars, linkVars
  <1>3. CASE cable_check_006_charge_parameter
    <2>1. PICK v \in validate_response_code(Msg.CHARGE_PARAMETER_DISCOVERY),
               next \in NextStates(Msg.CHARGE_PARAMETER_DISCOVERY) :
            /\ Reply(Msg.CHARGE_PARAMETER_DISCOVERY, v.event, next)
            /\ base' = IF v.event = "NO_EVENT" /\ next = Msg.CABLE_CHECK
                       THEN [base EXCEPT !.earliest = clock] ELSE base
      BY <1>3 DEF cable_check_006_charge_parameter
    <2>2. clock' = clock /\ SoFar' = SoFar
      BY <1>3 DEF cable_check_006_charge_parameter, SoFar
    <2>3. base' \in Bases(SoFar)
      BY <1>1, <2>1 DEF TypeNow, Bases
    <2>4. seen' \in Seens(SoFar)
      BY <1>3 DEF TypeNow, cable_check_006_charge_parameter, Talks, Seens
    <2>5. Msg.CHARGE_PARAMETER_DISCOVERY \in Handled
      BY Numbers, RequestNumbers DEF Handled
    <2>6. state' \in Ids /\ last_v2g_msg' \in Requests /\ session' \in {"open", "closing"}
      BY <2>1, <2>5, NextStatesAreIds DEF Reply, TypeNow, Handled
    <2>7. QED
      BY <1>1, <1>3, <2>2, <2>3, <2>4, <2>6
      DEF TypeNow, cable_check_006_charge_parameter, InSession, config, bspVars, linkVars
  <1>4. CASE cable_check_006_cable_check
    <2> DEFINE Forever(good) ==
                 good /\ running_forever(LongerOf(cable_check_006_repeated.earliest,
                                                  cable_check_006_repeated.first_time))
    <2>1. PICK v \in validate_response_code(Msg.CABLE_CHECK), next \in NextStates(Msg.CABLE_CHECK),
               expected \in BOOLEAN :
            LET good    == Succeeds(v) /\ expected
                forever == Forever(good)
            IN  Answered(Msg.CABLE_CHECK,
                         IF forever /\ base.aborted THEN "SEND_AND_TERMINATE" ELSE v.event,
                         IF good THEN Msg.CABLE_CHECK ELSE next, cable_check_006_repeated,
                         good, forever, last_v2g_msg = Msg.CABLE_CHECK, cp_state # "B")
      BY <1>4 DEF cable_check_006_cable_check
    <2> DEFINE good     == Succeeds(v) /\ expected
               forever  == Forever(good)
               event    == IF forever /\ base.aborted THEN "SEND_AND_TERMINATE" ELSE v.event
               after    == IF good THEN Msg.CABLE_CHECK ELSE next
               starts   == last_v2g_msg = Msg.CABLE_CHECK
               validate == cp_state # "B"
    <2>2. cable_check_006_repeated \in Bases(SoFar)
      <3> DEFINE sequence == IF base.res_time > 0 THEN clock - base.res_time ELSE base.last_sequence
                 first    == IF last_v2g_msg = Msg.CABLE_CHECK /\ base.first_time = 0
                             THEN clock ELSE base.first_time
                 received == base.received \/ last_v2g_msg # Msg.CABLE_CHECK
                 longest  == LongerOf(base.sequence_time, sequence)
      <3>1. /\ base.res_time \in SoFar /\ base.sequence_time \in SoFar /\ received \in BOOLEAN
            /\ base.first_time \in SoFar /\ base.last_sequence \in SoFar /\ clock \in Nat
        BY MaxTimeIsNat DEF TypeNow, Bases, SoFar, Times
      <3>2. sequence \in SoFar
        BY <1>1, <3>1 DEF SoFar
      <3>3. longest \in SoFar /\ first \in SoFar
        BY <1>1, <3>1, <3>2 DEF LongerOf
      <3>4. cable_check_006_repeated =
              [base EXCEPT !.received = received, !.first_time = first, !.last_sequence = sequence,
                           !.sequence_time = longest, !.req_time = clock]
        BY DEF cable_check_006_repeated
      <3> HIDE DEF received, first, sequence, longest
      <3>5. QED
        BY <1>1, <3>1, <3>2, <3>3, <3>4 DEF TypeNow, Bases
    <2>3. Msg.CABLE_CHECK \in Handled /\ Msg.CABLE_CHECK \in Ids
      BY Numbers, RequestNumbers, IdNumbers DEF Handled
    <2>4. after \in Ids /\ validate \in BOOLEAN
      BY <2>3, NextStatesAreIds
    <2>5. Answered(Msg.CABLE_CHECK, event, after, cable_check_006_repeated, good, forever, starts,
                   validate)
      BY <2>1
    <2> HIDE DEF Forever, good, forever, event, after, starts, validate
    <2>6. QED
      BY <1>1, <2>2, <2>3, <2>4, <2>5, TypeAnswered DEF Handled
  <1>5. CASE HandleSessionStop(base.received)
    BY <1>1, <1>5, TypeSessionStop DEF TypeNow, Bases
  <1>6. ASSUME NEW m \in Requests, m < Msg.CABLE_CHECK, BaseHandles(m)
        PROVE  TypeNow'
    BY <1>1, <1>6, Numbers, TypeBaseHandles
  <1>7. QED
    BY <1>2, <1>3, <1>4, <1>5, <1>6 DEF CableCheckStep

LEMMA TypeSignals ==
    ASSUME TypeNow, InSession, NEW request \in Handled, NEW results, NEW failed \in BOOLEAN,
           SignalStateF(request, results, failed)
    PROVE  TypeNow'
  <1>1. clock' = clock /\ SoFar' = SoFar /\ clock \in SoFar
    BY MaxTimeIsNat DEF SignalStateF, SoFar, TypeNow, Times
  <1>2. PICK v \in validate_response_code(request), next \in NextStates(request), result \in results :
          /\ LET event == CASE ~Succeeds(v) -> v.event
                             [] Succeeds(v) /\ result = "missed" -> "SEND_AND_TERMINATE"
                             [] Succeeds(v) /\ result = "stopped"
                                /\ terminate_connection_on_failed_response -> "SEND_AND_TERMINATE"
                             [] OTHER -> "NO_EVENT"
             IN  Reply(request, event, next)
          /\ base' = [base EXCEPT !.received = TRUE,
                          !.res_time = IF Succeeds(v) /\ result # "missed" THEN clock ELSE @,
                          !.failed = failed \/ ~Succeeds(v) \/ result = "stopped"]
          /\ force_next_connection_req_res' \in
                (IF Succeeds(v) THEN {TRUE} ELSE {force_next_connection_req_res})
                \union (IF Succeeds(v) /\ result = "missed"
                        THEN {force_next_connection_req_res} ELSE {})
          /\ LET good == Succeeds(v) /\ result = "signalled"
             IN  seen' = [seen EXCEPT !.first = IF good THEN clock ELSE @,
                                      !.last = IF good THEN clock ELSE @,
                                      !.talked = @ \/ seen.last > 0]
    BY DEF SignalStateF
  <1>3. base' \in Bases(SoFar)
    BY <1>1, <1>2 DEF TypeNow, Bases
  <1>4. seen' \in Seens(SoFar)
    BY <1>1, <1>2 DEF TypeNow, Seens
  <1>5. state' \in Ids /\ last_v2g_msg' \in Requests /\ session' \in {"open", "closing"}
    BY <1>2, NextStatesAreIds DEF Reply, TypeNow, Handled
  <1>6. force_next_connection_req_res' \in BOOLEAN
    BY <1>2 DEF TypeNow
  <1>7. is_connection_terminated' = is_connection_terminated /\ outcome' = outcome
    BY DEF SignalStateF
  <1>8. QED
    BY <1>1, <1>3, <1>4, <1>5, <1>6, <1>7 DEF TypeNow, InSession, config, bspVars

LEMMA TypeStateF ==
    ASSUME TypeNow, StateFStep
    PROVE  TypeNow'
  <1>1. InSession /\ base.failed \in BOOLEAN
    BY DEF StateFStep, TypeNow, Bases
  <1>2. CASE UnexpectedRequest(TRUE)
    BY <1>1, <1>2, TypeUnexpected
  <1>3. CASE HandleSessionStop(FALSE)
    BY <1>1, <1>3, TypeSessionStop
  <1>4. CASE SignalsStateF
    BY <1>1, <1>4, TypeSignals DEF SignalsStateF
  <1>5. ASSUME NEW m \in Requests \ {Msg.SESSION_STOP}, BaseHandles(m)
        PROVE  TypeNow'
    BY <1>1, <1>5, TypeBaseHandles
  <1>6. QED
    BY <1>2, <1>3, <1>4, <1>5 DEF StateFStep

\* What all handlers of chn_welding_session_stop_001 do
LEMMA TypeReplied ==
    ASSUME TypeNow, InSession, NEW sent \in Requests, NEW event, NEW next \in Ids,
           Reply(sent, event, next), base' \in Bases(SoFar), seen' \in Seens(SoFar),
           UNCHANGED <<linkVars, outcome, clock>>
    PROVE  TypeNow'
  <1>1. clock' = clock /\ SoFar' = SoFar
    BY DEF SoFar
  <1>2. state' \in Ids /\ last_v2g_msg' \in Requests /\ session' \in {"open", "closing"}
    BY DEF Reply, TypeNow
  <1>3. QED
    BY <1>1, <1>2 DEF TypeNow, InSession, config, bspVars, linkVars

LEMMA TypeNoted ==
    ASSUME TypeNow, NEW request, NEW forced, NEW v \in ResultsOf(request, forced)
    PROVE  Noted(v) \in Bases(SoFar) /\ v \in validate_response_code(request) /\ v.ok \in BOOLEAN
  <1>1. v \in validate_response_code(request) /\ v.ok \in BOOLEAN
    BY Responses DEF ResultsOf
  <1>2. QED
    BY <1>1 DEF Noted, TypeNow, Bases

LEMMA TypeHandles ==
    ASSUME TypeNow, InSession, NEW request \in Handled, NEW next_states \in SUBSET Ids,
           Handles(request, next_states)
    PROVE  TypeNow'
  <1>1. ASSUME NEW v \in ResultsOf(request, base.aborted), NEW next \in next_states,
               Reply(request, v.event, next), base' = Noted(v)
        PROVE  TypeNow'
    <2>1. base' \in Bases(SoFar) /\ seen' \in Seens(SoFar)
      BY <1>1, TypeNoted DEF Handles, TypeNow
    <2>2. QED
      BY <1>1, <2>1, TypeReplied DEF Handles, Handled
  <1>2. ASSUME SentAsItIs(request), UNCHANGED base PROVE TypeNow'
    <2>1. base' \in Bases(SoFar) /\ seen' \in Seens(SoFar) /\ Msg.PAYMENT_DETAILS \in Ids
      BY <1>2, Numbers, IdNumbers DEF Handles, TypeNow
    <2>2. QED
      BY <1>2, <2>1, TypeReplied DEF Handles, Handled, SentAsItIs
  <1>3. QED
    BY <1>1, <1>2 DEF Handles

LEMMA TypeStopsCharging ==
    ASSUME TypeNow, InSession, StopsCharging
    PROVE  TypeNow'
  <1>1. PICK v \in ResultsOf(Msg.POWER_DELIVERY, base.aborted) :
          /\ Reply(Msg.POWER_DELIVERY, v.event, Msg.WELDING_DETECTION)
          /\ IF v.event = "NO_EVENT"
             THEN /\ base' = [Noted(v) EXCEPT !.res_time = clock,
                                              !.validate = @ \/ cp_state # "B"]
                  /\ seen' = ResponseSent(seen.first, clock)
             ELSE base' = Noted(v) /\ UNCHANGED seen
    BY DEF StopsCharging
  <1>2. Noted(v) \in Bases(SoFar) /\ seen \in Seens(SoFar) /\ clock \in SoFar
    BY <1>1, TypeNoted, MaxTimeIsNat DEF TypeNow, SoFar, Times
  <1> DEFINE validates == Noted(v).validate \/ cp_state # "B"
  <1>3. base' \in Bases(SoFar)
    <2>1. CASE v.event = "NO_EVENT"
      <3>1. base' = [Noted(v) EXCEPT !.res_time = clock, !.validate = validates]
        BY <1>1, <2>1
      <3>2. validates \in BOOLEAN
        BY <1>2 DEF Bases
      <3> HIDE DEF validates
      <3>3. QED
        BY <1>2, <3>1, <3>2 DEF Bases
    <2>2. QED
      BY <1>1, <1>2, <2>1
  <1>4. seen' \in Seens(SoFar)
    <2>1. seen.first \in SoFar
      BY <1>2 DEF Seens
    <2>2. ResponseSent(seen.first, clock) \in Seens(SoFar)
      BY <1>2, <2>1, TypeResponseSent
    <2>3. QED
      BY <1>1, <1>2, <2>2
  <1>5. Msg.POWER_DELIVERY \in Requests /\ Msg.WELDING_DETECTION \in Ids
    BY Numbers, RequestNumbers, IdNumbers
  <1>6. QED
    BY <1>1, <1>3, <1>4, <1>5, TypeReplied DEF StopsCharging

LEMMA TypeStopAnswered ==
    ASSUME TypeNow, InSession, NEW v \in ResultsOf(Msg.SESSION_STOP, base.aborted), NEW good,
           NEW next \in Ids, SessionStopAnswered(v, good, next)
    PROVE  TypeNow'
  <1>1. Noted(v) \in Bases(SoFar) /\ seen \in Seens(SoFar) /\ clock \in SoFar
    BY TypeNoted, MaxTimeIsNat DEF TypeNow, SoFar, Times
  <1>2. base' \in Bases(SoFar) /\ seen' \in Seens(SoFar)
    BY <1>1 DEF SessionStopAnswered, Bases, Seens
  <1>3. Msg.SESSION_STOP \in Requests
    BY Numbers, RequestNumbers
  <1>4. QED
    BY <1>2, <1>3, TypeReplied DEF SessionStopAnswered

LEMMA TypeWelding ==
    ASSUME TypeNow, WeldingStep
    PROVE  TypeNow'
  <1>1. /\ InSession /\ clock \in SoFar
        /\ {Msg.CURRENT_DEMAND, Msg.POWER_DELIVERY} \subseteq Handled /\ Handled \subseteq Requests
        /\ {Msg.CURRENT_DEMAND, Msg.WELDING_DETECTION, Msg.UNKNOWN, Msg.SESSION_SETUP} \subseteq Ids
    BY MaxTimeIsNat, Numbers, RequestNumbers, IdNumbers
    DEF WeldingStep, TypeNow, SoFar, Times, Handled
  <1>2. NextStates(Msg.POWER_DELIVERY) \in SUBSET Ids
    BY <1>1, NextStatesAreIds
  <1>3. CASE welding_session_stop_001_current_demand
    <2> DEFINE start   == IF base.first_time = 0 THEN clock ELSE base.first_time
               aborted == base.aborted \/ clock - start >= ChargingTimeout + StopChargingTimeout
    <2>1. PICK v \in ResultsOf(Msg.CURRENT_DEMAND, aborted) :
            /\ Reply(Msg.CURRENT_DEMAND, v.event, Msg.CURRENT_DEMAND)
            /\ base' = [Noted(v) EXCEPT !.first_time = start, !.aborted = aborted]
      BY <1>3 DEF welding_session_stop_001_current_demand
    <2>2. Noted(v) \in Bases(SoFar) /\ start \in SoFar /\ aborted \in BOOLEAN
      BY <1>1, <2>1, TypeNoted DEF TypeNow, Bases
    <2> HIDE DEF start, aborted
    <2>3. base' \in Bases(SoFar)
      BY <2>1, <2>2 DEF Bases
    <2>4. seen' \in Seens(SoFar)
      BY <1>1, <1>3 DEF welding_session_stop_001_current_demand, TypeNow, Seens
    <2>5. QED
      BY <1>1, <1>3, <2>1, <2>3, <2>4, TypeReplied
      DEF welding_session_stop_001_current_demand
  <1>4. CASE welding_session_stop_001_din_power_delivery
    <2>1. CASE StopsCharging
      BY <1>1, <2>1, TypeStopsCharging
    <2>2. CASE Handles(Msg.POWER_DELIVERY, NextStates(Msg.POWER_DELIVERY) \ {Msg.WELDING_DETECTION})
      BY <1>1, <1>2, <2>2, TypeHandles
    <2>3. CASE /\ Reply(Msg.POWER_DELIVERY, "SEND_AND_TERMINATE", Msg.WELDING_DETECTION)
               /\ base' \in {base, [base EXCEPT !.failed = TRUE]}
               /\ UNCHANGED <<linkVars, outcome, clock, seen>>
      <3>1. base' \in Bases(SoFar) /\ seen' \in Seens(SoFar)
        BY <2>3 DEF TypeNow, Bases
      <3>2. QED
        BY <1>1, <2>3, <3>1, TypeReplied
    <2>4. QED
      BY <1>4, <2>1, <2>2, <2>3 DEF welding_session_stop_001_din_power_delivery
  <1>5. CASE welding_session_stop_001_iso_power_delivery
    BY <1>1, <1>2, <1>5, TypeStopsCharging, TypeHandles
    DEF welding_session_stop_001_iso_power_delivery
  <1>6. CASE welding_session_stop_001_din_session_stop
    BY <1>1, <1>6, TypeStopAnswered DEF welding_session_stop_001_din_session_stop
  <1>7. CASE welding_session_stop_001_iso_session_stop
    BY <1>1, <1>7, TypeStopAnswered DEF welding_session_stop_001_iso_session_stop
  <1>8. ASSUME NEW m \in Handled, Handles(m, NextStates(m))
        PROVE  TypeNow'
    BY <1>1, <1>8, NextStatesAreIds, TypeHandles
  <1>9. CASE UNCHANGED <<linkVars, replyVars, testVars, clock, seen>>
    BY <1>1, <1>9 DEF TypeNow, SoFar, InSession, config, bspVars, linkVars, replyVars, testVars
  <1>10. QED
    BY <1>3, <1>4, <1>5, <1>6, <1>7, <1>8, <1>9 DEF WeldingStep

LEMMA VerdictType ==
    ASSUME test \in Tests
    PROVE  TestVerdict \in {"PreconditionsNotMet", "PassCriteriaMet", "PassCriteriaNotMet"}
  <1>1. test \in ResponseTestNames \union OngoingTestNames \union StateFTestNames
                 \union {"welding_session_stop_001"}
    BY TestsAssumption
  <1>2. CASE test \in ResponseTestNames
    BY <1>2
    DEF ResponseTestNames, TestVerdict, Verdict, SilenceVerdict, authorization_004_verdict,
        service_discovery_008_verdict, service_detail_payment_selection_003_verdict,
        cablecheck_007_verdict, charge_parameter_discovery_002_verdict, session_setup_004_verdict,
        service_detail_011_verdict, service_detail_013_verdict, current_demand_002_verdict,
        current_demand_005_verdict
  <1>3. CASE test \in OngoingTestNames
    BY <1>3
    DEF OngoingTestNames, TestVerdict, Verdict, authorization_009_verdict, precharge_006_verdict,
        cable_check_006_verdict
  <1>4. CASE test \in StateFTestNames
    BY <1>4
    DEF StateFTestNames, TestVerdict, Verdict, StateFVerdict, session_setup_007_verdict,
        service_detail_payment_selection_012_verdict, current_demand_007_verdict
  <1>5. CASE test = "welding_session_stop_001"
    BY <1>5 DEF TestVerdict, Verdict, welding_session_stop_001_verdict
  <1>6. QED
    BY <1>1, <1>2, <1>3, <1>4, <1>5

LEMMA TypePilotChanges ==
    ASSUME TypeNow, VehicleEntersB \/ VehicleLeavesB
    PROVE  TypeNow'
  <1>1. PilotChanges /\ pilot' \in {"B", "C"}
    BY DEF VehicleEntersB, VehicleLeavesB
  <1>2. clock' = clock /\ SoFar' = SoFar /\ clock \in SoFar
    BY <1>1, MaxTimeIsNat DEF PilotChanges, TypeNow, SoFar, Times
  <1>3. seen' \in Seens(SoFar)
    BY <1>2 DEF VehicleEntersB, VehicleLeavesB, TypeNow, Seens
  <1>4. on_its_way' \in 0..MaxOnItsWay
    BY <1>1, MaxOnItsWayIsNat DEF PilotChanges, TypeNow
  <1>5. QED
    BY <1>1, <1>2, <1>3, <1>4 DEF TypeNow, PilotChanges, config, linkVars, replyVars, testVars

LEMMA TypeArrivals ==
    ASSUME TypeNow, BspEventArrives \/ BspEventUpdates \/ BspEventOther
    PROVE  TypeNow'
  <1>1. clock' = clock /\ SoFar' = SoFar /\ clock \in SoFar
    BY MaxTimeIsNat DEF BspEventArrives, BspEventUpdates, BspEventOther, TypeNow, SoFar, Times
  <1>2. on_its_way' \in 0..MaxOnItsWay
    BY MaxOnItsWayIsNat DEF BspEventArrives, BspEventUpdates, BspEventOther, Arrives, TypeNow
  <1>3. bsp_event' \in SoFar /\ cp_state' \in {"B", "C"} /\ pilot' = pilot
    BY <1>1 DEF BspEventArrives, BspEventUpdates, BspEventOther, TypeNow
  <1>4. UNCHANGED <<config, linkVars, replyVars, testVars, clock, seen>>
    BY DEF BspEventArrives, BspEventUpdates, BspEventOther
  <1>5. QED
    BY <1>1, <1>2, <1>3, <1>4 DEF TypeNow, config, linkVars, replyVars, testVars

LEMMA TypeOthers ==
    ASSUME TypeNow,
           \/ BspEventB(TakesBTime) \/ ConnectionClose(TestVerdict)
           \/ VehicleEntersB \/ VehicleLeavesB
           \/ BspEventArrives \/ BspEventUpdates \/ BspEventOther
           \/ Tick \/ VehicleCloses \/ ReadFails \/ DlinkTerminated
    PROVE  TypeNow'
  <1>1. clock \in SoFar /\ 0 \in SoFar /\ clock \in Nat
    BY MaxTimeIsNat DEF TypeNow, SoFar, Times
  <1>2. CASE BspEventB(TakesBTime)
    <2>1. clock' = clock /\ SoFar' = SoFar
      BY <1>2 DEF BspEventB, SoFar
    <2>2. base' \in Bases(SoFar)
      BY <1>2 DEF BspEventB, TypeNow, Bases
    <2>3. QED
      BY <1>1, <1>2, <2>1, <2>2 DEF TypeNow, BspEventB, config, linkVars, replyVars
  <1>3. CASE ConnectionClose(TestVerdict)
    <2>1. clock' = clock /\ SoFar' = SoFar
      BY <1>3 DEF ConnectionClose, SoFar
    <2>2. outcome' \in {"PreconditionsNotMet", "PassCriteriaMet", "PassCriteriaNotMet"}
      BY <1>3, VerdictType DEF ConnectionClose, TypeNow
    <2>3. QED
      BY <1>3, <2>1, <2>2 DEF TypeNow, ConnectionClose, config, linkVars, bspVars
  <1>4. CASE VehicleEntersB \/ VehicleLeavesB
    BY <1>4, TypePilotChanges
  <1>5. CASE BspEventArrives \/ BspEventUpdates \/ BspEventOther
    BY <1>5, TypeArrivals
  <1>6. CASE Tick
    <2>1. clock \in Times /\ clock' \in Times \ {0} /\ clock <= clock'
      BY <1>6, MaxTimeIsNat DEF Tick, TypeNow, Times
    <2>2. /\ base' = base /\ bsp_event' = bsp_event
          /\ seen' = [seen EXCEPT !.delayed = @ \/ (seen.last > 0 /\ EntryOnItsWay)]
      BY <1>6 DEF Tick, bspVars, testVars
    <2>3. seen' \in Seens(SoFar)
      <3>1. (seen.delayed \/ (seen.last > 0 /\ EntryOnItsWay)) \in BOOLEAN
        OBVIOUS
      <3>2. QED
        BY <2>2, <3>1 DEF TypeNow, Seens
    <2>4. base' \in Bases(SoFar') /\ seen' \in Seens(SoFar') /\ bsp_event' \in SoFar'
      BY <2>1, <2>2, <2>3, Later DEF TypeNow
    <2>5. QED
      BY <1>6, <2>1, <2>4 DEF TypeNow, Tick, config, linkVars, replyVars, bspVars, testVars
  <1>7. CASE VehicleCloses
    <2>1. clock' = clock /\ SoFar' = SoFar
      BY <1>7 DEF VehicleCloses, SoFar
    <2>2. seen' \in Seens(SoFar)
      BY <1>1, <1>7 DEF VehicleCloses, TypeNow, Seens
    <2>3. QED
      BY <1>7, <2>1, <2>2 DEF TypeNow, VehicleCloses, config, linkVars, bspVars, testVars
  <1>8. CASE ReadFails
    <2>1. clock' = clock /\ SoFar' = SoFar
      BY <1>8 DEF ReadFails, SoFar
    <2>2. QED
      BY <1>8, <2>1 DEF TypeNow, ReadFails, config, linkVars, bspVars, testVars
  <1>9. CASE DlinkTerminated
    <2>1. clock' = clock /\ SoFar' = SoFar
      BY <1>9 DEF DlinkTerminated, SoFar
    <2>2. QED
      BY <1>9, <2>1 DEF TypeNow, DlinkTerminated, config, replyVars, bspVars, testVars
  <1>10. QED
    BY <1>2, <1>3, <1>4, <1>5, <1>6, <1>7, <1>8, <1>9

LEMMA TypeNext ==
    ASSUME TypeNow, [Next]_vars
    PROVE  TypeNow'
  <1>1. CASE UNCHANGED vars
    BY <1>1
    DEF vars, TypeNow, SoFar, config, linkVars, replyVars, bspVars, testVars
  <1>2. ASSUME Next
        PROVE  TypeNow'
    <2>1. TypeOK
      BY TypeNowImpliesTypeOK
    <2>2. CASE ResponseStep
      BY <2>2, TypeUnexpected, TypeBaseHandles, TypeSessionStop, TypeDeviates DEF ResponseStep
    <2>3. CASE \/ OngoingStep(Msg.AUTHORIZATION, Msg.AUTHORIZATION)
               \/ OngoingStep(Msg.PRE_CHARGE, Msg.POWER_DELIVERY)
      <3>1. /\ Msg.AUTHORIZATION \in Handled /\ Msg.PRE_CHARGE \in Handled
            /\ Msg.AUTHORIZATION \in Ids /\ Msg.POWER_DELIVERY \in Ids
        BY Numbers, RequestNumbers, IdNumbers DEF Handled
      <3>2. QED
        BY <2>3, <3>1, TypeOngoing
    <2>4. QED
      BY <1>2, <2>1, <2>2, <2>3, Steps, TypeCableCheck, TypeStateF, TypeWelding, TypeOthers
  <1>3. QED
    BY <1>1, <1>2

LEMMA TypeNowCorrect == Spec => []TypeNow
  BY TypeInit, TypeNext, PTL DEF Spec

\* Every variable keeps its type; no time that a test notes lies behind the bound of time.
THEOREM TypeCorrect == Spec => []TypeOK
  BY TypeNowCorrect, TypeNowImpliesTypeOK, PTL

-----------------------------------------------------------------------------
(***************************************************************************)
(* What a test has noted, and what the vehicle did                         *)
(***************************************************************************)
\* What the server knows of the control pilot, or is about to; the changes that are on their
\* way come from the vehicle in turn.
Heard == IF bsp_event > 0 THEN "B" ELSE cp_state

Alternates == (pilot = Heard) = (on_its_way % 2 = 0)

\* A state B was stamped before the response, or not before the vehicle had entered it: at
\* once, unless it was delayed.  One that was sent before the response came at once, too.
Stamped(time) ==
    \/ time < seen.last
    \/ /\ seen.sent \/ \E entered \in seen.b : entered <= time
       /\ seen.delayed \/ time \in seen.b \/ (seen.sent /\ time = seen.last)

\* The same of a state B that has not arrived
OnItsWay ==
    EntryOnItsWay =>
        /\ seen.sent \/ seen.b # {}
        /\ seen.delayed \/ clock \in seen.b \/ (seen.sent /\ clock = seen.last)

StateBNotes ==
    seen.last > 0 =>
        /\ \A entered \in seen.b : seen.last <= entered
        /\ Stamped(bsp_event) /\ Stamped(base.b_time) /\ OnItsWay

PilotNotes == Alternates /\ (test \notin StateFTestNames => StateBNotes)

\* The latest state B is on its way, or is being handled, or is noted: the last that the vehicle
\* has entered, and the one that it was in at the response, unless the server knew of it.
LatestB ==
    seen.last > 0 /\ base.validate /\ ~seen.delayed /\ ~EntryOnItsWay =>
        LET latest == IF bsp_event > 0 THEN bsp_event ELSE base.b_time
        IN  /\ \A entered \in seen.b : entered <= latest
            /\ seen.was_b /\ ~seen.talked /\ ~seen.stamped => seen.last <= latest

\* A vehicle that ends the session does it once, and nothing follows.
Stops ==
    /\ base.stop_req_time = base.stop_res_time
    /\ base.stop_req_time \in {0, seen.stopped}
    /\ seen.stopped > 0 => session # "open" /\ seen.stopped = clock

\* A request that counts as unexpected came after the deviation, or there was none.
Extras ==
    /\ base.extra => session # "open" /\ (seen.talked \/ seen.last = 0)
    /\ session # "closed" =>
          \/ outcome = "PreconditionsNotMet"
          \/ outcome = "PassCriteriaNotMet" /\ base.extra

\* The tests of ResponseTests
Deviated ==
    /\ seen.last > 0 /\ base.res_time = seen.last /\ base.req_time = seen.first
    /\ seen.last = seen.first + 1
    /\ base.validate \/ seen.was_b \/ seen.sent
    /\ base.validate /\ seen.was_b => seen.talked \/ seen.sent \/ seen.stamped

ResponseNotes ==
    /\ Tested => Deviated
    /\ seen.last > 0 => base.received
    /\ base.validate => seen.last > 0
    /\ test = "session_setup_004" /\ seen.last > 0 => state # Msg.SESSION_SETUP
    /\ test \in TalkerTests /\ seen.talked =>
          \/ base.failed
          \/ base.extra /\ (session # "closed" => outcome = "PassCriteriaNotMet")

\* The tests of StateFTests
StateFNotes ==
    /\ base.res_time > 0 => base.received
    /\ Tested /\ base.res_time > 0 => seen.last = base.res_time
    /\ test # "service_detail_payment_selection_012" /\ Tested => base.res_time > 0

\* The tests of OngoingTests.  When failed responses end the session, nothing but the test's
\* request, which state allows, has come since its first response.
OngoingNotes(request, next) ==
    /\ last_v2g_msg = request => base.received
    /\ Tested => seen.last > 0
    /\ Tested /\ ~base.aborted => base.res_time = seen.last /\ (base.validate \/ seen.was_b \/ seen.sent)
    /\ base.aborted => session # "open"
    /\ terminate_connection_on_failed_response /\ seen.first > 0 =>
          /\ seen.last <= seen.first + OngoingTimeout + TcpTimeout
          /\ session = "open" =>
                \/ state = Msg.PAYMENT_DETAILS
                \/ last_v2g_msg = request /\ state = next /\ base.first_time <= seen.first

CableCheckNotes ==
    /\ last_v2g_msg = Msg.CABLE_CHECK => base.received
    /\ Tested /\ ~base.aborted => seen.last > 0
    /\ terminate_connection_on_failed_response /\ seen.first > 0 =>
          /\ seen.last <= seen.first + OngoingTimeout + TcpTimeout
          /\ session = "open" /\ ~base.failed =>
                \/ state = Msg.PAYMENT_DETAILS
                \/ /\ last_v2g_msg = Msg.CABLE_CHECK /\ state = Msg.CABLE_CHECK
                   /\ 0 < base.first_time /\ base.first_time <= seen.first
                   /\ base.earliest <= seen.first

\* WeldingTest
WeldingNotes ==
    base.res_time > 0 => seen.last = base.res_time /\ (base.validate \/ seen.was_b \/ seen.sent)

Notes ==
    /\ PilotNotes
    /\ test # "welding_session_stop_001" => Stops
    /\ test \in ResponseTestNames => Extras /\ LatestB /\ ResponseNotes
    /\ test \in StateFTestNames => Extras /\ StateFNotes
    /\ test = "authorization_009" => OngoingNotes(Msg.AUTHORIZATION, Msg.AUTHORIZATION)
    /\ test = "precharge_006" => OngoingNotes(Msg.PRE_CHARGE, Msg.POWER_DELIVERY)
    /\ test = "cable_check_006" => CableCheckNotes
    /\ test = "welding_session_stop_001" => WeldingNotes

Inv == TypeNow /\ Notes

LEMMA InvInit ==
    ASSUME TestInit
    PROVE  Inv
  <1>1. TypeNow
    BY TypeInit
  <1>2. /\ session = "open" /\ state = 1 /\ last_v2g_msg = 18 /\ clock = 1 /\ bsp_event = 0
        /\ outcome = "PreconditionsNotMet" /\ base = NewTest /\ seen = NotSeen
        /\ (pilot = cp_state) = (on_its_way % 2 = 0)
    BY Numbers DEF TestInit, Init
  <1>3. Notes
    BY <1>2, Numbers
    DEF Notes, PilotNotes, Alternates, Heard, StateBNotes, LatestB, Stops, Extras, ResponseNotes,
        StateFNotes, OngoingNotes, CableCheckNotes, WeldingNotes, Tested, NewTest, NotSeen
  <1>4. QED
    BY <1>1, <1>3 DEF Inv

-----------------------------------------------------------------------------
(***************************************************************************)
(* Requests that the test does not handle itself                           *)
(***************************************************************************)
\* An action that may only be a reason to talk
TalksOnly ==
    /\ seen'.talked = (seen.talked \/ seen.last > 0)
    /\ seen'.first = seen.first /\ seen'.last = seen.last /\ seen'.b = seen.b
    /\ seen'.was_b = seen.was_b /\ seen'.sent = seen.sent /\ seen'.stamped = seen.stamped
    /\ seen'.delayed = seen.delayed /\ seen'.stopped = seen.stopped

LEMMA TalksFacts ==
    ASSUME TypeNow, Talks
    PROVE  TalksOnly
  BY DEF TypeNow, Seens, Talks, TalksOnly

LEMMA Typed ==
    ASSUME TypeNow
    PROVE  /\ clock \in Nat /\ clock > 0 /\ bsp_event \in 0..clock
           /\ base.received \in BOOLEAN /\ base.failed \in BOOLEAN /\ base.extra \in BOOLEAN
           /\ base.aborted \in BOOLEAN /\ base.validate \in BOOLEAN
           /\ base.b_time \in 0..clock /\ base.first_time \in 0..clock
           /\ base.req_time \in 0..clock /\ base.res_time \in 0..clock
           /\ base.sequence_time \in 0..clock /\ base.stop_req_time \in 0..clock
           /\ base.stop_res_time \in 0..clock /\ base.earliest \in 0..clock
           /\ base.last_sequence \in 0..clock
           /\ seen.first \in 0..clock /\ seen.last \in 0..clock /\ seen.stopped \in 0..clock
           /\ seen.was_b \in BOOLEAN /\ seen.talked \in BOOLEAN /\ seen.b \subseteq 0..clock
           /\ seen.sent \in BOOLEAN /\ seen.stamped \in BOOLEAN /\ seen.delayed \in BOOLEAN
  BY MaxTimeIsNat DEF TypeNow, Bases, Seens, SoFar, Times

LEMMA TypedPilot ==
    ASSUME TypeNow
    PROVE  /\ pilot \in {"B", "C"} /\ cp_state \in {"B", "C"} /\ on_its_way \in Nat
           /\ Heard \in {"B", "C"}
  BY MaxOnItsWayIsNat DEF TypeNow, Heard

\* The server knows the control pilot when nothing is on its way, and not when one change is.
LEMMA Parity ==
    ASSUME NEW n \in Nat
    PROVE  /\ 0 % 2 = 0 /\ 1 % 2 # 0 /\ 2 % 2 = 0
           /\ (n % 2 = 0) = ~((n + 1) % 2 = 0)
           /\ n > 0 => (n % 2 = 0) = ~((n - 1) % 2 = 0)
  OBVIOUS

LEMMA AlternatesFacts ==
    ASSUME TypeNow, Alternates
    PROVE  /\ on_its_way = 0 => pilot = Heard
           /\ on_its_way = 1 => pilot # Heard
           /\ on_its_way = 2 => pilot = Heard
  BY Parity, TypedPilot DEF Alternates

\* A step that leaves what is known of state B
BspSame == UNCHANGED <<pilot, on_its_way, cp_state, bsp_event>>

LEMMA PilotKept ==
    ASSUME PilotNotes, BspSame, test' = test, clock' = clock, base'.b_time = base.b_time,
           seen'.last = seen.last, seen'.b = seen.b, seen'.sent = seen.sent,
           seen'.delayed = seen.delayed
    PROVE  /\ PilotNotes'
           /\ /\ base'.validate = base.validate /\ seen'.was_b = seen.was_b
              /\ seen'.stamped = seen.stamped /\ (seen.talked => seen'.talked)
              => (LatestB => LatestB')
  <1>1. EntryOnItsWay' = EntryOnItsWay
    BY DEF BspSame, EntryOnItsWay
  <1>2. Alternates'
    BY DEF BspSame, PilotNotes, Alternates, Heard
  <1>3. StateBNotes => StateBNotes'
    BY <1>1 DEF BspSame, StateBNotes, Stamped, OnItsWay
  <1>4. ASSUME base'.validate = base.validate, seen'.was_b = seen.was_b,
               seen'.stamped = seen.stamped, seen.talked => seen'.talked, LatestB
        PROVE  LatestB'
    BY <1>1, <1>4 DEF BspSame, LatestB
  <1>5. QED
    BY <1>2, <1>3, <1>4 DEF PilotNotes

\* A response that the test is about is sent.
LEMMA PilotAnew ==
    ASSUME TypeNow, PilotNotes, BspSame, seen'.last = clock', seen'.b = {},
           seen'.sent = (on_its_way > 0), clock' \in Nat,
           bsp_event < clock', base'.b_time < clock'
    PROVE  PilotNotes'
  <1>1. Alternates'
    BY DEF BspSame, PilotNotes, Alternates, Heard
  <1>2. EntryOnItsWay' => seen'.sent
    <2>1. EntryOnItsWay' => on_its_way > 0
      BY TypedPilot DEF BspSame, EntryOnItsWay
    <2>2. on_its_way > 0 => seen'.sent
      BY Zenon
    <2>3. QED
      BY <2>1, <2>2
  <1>3. OnItsWay'
    BY <1>2 DEF OnItsWay
  <1>4. StateBNotes'
    BY <1>3 DEF StateBNotes, Stamped, BspSame
  <1>5. QED
    BY <1>1, <1>4 DEF PilotNotes

\* When nothing is on its way, a vehicle that need not be asked is in state B.
LEMMA KnownB ==
    ASSUME TypeNow, PilotNotes, cp_state = "B"
    PROVE  pilot = "B" \/ on_its_way > 0
  BY AlternatesFacts, TypedPilot DEF PilotNotes, Heard

LEMMA Unexpected ==
    ASSUME Inv, InSession, NEW counts \in BOOLEAN, test \in TalkerTests => counts,
           UnexpectedRequest(counts)
    PROVE  Notes'
  <1>1. /\ base' = [base EXCEPT !.extra = @ \/ counts]
        /\ outcome' = IF counts THEN "PassCriteriaNotMet" ELSE outcome
        /\ session' = "closing" /\ session = "open"
        /\ UNCHANGED <<state, last_v2g_msg, clock, test,
                       terminate_connection_on_failed_response>>
        /\ BspSame
    BY DEF UnexpectedRequest, InSession, config, bspVars, BspSame
  <1>2. TalksOnly
    BY TalksFacts DEF UnexpectedRequest, Inv
  <1>3. /\ base'.extra = (base.extra \/ counts)
        /\ base'.b_time = base.b_time /\ base'.validate = base.validate
        /\ base'.stop_req_time = base.stop_req_time /\ base'.stop_res_time = base.stop_res_time
        /\ base'.received = base.received /\ base'.failed = base.failed
        /\ base'.aborted = base.aborted /\ base'.first_time = base.first_time
        /\ base'.earliest = base.earliest
        /\ base'.res_time = base.res_time /\ base'.req_time = base.req_time
    BY <1>1 DEF Inv, TypeNow, Bases
  <1> USE <1>1, <1>2, <1>3, Typed DEF Inv, Notes, TalksOnly, Tested
  <1>4. /\ PilotNotes' /\ (test \in ResponseTestNames => LatestB')
        /\ (test # "welding_session_stop_001" => Stops)'
    BY PilotKept DEF Stops
  <1>5. (test \in ResponseTestNames => Extras /\ ResponseNotes)'
    BY DEF Extras, ResponseNotes, Deviated
  <1>6. (test \in StateFTestNames => Extras /\ StateFNotes)'
    BY DEF Extras, StateFNotes
  <1>7. /\ (test = "authorization_009" => OngoingNotes(Msg.AUTHORIZATION, Msg.AUTHORIZATION))'
        /\ (test = "precharge_006" => OngoingNotes(Msg.PRE_CHARGE, Msg.POWER_DELIVERY))'
    BY DEF OngoingNotes
  <1>8. /\ (test = "cable_check_006" => CableCheckNotes)'
        /\ (test = "welding_session_stop_001" => WeldingNotes)'
    BY DEF CableCheckNotes, WeldingNotes
  <1>9. QED
    BY <1>4, <1>5, <1>6, <1>7, <1>8

LEMMA BaseHandlesFacts ==
    ASSUME TypeNow, NEW m \in Requests \ {Msg.SESSION_STOP}, BaseHandles(m), session = "open"
    PROVE  /\ UNCHANGED <<base, outcome, clock>> /\ TalksOnly /\ session' # "closed"
           /\ \/ UNCHANGED <<session, state, last_v2g_msg>>
              \/ /\ last_v2g_msg' = m /\ state' # Msg.SESSION_SETUP
                 /\ session' = "open" /\ terminate_connection_on_failed_response
                    => InOrder(m) \/ state' = Msg.PAYMENT_DETAILS
  <1>1. UNCHANGED <<base, outcome, clock>> /\ TalksOnly
    BY TalksFacts DEF BaseHandles, testVars
  <1>2. CASE UNCHANGED replyVars
    BY <1>1, <1>2 DEF replyVars
  <1>3. ASSUME NEW v \in validate_response_code(m), NEW next \in NextStates(m),
               Reply(m, v.event, next), ~Ignored(m)
        PROVE  /\ last_v2g_msg' = m /\ state' # Msg.SESSION_SETUP /\ session' # "closed"
               /\ session' = "open" /\ terminate_connection_on_failed_response => InOrder(m)
    <2>1. m \in Handled
      BY <1>3 DEF Ignored, Handled
    <2>2. state' # Msg.SESSION_SETUP
      BY <1>3, <2>1, NextStatesAreIds DEF Reply
    <2>3. v.event \in Events
      BY <1>3, Responses
    <2>4. last_v2g_msg' = m /\ session' # "closed" /\ (session' = "open" => v.event = "NO_EVENT")
      BY <1>3, <2>3 DEF Reply, Events
    <2>5. QED
      BY <1>3, <2>2, <2>4, Responses
  <1>4. CASE Reply(m, "SEND_AND_TERMINATE", Msg.WELDING_DETECTION)
    BY <1>1, <1>4, Numbers DEF Reply
  <1>5. CASE SentAsItIs(m)
    BY <1>1, <1>5, Numbers DEF SentAsItIs, Reply
  <1>6. QED
    BY <1>1, <1>2, <1>3, <1>4, <1>5 DEF BaseHandles

LEMMA Handling ==
    ASSUME Inv, InSession, NEW m \in Requests \ {Msg.SESSION_STOP}, BaseHandles(m),
           test \in ResponseTestNames => test # "session_setup_004" /\ Silenced,
           test = "authorization_009" => m < Msg.AUTHORIZATION,
           test = "precharge_006" => m < Msg.PRE_CHARGE,
           test = "cable_check_006" => m < Msg.CABLE_CHECK,
           test # "welding_session_stop_001"
    PROVE  Notes'
  <1>1. /\ session = "open"
        /\ UNCHANGED <<test, terminate_connection_on_failed_response>> /\ BspSame
    BY DEF InSession, config, bspVars, BspSame
  <1>2. /\ UNCHANGED <<base, outcome, clock>> /\ TalksOnly /\ session' # "closed"
        /\ \/ UNCHANGED <<session, state, last_v2g_msg>>
           \/ /\ last_v2g_msg' = m /\ state' # Msg.SESSION_SETUP
              /\ session' = "open" /\ terminate_connection_on_failed_response
                 => InOrder(m) \/ state' = Msg.PAYMENT_DETAILS
    BY <1>1, BaseHandlesFacts DEF Inv
  <1> USE <1>1, <1>2, Typed DEF Inv, Notes, TalksOnly, Tested
  <1>3. PilotNotes' /\ (test \in ResponseTestNames => LatestB') /\ Stops'
    BY PilotKept DEF Stops
  <1>4. (test \in ResponseTestNames => Extras /\ ResponseNotes)'
    BY DEF Extras, ResponseNotes, Deviated, Silenced
  <1>5. (test \in StateFTestNames => Extras /\ StateFNotes)'
    BY DEF Extras, StateFNotes
  <1>6. (test = "authorization_009" => OngoingNotes(Msg.AUTHORIZATION, Msg.AUTHORIZATION))'
    BY Numbers, RequestNumbers DEF OngoingNotes, InOrder
  <1>7. (test = "precharge_006" => OngoingNotes(Msg.PRE_CHARGE, Msg.POWER_DELIVERY))'
    BY Numbers, RequestNumbers DEF OngoingNotes, InOrder
  <1>8. (test = "cable_check_006" => CableCheckNotes)'
    BY Numbers, RequestNumbers DEF CableCheckNotes, InOrder
  <1>9. QED
    BY <1>3, <1>4, <1>5, <1>6, <1>7, <1>8

LEMMA Stopping ==
    ASSUME Inv, InSession, NEW takes_times \in BOOLEAN, HandleSessionStop(takes_times),
           test # "welding_session_stop_001"
    PROVE  Notes'
  <1>1. /\ session = "open" /\ session' = "closing" /\ state' = Msg.UNKNOWN
        /\ last_v2g_msg' = Msg.SESSION_STOP
        /\ UNCHANGED <<clock, test, outcome, terminate_connection_on_failed_response>>
        /\ BspSame
    BY DEF HandleSessionStop, Reply, InSession, config, bspVars, BspSame
  <1>2. /\ base' = IF takes_times
                   THEN [base EXCEPT !.stop_req_time = clock, !.stop_res_time = clock] ELSE base
        /\ seen' = [seen EXCEPT !.stopped = clock]
    BY DEF HandleSessionStop
  <1>3. /\ base'.stop_req_time = base'.stop_res_time
        /\ base'.stop_req_time \in {base.stop_req_time, clock}
        /\ base'.extra = base.extra
        /\ base'.b_time = base.b_time /\ base'.validate = base.validate
        /\ base'.received = base.received /\ base'.failed = base.failed
        /\ base'.aborted = base.aborted /\ base'.first_time = base.first_time
        /\ base'.earliest = base.earliest
        /\ base'.res_time = base.res_time /\ base'.req_time = base.req_time
    BY <1>2 DEF Inv, TypeNow, Bases, Notes, Stops
  <1>4. /\ seen'.first = seen.first /\ seen'.last = seen.last /\ seen'.b = seen.b
        /\ seen'.was_b = seen.was_b /\ seen'.sent = seen.sent /\ seen'.stamped = seen.stamped
        /\ seen'.delayed = seen.delayed /\ seen'.talked = seen.talked /\ seen'.stopped = clock
    BY <1>2 DEF Inv, TypeNow, Seens
  <1> USE <1>1, <1>3, <1>4, Typed DEF Inv, Notes, Tested
  <1>5. PilotNotes' /\ (test \in ResponseTestNames => LatestB') /\ Stops'
    BY PilotKept DEF Stops
  <1>6. (test \in ResponseTestNames => Extras /\ ResponseNotes)'
    BY Numbers DEF Extras, ResponseNotes, Deviated
  <1>7. (test \in StateFTestNames => Extras /\ StateFNotes)'
    BY DEF Extras, StateFNotes
  <1>8. /\ (test = "authorization_009" => OngoingNotes(Msg.AUTHORIZATION, Msg.AUTHORIZATION))'
        /\ (test = "precharge_006" => OngoingNotes(Msg.PRE_CHARGE, Msg.POWER_DELIVERY))'
        /\ (test = "cable_check_006" => CableCheckNotes)'
    BY Numbers DEF OngoingNotes, CableCheckNotes
  <1>9. QED
    BY <1>5, <1>6, <1>7, <1>8

-----------------------------------------------------------------------------
(***************************************************************************)
(* The deviation                                                           *)
(***************************************************************************)
LEMMA Deviating ==
    ASSUME Inv, InSession, test \in ResponseTestNames, Deviates, Silenced
    PROVE  Notes'
  <1>1. PICK request \in Handled, sent \in Requests, event \in {"NO_EVENT", "IGNORE_MSG"},
             forced \in BOOLEAN, failing \in SUBSET Requests :
          /\ test = "session_setup_004" => request = Msg.SESSION_SETUP
          /\ Deviate(request, sent, event, forced, failing)
    BY DEF Deviates
  <1>2. PICK v \in validate_response_code(request), next \in NextStates(request) :
          IF Succeeds(v)
          THEN /\ Reply(sent, event, next)
               /\ base' = [base EXCEPT !.received = TRUE, !.req_time = clock,
                                       !.res_time = clock + 1,
                                       !.validate = @ \/ cp_state # "B"]
               /\ clock' = clock + 1
               /\ seen' = [ResponseSent(clock, clock + 1) EXCEPT !.talked = @ \/ seen.last > 0]
          ELSE /\ \E m \in failing : Reply(m, v.event, next)
               /\ base' = [base EXCEPT !.received = TRUE, !.failed = TRUE, !.req_time = clock]
               /\ Talks
               /\ UNCHANGED clock
    BY <1>1 DEF Deviate
  <1>3. /\ session = "open" /\ outcome' = outcome
        /\ UNCHANGED <<test, terminate_connection_on_failed_response>> /\ BspSame
        /\ test \notin StateFTestNames \union {"authorization_009", "precharge_006",
                                               "cable_check_006", "welding_session_stop_001"}
    BY <1>1 DEF Deviate, InSession, config, bspVars, BspSame, ResponseTestNames, StateFTestNames
  <1>4. session' # "closed" /\ state' # Msg.SESSION_SETUP
    BY <1>2, NextStatesAreIds DEF Reply
  <1>5. /\ base'.received = TRUE /\ base'.b_time = base.b_time /\ base'.extra = base.extra
        /\ base'.stop_req_time = base.stop_req_time /\ base'.stop_res_time = base.stop_res_time
    BY <1>2 DEF Inv, TypeNow, Bases
  <1> USE Typed DEF Inv, Notes, Tested
  <1>6. CASE Succeeds(v)
    <2>1. /\ base'.validate = (base.validate \/ cp_state # "B") /\ base'.failed = base.failed
          /\ base'.req_time = clock /\ base'.res_time = clock + 1 /\ clock' = clock + 1
      BY <1>2, <1>6 DEF TypeNow, Bases
    <2>2. seen' = [ResponseSent(clock, clock + 1) EXCEPT !.talked = @ \/ seen.last > 0]
      BY <1>2, <1>6
    <2>3. /\ seen'.first = clock /\ seen'.last = clock + 1 /\ seen'.was_b = (pilot = "B")
          /\ seen'.sent = (on_its_way > 0) /\ seen'.stamped = (bsp_event > 0 /\ cp_state # "B")
          /\ seen'.b = {} /\ seen'.delayed = FALSE /\ seen'.stopped = seen.stopped
          /\ seen'.talked = (seen.talked \/ seen.last > 0)
      <3>1. clock + 1 \in 0..clock + 1 /\ clock \in 0..clock + 1 /\ seen \in Seens(0..clock + 1)
        <4>1. clock \in Nat /\ seen \in Seens(SoFar) /\ SoFar = 0..clock
          BY Typed DEF TypeNow, SoFar
        <4>2. \A time \in SoFar : time \in 0..clock + 1
          BY <4>1
        <4>3. seen \in Seens(0..clock + 1)
          BY <4>1, <4>2 DEF Seens
        <4>4. QED
          BY <4>1, <4>3
      <3> DEFINE response == ResponseSent(clock, clock + 1)
      <3>2. /\ response \in Seens(0..clock + 1)
            /\ ResponseFields(response, clock, clock + 1)
        BY <3>1, TypeResponseSent
      <3>3. seen' = [response EXCEPT !.talked = @ \/ seen.last > 0]
        BY <2>2
      <3> HIDE DEF response
      <3>4. /\ seen'.first = response.first /\ seen'.last = response.last
            /\ seen'.was_b = response.was_b /\ seen'.sent = response.sent
            /\ seen'.stamped = response.stamped /\ seen'.b = response.b
            /\ seen'.delayed = response.delayed /\ seen'.stopped = response.stopped
            /\ seen'.talked = (response.talked \/ seen.last > 0)
        BY <3>2, <3>3 DEF Seens
      <3>5. QED
        BY <3>2, <3>4 DEF ResponseFields
    <2>4. test = "session_setup_004" => state = Msg.SESSION_SETUP
      BY <1>1, <1>6, Responses, Numbers DEF InOrder
    <2>5. PilotNotes' /\ Stops' /\ Extras' /\ LatestB'
      <3>1. PilotNotes'
        BY <1>3, <1>5, <2>1, <2>3, PilotAnew
      <3>2. Stops' /\ Extras'
        BY <1>3, <1>4, <1>5, <2>1, <2>3 DEF Stops, Extras
      <3>3. LatestB'
        <4>1. SUFFICES ASSUME base'.validate, ~EntryOnItsWay', seen'.was_b, ~seen'.talked,
                              ~seen'.stamped
                       PROVE  FALSE
          BY <2>3 DEF LatestB
        <4>2. pilot = "B" /\ on_its_way = 0 /\ Heard = "B"
          BY <1>3, <2>3, <4>1, AlternatesFacts, TypedPilot DEF EntryOnItsWay, BspSame, PilotNotes
        <4>3. cp_state = "B" /\ ~base.validate
          BY <1>3, <2>3, <4>1, <4>2 DEF Heard, ResponseNotes
        <4>4. QED
          BY <2>1, <4>1, <4>3
      <3>4. QED
        BY <3>1, <3>2, <3>3
    <2>6. ResponseNotes'
      <3>1. Deviated'
        <4>1. base'.validate \/ seen'.was_b \/ seen'.sent
          BY <2>1, <2>3, KnownB
        <4>2. base'.validate /\ seen'.was_b => seen'.talked \/ seen'.sent \/ seen'.stamped
          BY <1>3, <2>1, <2>3, AlternatesFacts, TypedPilot DEF ResponseNotes, PilotNotes, Heard
        <4>3. QED
          BY <2>1, <2>3, <4>1, <4>2 DEF Deviated
      <3>2. test \in TalkerTests /\ seen'.talked => base'.failed
        <4>1. test \in TalkerTests => seen.last = 0
          BY <1>3, <2>4 DEF ResponseNotes, Silenced
        <4>2. QED
          BY <1>3, <2>1, <2>3, <4>1 DEF ResponseNotes, Extras
      <3>3. QED
        BY <1>3, <1>4, <1>5, <2>3, <3>1, <3>2 DEF ResponseNotes
    <2>7. QED
      BY <1>3, <2>5, <2>6
  <1>7. CASE ~Succeeds(v)
    <2>1. /\ base'.validate = base.validate /\ base'.failed = TRUE /\ clock' = clock
      BY <1>2, <1>7 DEF TypeNow, Bases
    <2>2. TalksOnly
      BY <1>2, <1>7, TalksFacts
    <2>3. PilotNotes' /\ Stops' /\ Extras' /\ LatestB'
      BY <1>3, <1>4, <1>5, <2>1, <2>2, PilotKept
      DEF Stops, Extras, TalksOnly
    <2>4. ResponseNotes'
      BY <1>3, <1>4, <1>5, <2>1, <2>2 DEF ResponseNotes, TalksOnly
    <2>5. QED
      BY <1>3, <2>3, <2>4
  <1>8. QED
    BY <1>6, <1>7

\* What the vehicle really did when a response is sent that the test is about
SentNow(first) ==
    /\ seen'.first = first /\ seen'.last = clock
    /\ seen'.was_b = (pilot = "B") /\ seen'.sent = (on_its_way > 0)
    /\ seen'.b = {} /\ seen'.stopped = seen.stopped

\* What is known of the response to a request that is repeated
AnsweredFact(request, event, next, repeated, good, forever, starts, validate) ==
    /\ Reply(request, event, next) /\ UNCHANGED <<linkVars, outcome, clock>>
    /\ bsp_event < clock /\ base.b_time < clock
    /\ base'.aborted = (repeated.aborted \/ forever)
    /\ base'.failed = (repeated.failed \/ ~good)
    /\ base'.received = repeated.received /\ base'.b_time = repeated.b_time
    /\ base'.first_time = repeated.first_time /\ base'.earliest = repeated.earliest
    /\ base'.stop_req_time = repeated.stop_req_time
    /\ base'.stop_res_time = repeated.stop_res_time
    /\ event \in {"NO_EVENT", "SEND_AND_TERMINATE"} =>
          base'.res_time = clock /\ base'.validate = validate
    /\ IF good /\ ~forever
       THEN SentNow(IF seen.first = 0 /\ starts THEN clock ELSE seen.first)
       ELSE seen' = seen

LEMMA AnsweredFacts ==
    ASSUME TypeNow, NEW request, NEW event, NEW next, NEW repeated \in Bases(SoFar),
           NEW good \in BOOLEAN, NEW forever \in BOOLEAN, NEW starts \in BOOLEAN,
           NEW validate \in BOOLEAN,
           Answered(request, event, next, repeated, good, forever, starts, validate)
    PROVE  AnsweredFact(request, event, next, repeated, good, forever, starts, validate)
  <1>1. base' = [repeated EXCEPT !.aborted = @ \/ forever, !.failed = @ \/ ~good,
                    !.res_time = IF event \in {"NO_EVENT", "SEND_AND_TERMINATE"} THEN clock ELSE @,
                    !.validate = IF event \in {"NO_EVENT", "SEND_AND_TERMINATE"}
                                 THEN validate ELSE @]
    BY DEF Answered
  <1>2. seen' = IF good /\ ~forever
                THEN ResponseSent(IF seen.first = 0 /\ starts THEN clock ELSE seen.first, clock)
                ELSE seen
    BY DEF Answered
  <1>3. /\ base'.aborted = (repeated.aborted \/ forever)
        /\ base'.failed = (repeated.failed \/ ~good)
        /\ base'.received = repeated.received /\ base'.b_time = repeated.b_time
        /\ base'.first_time = repeated.first_time /\ base'.earliest = repeated.earliest
        /\ base'.stop_req_time = repeated.stop_req_time
        /\ base'.stop_res_time = repeated.stop_res_time
    BY <1>1 DEF Bases
  <1>4. event \in {"NO_EVENT", "SEND_AND_TERMINATE"} =>
           base'.res_time = clock /\ base'.validate = validate
    BY <1>1 DEF Bases
  <1>5. IF good /\ ~forever
        THEN SentNow(IF seen.first = 0 /\ starts THEN clock ELSE seen.first)
        ELSE seen' = seen
    <2>1. /\ (IF seen.first = 0 /\ starts THEN clock ELSE seen.first) \in SoFar
          /\ clock \in SoFar /\ seen \in Seens(SoFar)
      BY MaxTimeIsNat DEF TypeNow, Seens, SoFar, Times
    <2>2. ASSUME NEW first \in SoFar, seen' = ResponseSent(first, clock)
          PROVE  SentNow(first)
      <3>1. ResponseFields(ResponseSent(first, clock), first, clock)
        BY <2>1, <2>2, TypeResponseSent
      <3>2. QED
        BY <2>2, <3>1 DEF ResponseFields, SentNow
    <2>3. QED
      BY <1>2, <2>1, <2>2
  <1>6. QED
    BY <1>3, <1>4, <1>5 DEF Answered, AnsweredFact, StampsAreEarlier

\* The parts of the invariant that do not depend on the test
LEMMA AnsweredCommon ==
    ASSUME Inv, InSession, NEW good, NEW forever, NEW starts,
           base'.b_time = base.b_time, clock' = clock,
           bsp_event < clock, base.b_time < clock,
           base'.stop_req_time = base.stop_req_time, base'.stop_res_time = base.stop_res_time,
           IF good /\ ~forever
           THEN SentNow(IF seen.first = 0 /\ starts THEN clock ELSE seen.first)
           ELSE seen' = seen
    PROVE  PilotNotes' /\ (test # "welding_session_stop_001" => Stops')
  <1>1. BspSame /\ session = "open" /\ test' = test /\ TypeNow /\ PilotNotes
    BY DEF InSession, bspVars, config, BspSame, Inv, Notes
  <1>2. CASE seen' = seen
    <2>1. PilotNotes'
      BY <1>1, <1>2, PilotKept
    <2>2. QED
      BY <1>1, <1>2, <2>1, Typed DEF Inv, Notes, Stops
  <1>3. CASE SentNow(IF seen.first = 0 /\ starts THEN clock ELSE seen.first)
    <2>1. PilotNotes'
      BY <1>1, <1>3, Typed, PilotAnew DEF SentNow
    <2>2. QED
      BY <1>1, <1>3, <2>1, Typed DEF Inv, Notes, Stops, SentNow
  <1>4. QED
    BY <1>2, <1>3

\* After CertificateInstallation, whose response is sent as it is, none of the requests of
\* the test cases is in order.
LEMMA OutOfOrder ==
    ASSUME NEW m \in Handled, InOrder(m)
    PROVE  state # Msg.PAYMENT_DETAILS
  BY Numbers, RequestNumbers DEF Handled, InOrder

LEMMA Answering ==
    ASSUME Inv, InSession, ~base.failed,
           NEW request \in Handled, NEW next \in Ids,
           NEW v \in validate_response_code(request), NEW last_time \in SoFar,
           NEW validate \in BOOLEAN, validate \/ cp_state = "B",
           OngoingNotes(request, next),
           Answer(request, v, next, Repeated(request, last_time), validate)
    PROVE  /\ OngoingNotes(request, next)' /\ PilotNotes'
           /\ test # "welding_session_stop_001" => Stops'
  <1> DEFINE repeated == Repeated(request, last_time)
             good     == Succeeds(v)
             forever  == good /\ running_forever(repeated.first_time)
             event    == IF forever THEN "SEND_AND_TERMINATE" ELSE v.event
             starts   == TRUE
  <1>1. repeated \in Bases(SoFar)
    BY TypeRepeated DEF Inv
  <1>2. Answered(request, event, next, repeated, good, forever, starts, validate)
    BY DEF Answer
  <1>3. /\ repeated.received = TRUE /\ repeated.b_time = base.b_time
        /\ repeated.aborted = base.aborted /\ repeated.failed = base.failed
        /\ repeated.first_time = (IF last_v2g_msg = request THEN base.first_time ELSE clock)
        /\ repeated.stop_req_time = base.stop_req_time
        /\ repeated.stop_res_time = base.stop_res_time
    BY DEF Repeated, Inv, TypeNow, Bases
  <1>4. forever => clock - repeated.first_time > OngoingTimeout + TcpTimeout
    BY DEF running_forever
  <1>5. good /\ ~forever => clock - repeated.first_time <= OngoingTimeout + TcpTimeout
    BY <1>3, Typed, TimeAssumption DEF running_forever, Inv
  <1>6. good \in BOOLEAN /\ forever \in BOOLEAN /\ starts \in BOOLEAN /\ starts
    BY DEF Succeeds
  <1>7. /\ v.event \in Events /\ (good => event \in {"NO_EVENT", "SEND_AND_TERMINATE"})
        /\ event = "NO_EVENT" /\ terminate_connection_on_failed_response => good
        /\ forever => event = "SEND_AND_TERMINATE"
    BY Responses DEF Succeeds
  <1>8. /\ session = "open"
        /\ UNCHANGED <<test, terminate_connection_on_failed_response>>
    BY DEF InSession, config
  <1> HIDE DEF repeated, good, forever, event, starts
  <1>9. AnsweredFact(request, event, next, repeated, good, forever, starts, validate)
    BY <1>1, <1>2, <1>6, AnsweredFacts DEF Inv
  <1>10. PilotNotes' /\ (test # "welding_session_stop_001" => Stops')
    BY <1>3, <1>9, AnsweredCommon DEF AnsweredFact
  <1>11. last_v2g_msg' = request /\ state' = next /\ (session' = "open" => event = "NO_EVENT")
    <2>1. event # "IGNORE_MSG" /\ event \in Events
      BY <1>7 DEF Events, event
    <2>2. QED
      BY <1>9, <2>1 DEF Reply, Events, AnsweredFact
  <1> USE Typed DEF Inv, AnsweredFact
  <1>12. CASE good /\ ~forever
    <2>1. /\ base'.received = TRUE /\ base'.aborted = base.aborted /\ base'.failed = base.failed
          /\ base'.res_time = clock /\ base'.validate = validate /\ seen'.last = clock
          /\ seen'.was_b = (pilot = "B") /\ seen'.sent = (on_its_way > 0)
          /\ seen'.first = (IF seen.first = 0 THEN clock ELSE seen.first)
      BY <1>3, <1>6, <1>7, <1>9, <1>12 DEF SentNow
    <2>2. ~base.aborted
      BY <1>8 DEF OngoingNotes
    <2>3. base'.validate \/ seen'.was_b \/ seen'.sent
      BY <2>1, KnownB DEF Notes
    <2>4. terminate_connection_on_failed_response =>
             /\ base'.first_time <= seen'.first
             /\ seen'.last <= seen'.first + OngoingTimeout + TcpTimeout
      <3>1. CASE seen.first = 0
        BY <1>3, <1>9, <2>1, <3>1, TimeAssumption
      <3>2. CASE seen.first > 0
        <4>1. state # Msg.PAYMENT_DETAILS
          BY <1>12, Responses, OutOfOrder DEF good
        <4>2. QED
          BY <1>3, <1>5, <1>8, <1>9, <1>12, <2>1, <3>2, <4>1, TimeAssumption DEF OngoingNotes
      <3>3. QED
        BY <3>1, <3>2
    <2>5. QED
      BY <1>8, <1>9, <1>10, <1>11, <2>1, <2>2, <2>3, <2>4 DEF OngoingNotes, Tested
  <1>13. CASE forever
    <2>1. /\ base'.received = TRUE /\ base'.aborted = TRUE /\ seen' = seen /\ session' # "open"
      BY <1>3, <1>6, <1>7, <1>9, <1>11, <1>13
    <2>2. last_v2g_msg = request /\ base.received
      BY <1>3, <1>4, <1>13, TimeAssumption DEF OngoingNotes
    <2>3. QED
      BY <1>8, <1>9, <1>10, <1>11, <2>1, <2>2 DEF OngoingNotes, Tested
  <1>14. CASE ~good
    <2>1. /\ base'.received = TRUE /\ base'.failed = TRUE /\ seen' = seen
          /\ base'.aborted = (base.aborted \/ forever) /\ ~forever
          /\ terminate_connection_on_failed_response => session' # "open"
      BY <1>3, <1>6, <1>7, <1>9, <1>11, <1>14 DEF forever
    <2>2. base'.aborted = base.aborted
      BY <2>1
    <2>3. QED
      BY <1>8, <1>9, <1>10, <1>11, <2>1, <2>2 DEF OngoingNotes, Tested
  <1>15. QED
    BY <1>12, <1>13, <1>14

LEMMA Ongoing ==
    ASSUME Inv, NEW request \in Handled, NEW next \in Ids, OngoingStep(request, next),
           \/ /\ test = "authorization_009"
              /\ request = Msg.AUTHORIZATION /\ next = Msg.AUTHORIZATION
           \/ test = "precharge_006" /\ request = Msg.PRE_CHARGE /\ next = Msg.POWER_DELIVERY
    PROVE  Notes'
  <1>1. InSession /\ ~base.failed /\ OngoingNotes(request, next) /\ test \notin TalkerTests
    BY DEF OngoingStep, Inv, Notes, TalkerTests
  <1>2. CASE UnexpectedRequest(TRUE)
    BY <1>1, <1>2, Unexpected
  <1>3. ASSUME NEW m \in Requests, m < request, BaseHandles(m)
        PROVE  Notes'
    <2>1. m # Msg.SESSION_STOP
      BY <1>3, Numbers, RequestNumbers DEF Handled
    <2>2. test \notin ResponseTestNames \union {"cable_check_006", "welding_session_stop_001"}
      BY DEF ResponseTestNames
    <2>3. QED
      BY <1>1, <1>3, <2>1, <2>2, Handling
  <1>4. ASSUME NEW takes_times \in BOOLEAN, HandleSessionStop(takes_times)
        PROVE  Notes'
    BY <1>1, <1>4, Stopping
  <1>5. ASSUME NEW v \in validate_response_code(request), NEW last_time \in {clock, base.req_time},
               NEW validate \in {base.validate \/ cp_state # "B", cp_state # "B"},
               Answer(request, v, next, Repeated(request, last_time), validate)
        PROVE  Notes'
    <2>1. last_time \in SoFar
      BY Typed DEF Inv, SoFar
    <2>2. validate \in BOOLEAN
      BY Zenon
    <2>3. validate \/ cp_state = "B"
      BY Zenon
    <2>4. /\ OngoingNotes(request, next)' /\ PilotNotes'
          /\ test # "welding_session_stop_001" => Stops'
      BY <1>1, <1>5, <2>1, <2>2, <2>3, Answering
    <2>5. test' = test
      BY <1>1 DEF InSession, config
    <2>6. QED
      BY <2>4, <2>5 DEF Notes, ResponseTestNames, StateFTestNames
  <1>6. QED
    BY <1>2, <1>3, <1>4, <1>5 DEF OngoingStep

\* What chn_cable_check_006 notes of a request
RepeatedFact ==
    /\ cable_check_006_repeated.received
          = (base.received \/ last_v2g_msg # Msg.CABLE_CHECK)
    /\ cable_check_006_repeated.first_time
          = (IF last_v2g_msg = Msg.CABLE_CHECK /\ base.first_time = 0 THEN clock ELSE base.first_time)
    /\ cable_check_006_repeated.b_time = base.b_time
    /\ cable_check_006_repeated.aborted = base.aborted
    /\ cable_check_006_repeated.failed = base.failed
    /\ cable_check_006_repeated.earliest = base.earliest
    /\ cable_check_006_repeated.stop_req_time = base.stop_req_time
    /\ cable_check_006_repeated.stop_res_time = base.stop_res_time

LEMMA CableCheckRepeated ==
    ASSUME TypeNow
    PROVE  cable_check_006_repeated \in Bases(SoFar) /\ RepeatedFact
  <1> DEFINE sequence == IF base.res_time > 0 THEN clock - base.res_time ELSE base.last_sequence
             first    == IF last_v2g_msg = Msg.CABLE_CHECK /\ base.first_time = 0
                         THEN clock ELSE base.first_time
             received == base.received \/ last_v2g_msg # Msg.CABLE_CHECK
             longest  == LongerOf(base.sequence_time, sequence)
  <1>1. /\ base.res_time \in SoFar /\ base.sequence_time \in SoFar /\ received \in BOOLEAN
        /\ base.first_time \in SoFar /\ base.last_sequence \in SoFar /\ clock \in Nat
        /\ clock \in SoFar
    BY MaxTimeIsNat DEF TypeNow, Bases, SoFar, Times
  <1>2. sequence \in SoFar
    BY <1>1 DEF SoFar
  <1>3. longest \in SoFar /\ first \in SoFar
    BY <1>1, <1>2 DEF LongerOf
  <1>4. cable_check_006_repeated =
          [base EXCEPT !.received = received, !.first_time = first, !.last_sequence = sequence,
                       !.sequence_time = longest, !.req_time = clock]
    BY DEF cable_check_006_repeated
  <1>5. cable_check_006_repeated \in Bases(SoFar)
    <2> HIDE DEF received, first, sequence, longest
    <2>1. QED
      BY <1>1, <1>2, <1>3, <1>4 DEF TypeNow, Bases
  <1>6. RepeatedFact
    BY <1>4 DEF TypeNow, Bases, RepeatedFact
  <1>7. QED
    BY <1>5, <1>6

LEMMA CableChecking ==
    ASSUME Inv, InSession, test = "cable_check_006", ~base.failed, cable_check_006_cable_check
    PROVE  Notes'
  <1>1. PICK v \in validate_response_code(Msg.CABLE_CHECK), next \in NextStates(Msg.CABLE_CHECK),
             expected \in BOOLEAN :
          LET good    == Succeeds(v) /\ expected
              forever == good /\ running_forever(LongerOf(cable_check_006_repeated.earliest,
                                                          cable_check_006_repeated.first_time))
          IN  Answered(Msg.CABLE_CHECK,
                       IF forever /\ base.aborted THEN "SEND_AND_TERMINATE" ELSE v.event,
                       IF good THEN Msg.CABLE_CHECK ELSE next,
                       cable_check_006_repeated, good, forever, last_v2g_msg = Msg.CABLE_CHECK,
                       cp_state # "B")
    BY DEF cable_check_006_cable_check
  <1> DEFINE repeated == cable_check_006_repeated
             good     == Succeeds(v) /\ expected
             forever  == good /\ running_forever(LongerOf(repeated.earliest, repeated.first_time))
             event    == IF forever /\ base.aborted THEN "SEND_AND_TERMINATE" ELSE v.event
             after    == IF good THEN Msg.CABLE_CHECK ELSE next
             starts   == last_v2g_msg = Msg.CABLE_CHECK
             validate == cp_state # "B"
  <1>2. Answered(Msg.CABLE_CHECK, event, after, repeated, good, forever, starts, validate)
    BY <1>1
  <1>3. repeated \in Bases(SoFar) /\ RepeatedFact
    BY CableCheckRepeated DEF Inv
  <1>4. /\ good \in BOOLEAN /\ forever \in BOOLEAN /\ starts \in BOOLEAN /\ validate \in BOOLEAN
        /\ (starts <=> last_v2g_msg = Msg.CABLE_CHECK) /\ (good => after = Msg.CABLE_CHECK)
        /\ (forever => good)
    BY DEF Succeeds
  <1>5. event \in Events
    BY Responses DEF Events
  <1>6. good => state # Msg.PAYMENT_DETAILS
    BY Responses, OutOfOrder, Numbers, RequestNumbers DEF Handled
  <1>7. good /\ ~forever =>
          clock - LongerOf(repeated.earliest, repeated.first_time) <= OngoingTimeout + TcpTimeout
    BY <1>3, Typed, TimeAssumption DEF running_forever, LongerOf, Inv, RepeatedFact
  <1>8. /\ session = "open"
        /\ UNCHANGED <<test, terminate_connection_on_failed_response>>
    BY DEF InSession, config
  <1> HIDE DEF repeated, good, forever, event, after, starts, validate
  <1>9. AnsweredFact(Msg.CABLE_CHECK, event, after, repeated, good, forever, starts, validate)
    BY <1>2, <1>3, <1>4, AnsweredFacts DEF Inv
  <1> USE Typed DEF Inv, AnsweredFact
  <1>10. PilotNotes' /\ (test # "welding_session_stop_001" => Stops')
    BY <1>3, <1>9, AnsweredCommon DEF RepeatedFact, repeated
  <1>11. last_v2g_msg' = Msg.CABLE_CHECK /\ state' = after
    BY <1>5, <1>9 DEF Reply, Events
  <1>12. CableCheckNotes
    BY DEF Notes
  <1>13. /\ base'.received = (base.received \/ ~starts)
         /\ base'.first_time = (IF starts /\ base.first_time = 0 THEN clock ELSE base.first_time)
         /\ base'.aborted = (base.aborted \/ forever) /\ base'.failed = ~good
         /\ base'.earliest = base.earliest
    BY <1>3, <1>4, <1>9 DEF RepeatedFact, repeated
  <1>14. base'.received
    BY <1>4, <1>12, <1>13 DEF CableCheckNotes
  <1>15. CASE good /\ ~forever
    <2>1. /\ state' = Msg.CABLE_CHECK /\ base'.aborted = base.aborted
          /\ seen'.first = (IF seen.first = 0 /\ starts THEN clock ELSE seen.first)
          /\ seen'.last = clock
      BY <1>4, <1>9, <1>11, <1>13, <1>15 DEF SentNow
    <2>2. CASE seen.first > 0
      <3>1. terminate_connection_on_failed_response =>
              /\ starts /\ 0 < base.first_time
              /\ base.first_time <= seen.first /\ base.earliest <= seen.first
        BY <1>4, <1>8, <1>12, <1>15, <1>6, <2>2 DEF CableCheckNotes
      <3>2. terminate_connection_on_failed_response =>
              clock <= seen.first + OngoingTimeout + TcpTimeout
        BY <1>3, <1>7, <1>15, <3>1, TimeAssumption DEF LongerOf, RepeatedFact, repeated
      <3>3. CableCheckNotes'
        BY <1>8, <1>11, <1>13, <1>14, <2>1, <2>2, <3>1, <3>2 DEF CableCheckNotes
      <3>4. QED
        BY <1>8, <1>10, <3>3 DEF Notes, ResponseTestNames, StateFTestNames
    <2>3. CASE seen.first = 0
      <3>1. CableCheckNotes'
        BY <1>8, <1>11, <1>13, <1>14, <2>1, <2>3, TimeAssumption DEF CableCheckNotes
      <3>2. QED
        BY <1>8, <1>10, <3>1 DEF Notes, ResponseTestNames, StateFTestNames
    <2>4. QED
      BY <2>2, <2>3
  <1>16. CASE forever
    <2>1. seen' = seen /\ base'.aborted /\ state' = Msg.CABLE_CHECK
      BY <1>4, <1>9, <1>11, <1>13, <1>16
    <2>2. CableCheckNotes'
      BY <1>4, <1>8, <1>11, <1>12, <1>13, <1>14, <1>16, <1>6, <2>1 DEF CableCheckNotes
    <2>3. QED
      BY <1>8, <1>10, <2>2 DEF Notes, ResponseTestNames, StateFTestNames
  <1>17. CASE ~good
    <2>1. seen' = seen /\ base'.failed
      BY <1>9, <1>13, <1>17
    <2>2. CableCheckNotes'
      BY <1>8, <1>11, <1>12, <1>14, <2>1 DEF CableCheckNotes, Tested
    <2>3. QED
      BY <1>8, <1>10, <2>2 DEF Notes, ResponseTestNames, StateFTestNames
  <1>18. QED
    BY <1>15, <1>16, <1>17

LEMMA CableCheck ==
    ASSUME Inv, test = "cable_check_006", CableCheckStep
    PROVE  Notes'
  <1>1. /\ InSession /\ ~base.failed /\ test \notin TalkerTests \union ResponseTestNames
        /\ test \notin StateFTestNames /\ base.received \in BOOLEAN
    BY Typed DEF CableCheckStep, TalkerTests, ResponseTestNames, StateFTestNames, Inv
  <1>2. /\ session = "open"
        /\ UNCHANGED <<test, terminate_connection_on_failed_response>> /\ BspSame
    BY <1>1 DEF InSession, config, bspVars, BspSame
  <1> USE Typed DEF Inv, Notes
  <1>3. CASE cable_check_006_unexpected_request
    <2>1. /\ session' = "closing" /\ UNCHANGED <<state, last_v2g_msg, clock>> /\ TalksOnly
      BY <1>3, TalksFacts DEF cable_check_006_unexpected_request
    <2>2. /\ base'.b_time = base.b_time /\ base'.received = base.received
          /\ base'.failed = base.failed /\ base'.aborted = base.aborted
          /\ base'.stop_req_time = base.stop_req_time /\ base'.stop_res_time = base.stop_res_time
      BY <1>3 DEF cable_check_006_unexpected_request, TypeNow, Bases
    <2>3. PilotNotes' /\ Stops' /\ CableCheckNotes'
      BY <1>2, <2>1, <2>2, PilotKept DEF Stops, CableCheckNotes, Tested, TalksOnly
    <2>4. QED
      BY <1>1, <1>2, <2>3
  <1>4. CASE cable_check_006_charge_parameter
    <2>1. PICK v \in validate_response_code(Msg.CHARGE_PARAMETER_DISCOVERY),
               next \in NextStates(Msg.CHARGE_PARAMETER_DISCOVERY) :
            /\ Reply(Msg.CHARGE_PARAMETER_DISCOVERY, v.event, next)
            /\ base' = IF v.event = "NO_EVENT" /\ next = Msg.CABLE_CHECK
                       THEN [base EXCEPT !.earliest = clock] ELSE base
      BY <1>4 DEF cable_check_006_charge_parameter
    <2>2. v.event \in Events
      BY Responses
    <2>3. /\ last_v2g_msg' = Msg.CHARGE_PARAMETER_DISCOVERY /\ session' # "closed"
          /\ (session' = "open" => v.event = "NO_EVENT") /\ TalksOnly /\ clock' = clock
      BY <1>4, <2>1, <2>2, TalksFacts DEF Reply, Events, cable_check_006_charge_parameter
    <2>4. /\ base'.b_time = base.b_time /\ base'.received = base.received
          /\ base'.failed = base.failed /\ base'.aborted = base.aborted
          /\ base'.stop_req_time = base.stop_req_time /\ base'.stop_res_time = base.stop_res_time
      BY <2>1 DEF TypeNow, Bases
    <2>5. terminate_connection_on_failed_response /\ session' = "open" => seen.first = 0
      BY <1>1, <1>2, <2>3, Responses, Numbers DEF InOrder, CableCheckNotes
    <2>6. PilotNotes' /\ Stops' /\ CableCheckNotes'
      BY <1>2, <2>3, <2>4, <2>5, Numbers, PilotKept
      DEF Stops, CableCheckNotes, Tested, TalksOnly
    <2>7. QED
      BY <1>1, <1>2, <2>6
  <1>5. CASE cable_check_006_cable_check
    BY <1>1, <1>5, CableChecking
  <1>6. CASE HandleSessionStop(base.received)
    BY <1>1, <1>6, Stopping
  <1>7. ASSUME NEW m \in Requests, m < Msg.CABLE_CHECK, BaseHandles(m)
        PROVE  Notes'
    <2>1. m # Msg.SESSION_STOP
      BY <1>7, Numbers
    <2>2. QED
      BY <1>1, <1>7, <2>1, Handling
  <1>8. QED
    BY <1>3, <1>4, <1>5, <1>6, <1>7 DEF CableCheckStep

LEMMA Signalling ==
    ASSUME Inv, InSession, test \in StateFTestNames, NEW request \in Handled,
           NEW results \in SUBSET {"signalled", "stopped", "missed"}, NEW failed \in BOOLEAN,
           "missed" \in results => failed = base.failed /\ test = "service_detail_payment_selection_012",
           SignalStateF(request, results, failed)
    PROVE  Notes'
  <1>1. PICK v \in validate_response_code(request), next \in NextStates(request), result \in results,
             event \in Events :
          /\ Reply(request, event, next)
          /\ base' = [base EXCEPT !.received = TRUE,
                          !.res_time = IF Succeeds(v) /\ result # "missed" THEN clock ELSE @,
                          !.failed = failed \/ ~Succeeds(v) \/ result = "stopped"]
          /\ LET good == Succeeds(v) /\ result = "signalled"
             IN  seen' = [seen EXCEPT !.first = IF good THEN clock ELSE @,
                                      !.last = IF good THEN clock ELSE @,
                                      !.talked = @ \/ seen.last > 0]
    <2>1. PICK v \in validate_response_code(request), next \in NextStates(request), result \in results :
            LET good  == Succeeds(v) /\ result = "signalled"
                event == CASE ~Succeeds(v) -> v.event
                           [] Succeeds(v) /\ result = "missed" -> "SEND_AND_TERMINATE"
                           [] Succeeds(v) /\ result = "stopped"
                              /\ terminate_connection_on_failed_response -> "SEND_AND_TERMINATE"
                           [] OTHER -> "NO_EVENT"
            IN  /\ Reply(request, event, next)
                /\ base' = [base EXCEPT !.received = TRUE,
                                !.res_time = IF Succeeds(v) /\ result # "missed" THEN clock ELSE @,
                                !.failed = failed \/ ~Succeeds(v) \/ result = "stopped"]
                /\ seen' = [seen EXCEPT !.first = IF good THEN clock ELSE @,
                                        !.last = IF good THEN clock ELSE @,
                                        !.talked = @ \/ seen.last > 0]
      BY DEF SignalStateF
    <2> DEFINE event == CASE ~Succeeds(v) -> v.event
                          [] Succeeds(v) /\ result = "missed" -> "SEND_AND_TERMINATE"
                          [] Succeeds(v) /\ result = "stopped"
                             /\ terminate_connection_on_failed_response -> "SEND_AND_TERMINATE"
                          [] OTHER -> "NO_EVENT"
    <2>2. event \in Events
      <3>1. v.event \in Events
        BY Responses
      <3>2. QED
        BY <3>1 DEF Events
    <2>3. Reply(request, event, next)
      BY <2>1
    <2> HIDE DEF event
    <2>4. QED
      BY <2>1, <2>2, <2>3
  <1>2. /\ session = "open" /\ session' # "closed"
        /\ UNCHANGED <<test, clock, outcome>> /\ BspSame
        /\ test \notin ResponseTestNames
                       \union {"authorization_009", "precharge_006", "cable_check_006",
                               "welding_session_stop_001"}
    BY <1>1
    DEF SignalStateF, InSession, config, bspVars, BspSame, Reply, ResponseTestNames,
        StateFTestNames
  <1>3. /\ base'.received /\ base'.b_time = base.b_time /\ base'.extra = base.extra
        /\ base'.res_time = (IF Succeeds(v) /\ result # "missed" THEN clock ELSE base.res_time)
        /\ base'.failed = (failed \/ ~Succeeds(v) \/ result = "stopped")
        /\ base'.stop_req_time = base.stop_req_time /\ base'.stop_res_time = base.stop_res_time
    BY <1>1 DEF Inv, TypeNow, Bases
  <1>4. /\ seen'.last = (IF Succeeds(v) /\ result = "signalled" THEN clock ELSE seen.last)
        /\ seen'.talked = (seen.talked \/ seen.last > 0) /\ seen'.b = seen.b
        /\ seen'.stopped = seen.stopped
    BY <1>1 DEF Inv, TypeNow, Seens
  <1> USE Typed DEF Inv, Notes
  <1>5. PilotNotes' /\ Stops' /\ Extras'
    BY <1>2, <1>3, <1>4 DEF PilotNotes, Alternates, Heard, BspSame, Stops, Extras
  <1>6. StateFNotes'
    <2>1. ~base'.failed => Succeeds(v) /\ result # "stopped" /\ ~failed
      BY <1>3
    <2>2. CASE result = "signalled"
      BY <1>2, <1>3, <1>4, <2>1, <2>2 DEF StateFNotes, Tested
    <2>3. CASE result = "stopped"
      BY <1>2, <1>3, <1>4, <2>1, <2>3 DEF StateFNotes, Tested
    <2>4. CASE result = "missed"
      BY <1>2, <1>3, <1>4, <2>1, <2>4 DEF StateFNotes, Tested
    <2>5. QED
      BY <1>1, <2>2, <2>3, <2>4
  <1>7. QED
    BY <1>2, <1>5, <1>6

LEMMA StateF ==
    ASSUME Inv, test \in StateFTestNames, StateFStep
    PROVE  Notes'
  <1>1. /\ InSession /\ base.failed \in BOOLEAN
        /\ test \notin TalkerTests \union ResponseTestNames
        /\ test \notin {"authorization_009", "precharge_006", "cable_check_006",
                        "welding_session_stop_001"}
    BY Typed DEF StateFStep, TalkerTests, ResponseTestNames, StateFTestNames, Inv
  <1>2. CASE UnexpectedRequest(TRUE)
    BY <1>1, <1>2, Unexpected
  <1>3. CASE HandleSessionStop(FALSE)
    BY <1>1, <1>3, Stopping
  <1>4. CASE SignalsStateF
    <2>1. PICK request \in Handled :
            \/ SignalStateF(request, {"signalled", "stopped"}, base.failed)
            \/ SignalStateF(request, {"signalled", "stopped"}, FALSE)
            \/ /\ test = "service_detail_payment_selection_012"
               /\ SignalStateF(request, {"signalled", "stopped", "missed"}, base.failed)
      BY <1>4 DEF SignalsStateF
    <2>2. CASE SignalStateF(request, {"signalled", "stopped"}, base.failed)
      BY <1>1, <2>2, Signalling
    <2>3. CASE SignalStateF(request, {"signalled", "stopped"}, FALSE)
      BY <1>1, <2>3, Signalling
    <2>4. CASE /\ test = "service_detail_payment_selection_012"
               /\ SignalStateF(request, {"signalled", "stopped", "missed"}, base.failed)
      BY <1>1, <2>4, Signalling
    <2>5. QED
      BY <2>1, <2>2, <2>3, <2>4
  <1>5. ASSUME NEW m \in Requests \ {Msg.SESSION_STOP}, BaseHandles(m)
        PROVE  Notes'
    BY <1>1, <1>5, Handling
  <1>6. QED
    BY <1>2, <1>3, <1>4, <1>5 DEF StateFStep

\* A step of chn_welding_session_stop_001 that leaves what the verdict about state B needs
LEMMA WeldingKeeps ==
    ASSUME Inv, test = "welding_session_stop_001", UNCHANGED <<test, clock>>, BspSame,
           base'.b_time = base.b_time, base'.res_time = base.res_time,
           base'.validate = base.validate, seen'.last = seen.last, seen'.b = seen.b,
           seen'.was_b = seen.was_b, seen'.sent = seen.sent, seen'.delayed = seen.delayed
    PROVE  Notes'
  <1>1. PilotNotes'
    BY PilotKept DEF Inv, Notes
  <1>2. QED
    BY <1>1 DEF Inv, Notes, WeldingNotes, ResponseTestNames, StateFTestNames

LEMMA NotedFacts ==
    ASSUME TypeNow, NEW request, NEW forced, NEW v \in ResultsOf(request, forced)
    PROVE  /\ Noted(v) \in Bases(SoFar) /\ Noted(v).b_time = base.b_time
           /\ Noted(v).res_time = base.res_time /\ Noted(v).validate = base.validate
  <1>1. v.ok \in BOOLEAN
    BY TypeNoted
  <1>2. QED
    BY <1>1, TypeNoted DEF Noted, TypeNow, Bases

LEMMA Welding ==
    ASSUME Inv, test = "welding_session_stop_001", WeldingStep
    PROVE  Notes'
  <1>1. /\ UNCHANGED test /\ BspSame /\ TypeNow /\ PilotNotes
        /\ test \notin ResponseTestNames \union StateFTestNames
    BY DEF WeldingStep, InSession, config, bspVars, BspSame, Inv, Notes, ResponseTestNames,
           StateFTestNames
  <1>2. CASE welding_session_stop_001_current_demand
    <2> DEFINE start   == IF base.first_time = 0 THEN clock ELSE base.first_time
               aborted == base.aborted \/ clock - start >= ChargingTimeout + StopChargingTimeout
    <2>1. PICK v \in ResultsOf(Msg.CURRENT_DEMAND, aborted) :
            base' = [Noted(v) EXCEPT !.first_time = start, !.aborted = aborted]
      BY <1>2 DEF welding_session_stop_001_current_demand
    <2> HIDE DEF start, aborted
    <2>2. /\ base'.b_time = base.b_time /\ base'.res_time = base.res_time
          /\ base'.validate = base.validate
      BY <1>1, <2>1, NotedFacts DEF Bases
    <2>3. /\ seen'.last = seen.last /\ seen'.b = seen.b /\ seen'.was_b = seen.was_b
          /\ seen'.sent = seen.sent /\ seen'.delayed = seen.delayed /\ clock' = clock
      BY <1>1, <1>2 DEF welding_session_stop_001_current_demand, TypeNow, Seens
    <2>4. QED
      BY <1>1, <2>2, <2>3, WeldingKeeps
  <1>3. ASSUME NEW request, NEW next_states, Handles(request, next_states)
        PROVE  Notes'
    <2>1. CASE \E v \in ResultsOf(request, base.aborted) : base' = Noted(v)
      BY <1>1, <1>3, <2>1, NotedFacts, WeldingKeeps DEF Handles
    <2>2. CASE UNCHANGED base
      BY <1>1, <1>3, <2>2, WeldingKeeps DEF Handles
    <2>3. QED
      BY <1>3, <2>1, <2>2 DEF Handles
  <1>4. CASE StopsCharging
    <2>1. PICK v \in ResultsOf(Msg.POWER_DELIVERY, base.aborted) :
            IF v.event = "NO_EVENT"
            THEN /\ base' = [Noted(v) EXCEPT !.res_time = clock,
                                             !.validate = @ \/ cp_state # "B"]
                 /\ seen' = ResponseSent(seen.first, clock)
            ELSE base' = Noted(v) /\ UNCHANGED seen
      BY <1>4 DEF StopsCharging
    <2>2. clock' = clock
      BY <1>4 DEF StopsCharging
    <2>3. CASE v.event # "NO_EVENT"
      BY <1>1, <2>1, <2>2, <2>3, NotedFacts, WeldingKeeps
    <2>4. CASE v.event = "NO_EVENT"
      <3>1. /\ base'.b_time = base.b_time /\ base'.res_time = clock
            /\ base'.validate = (base.validate \/ cp_state # "B")
        <4>1. base' = [Noted(v) EXCEPT !.res_time = clock, !.validate = @ \/ cp_state # "B"]
          BY <2>1, <2>4
        <4>2. /\ Noted(v) \in Bases(SoFar) /\ Noted(v).b_time = base.b_time
              /\ Noted(v).validate = base.validate
          BY <1>1, NotedFacts
        <4>3. /\ base'.b_time = Noted(v).b_time /\ base'.res_time = clock
              /\ base'.validate = (Noted(v).validate \/ cp_state # "B")
          BY <4>1, <4>2 DEF Bases
        <4>4. QED
          BY <4>2, <4>3
      <3>2. /\ seen'.last = clock /\ seen'.was_b = (pilot = "B")
            /\ seen'.sent = (on_its_way > 0) /\ seen'.b = {}
        <4>1. seen.first \in SoFar /\ clock \in SoFar /\ seen \in Seens(SoFar)
          BY <1>1, MaxTimeIsNat DEF TypeNow, Seens, SoFar, Times
        <4>2. seen' = ResponseSent(seen.first, clock)
          BY <2>1, <2>4
        <4>3. QED
          <5>1. ResponseFields(ResponseSent(seen.first, clock), seen.first, clock)
            BY <4>1, TypeResponseSent
          <5>2. QED
            BY <4>2, <5>1 DEF ResponseFields
      <3>3. base'.validate \/ seen'.was_b \/ seen'.sent
        BY <1>1, <3>1, <3>2, KnownB, Typed
      <3>4. WeldingNotes'
        BY <3>1, <3>2, <3>3 DEF WeldingNotes
      <3>5. PilotNotes'
        BY <1>1, <1>4, <2>2, <3>1, <3>2, Typed, PilotAnew DEF StopsCharging, StampsAreEarlier
      <3>6. QED
        BY <1>1, <3>4, <3>5 DEF Notes
    <2>5. QED
      BY <2>3, <2>4
  <1>5. CASE /\ base' \in {base, [base EXCEPT !.failed = TRUE]}
             /\ UNCHANGED <<linkVars, outcome, clock, seen>>
    <2>1. /\ base'.b_time = base.b_time /\ base'.res_time = base.res_time
          /\ base'.validate = base.validate
      BY <1>5 DEF Inv, TypeNow, Bases
    <2>2. QED
      BY <1>1, <1>5, <2>1, WeldingKeeps
  <1>6. ASSUME NEW v \in ResultsOf(Msg.SESSION_STOP, base.aborted), NEW good, NEW next,
               SessionStopAnswered(v, good, next)
        PROVE  Notes'
    <2>1. /\ base' = [Noted(v) EXCEPT !.stop_res_time = clock]
          /\ seen' = [seen EXCEPT !.stopped = clock] /\ clock' = clock
      BY <1>6 DEF SessionStopAnswered
    <2>2. /\ base'.b_time = base.b_time /\ base'.res_time = base.res_time
          /\ base'.validate = base.validate
      BY <1>1, <2>1, NotedFacts DEF Bases
    <2>3. /\ seen'.last = seen.last /\ seen'.b = seen.b /\ seen'.was_b = seen.was_b
          /\ seen'.sent = seen.sent /\ seen'.delayed = seen.delayed
      BY <1>1, <2>1 DEF TypeNow, Seens
    <2>4. QED
      BY <1>1, <2>1, <2>2, <2>3, WeldingKeeps
  <1>7. CASE UNCHANGED <<linkVars, replyVars, testVars, clock, seen>>
    BY <1>1, <1>7, WeldingKeeps DEF testVars
  <1>8. CASE welding_session_stop_001_din_power_delivery
    BY <1>3, <1>4, <1>5, <1>8 DEF welding_session_stop_001_din_power_delivery
  <1>9. CASE welding_session_stop_001_iso_power_delivery
    BY <1>3, <1>4, <1>9 DEF welding_session_stop_001_iso_power_delivery
  <1>10. CASE \/ welding_session_stop_001_din_session_stop
              \/ welding_session_stop_001_iso_session_stop
    BY <1>6, <1>10
    DEF welding_session_stop_001_din_session_stop, welding_session_stop_001_iso_session_stop
  <1>11. QED
    BY <1>2, <1>3, <1>7, <1>8, <1>9, <1>10 DEF WeldingStep

-----------------------------------------------------------------------------
(***************************************************************************)
(* What happens around the requests                                        *)
(***************************************************************************)
\* Every test that asks about state B takes its time once it has to validate.
LEMMA TakesWhenValidating ==
    ASSUME test \in ResponseTestNames, base.validate
    PROVE  TakesBTime
  <1>1. CASE test = "authorization_004"
    BY <1>1 DEF TakesBTime, StateFTestNames, authorization_004_takes_b_time
  <1>2. CASE test = "service_discovery_008"
    BY <1>2 DEF TakesBTime, StateFTestNames, service_discovery_008_takes_b_time
  <1>3. CASE test = "service_detail_payment_selection_003"
    BY <1>3 DEF TakesBTime, StateFTestNames, service_detail_payment_selection_003_takes_b_time
  <1>4. CASE test = "cablecheck_007"
    BY <1>4 DEF TakesBTime, StateFTestNames, cablecheck_007_takes_b_time
  <1>5. CASE test = "charge_parameter_discovery_002"
    BY <1>5 DEF TakesBTime, StateFTestNames, charge_parameter_discovery_002_takes_b_time
  <1>6. CASE test = "session_setup_004"
    BY <1>6 DEF TakesBTime, StateFTestNames, session_setup_004_takes_b_time
  <1>7. CASE test = "service_detail_011"
    BY <1>7 DEF TakesBTime, StateFTestNames, service_detail_011_takes_b_time
  <1>8. CASE test = "service_detail_013"
    BY <1>8 DEF TakesBTime, StateFTestNames, service_detail_013_takes_b_time
  <1>9. CASE test = "current_demand_002"
    BY <1>9 DEF TakesBTime, StateFTestNames, current_demand_002_takes_b_time
  <1>10. CASE test = "current_demand_005"
    BY <1>10 DEF TakesBTime, StateFTestNames, current_demand_005_takes_b_time
  <1>11. QED
    BY <1>1, <1>2, <1>3, <1>4, <1>5, <1>6, <1>7, <1>8, <1>9, <1>10 DEF ResponseTestNames

\* A step that leaves what a test has noted, apart from state B, and lets the session go on or
\* begin to close
LEMMA OthersKeep ==
    ASSUME Inv, session = "open", session' # "closed",
           UNCHANGED <<config, state, last_v2g_msg, outcome>>,
           \/ base' = base
           \/ base' = [base EXCEPT !.b_time = bsp_event],
           seen'.first = seen.first, seen'.last = seen.last, seen'.was_b = seen.was_b,
           seen'.sent = seen.sent, seen'.stamped = seen.stamped, seen'.talked = seen.talked,
           \/ seen'.stopped = seen.stopped
           \/ seen'.stopped = clock /\ clock' = clock /\ session' # "open"
    PROVE  /\ test # "welding_session_stop_001" => Stops'
           /\ test \in ResponseTestNames => Extras' /\ ResponseNotes'
           /\ test \in StateFTestNames => Extras' /\ StateFNotes'
           /\ test = "authorization_009" => OngoingNotes(Msg.AUTHORIZATION, Msg.AUTHORIZATION)'
           /\ test = "precharge_006" => OngoingNotes(Msg.PRE_CHARGE, Msg.POWER_DELIVERY)'
           /\ test = "cable_check_006" => CableCheckNotes'
           /\ test = "welding_session_stop_001" => WeldingNotes'
  <1>1. /\ base'.stop_req_time = base.stop_req_time /\ base'.stop_res_time = base.stop_res_time
        /\ base'.received = base.received /\ base'.failed = base.failed
        /\ base'.extra = base.extra /\ base'.validate = base.validate
        /\ base'.aborted = base.aborted /\ base'.first_time = base.first_time
        /\ base'.earliest = base.earliest
        /\ base'.res_time = base.res_time /\ base'.req_time = base.req_time
    BY DEF Inv, TypeNow, Bases
  <1>2. UNCHANGED <<test, terminate_connection_on_failed_response>>
    BY DEF config
  <1> USE <1>1, <1>2, Typed DEF Inv, Notes, Tested
  <1>3. test # "welding_session_stop_001" => Stops'
    BY DEF Stops
  <1>4. test \in ResponseTestNames \union StateFTestNames => Extras'
    BY DEF Extras
  <1>5. test \in ResponseTestNames => ResponseNotes'
    BY DEF ResponseNotes, Deviated, Extras
  <1>6. test \in StateFTestNames => StateFNotes'
    BY DEF StateFNotes
  <1>7. /\ test = "authorization_009" => OngoingNotes(Msg.AUTHORIZATION, Msg.AUTHORIZATION)'
        /\ test = "precharge_006" => OngoingNotes(Msg.PRE_CHARGE, Msg.POWER_DELIVERY)'
    BY DEF OngoingNotes
  <1>8. /\ test = "cable_check_006" => CableCheckNotes'
        /\ test = "welding_session_stop_001" => WeldingNotes'
    BY DEF CableCheckNotes, WeldingNotes
  <1>9. QED
    BY <1>3, <1>4, <1>5, <1>6, <1>7, <1>8

\* What is known of state B when a change of the control pilot is sent, arrives, and when
\* time passes
LEMMA PilotChanged ==
    ASSUME Inv, VehicleEntersB \/ VehicleLeavesB
    PROVE  PilotNotes' /\ (test \in ResponseTestNames => LatestB') /\ seen'.last > 0
  <1>1. /\ TypeNow /\ PilotNotes /\ (test \in ResponseTestNames => LatestB)
        /\ on_its_way \in Nat /\ clock \in Nat /\ pilot \in {"B", "C"} /\ Heard \in {"B", "C"}
    BY Typed, TypedPilot DEF Inv, Notes
  <1>2. /\ on_its_way' = on_its_way + 1 /\ test' = test /\ seen.last > 0
        /\ UNCHANGED <<cp_state, bsp_event, base, clock>>
    BY DEF VehicleEntersB, VehicleLeavesB, PilotChanges, config, testVars
  <1>3. Heard' = Heard
    BY <1>2 DEF Heard
  <1>4. CASE VehicleEntersB
    <2>1. pilot = "C" /\ pilot' = "B" /\ seen' = [seen EXCEPT !.b = @ \union {clock}]
      BY <1>4 DEF VehicleEntersB
    <2>2. /\ seen'.last = seen.last /\ seen'.b = seen.b \union {clock}
          /\ seen'.sent = seen.sent /\ seen'.delayed = seen.delayed
      BY <1>1, <2>1 DEF TypeNow, Seens
    <2>3. Alternates'
      BY <1>1, <1>2, <1>3, <2>1, Parity DEF PilotNotes, Alternates
    <2>4. EntryOnItsWay'
      BY <1>1, <1>2, <2>1 DEF EntryOnItsWay
    <2>5. StateBNotes => StateBNotes'
      BY <1>1, <1>2, <2>2, <2>4, Typed DEF StateBNotes, Stamped, OnItsWay
    <2>6. QED
      BY <1>1, <1>2, <2>2, <2>3, <2>4, <2>5 DEF PilotNotes, LatestB
  <1>5. CASE VehicleLeavesB
    <2>1. pilot = "B" /\ pilot' = "C" /\ seen' = seen
      BY <1>5 DEF VehicleLeavesB
    <2>2. Alternates'
      BY <1>1, <1>2, <1>3, <2>1, Parity DEF PilotNotes, Alternates
    <2>3. EntryOnItsWay' = EntryOnItsWay
      BY <1>1, <1>2, <2>1 DEF EntryOnItsWay
    <2>4. StateBNotes => StateBNotes'
      BY <1>2, <2>1, <2>3 DEF StateBNotes, Stamped, OnItsWay
    <2>5. LatestB => LatestB'
      BY <1>2, <2>1, <2>3 DEF LatestB
    <2>6. QED
      BY <1>1, <1>2, <2>1, <2>2, <2>4, <2>5 DEF PilotNotes
  <1>6. QED
    BY <1>4, <1>5

LEMMA PilotArrives ==
    ASSUME Inv, BspEventArrives \/ BspEventUpdates \/ BspEventOther
    PROVE  PilotNotes' /\ (test \in ResponseTestNames => LatestB')
  <1>1. /\ TypeNow /\ PilotNotes /\ (test \in ResponseTestNames => LatestB)
        /\ on_its_way \in Nat /\ clock \in Nat /\ clock > 0 /\ bsp_event \in Nat
        /\ pilot \in {"B", "C"} /\ cp_state \in {"B", "C"}
        /\ on_its_way = 1 => pilot # Heard
        /\ on_its_way = 2 => pilot = Heard
    BY Typed, TypedPilot, AlternatesFacts DEF Inv, Notes, PilotNotes
  <1>2. test' = test /\ UNCHANGED <<pilot, base, clock, seen>>
    BY DEF BspEventArrives, BspEventUpdates, BspEventOther, config, testVars
  <1>3. CASE BspEventArrives
    <2>1. /\ on_its_way > 0 /\ bsp_event = 0 /\ cp_state = "C" /\ cp_state' = cp_state
          /\ on_its_way' = on_its_way - 1 /\ bsp_event' = clock
      BY <1>1, <1>3 DEF BspEventArrives, Arrives
    <2>2. Heard = "C" /\ Heard' = "B"
      BY <1>1, <2>1 DEF Heard
    <2>3. Alternates'
      BY <1>1, <1>2, <2>1, <2>2, Parity DEF PilotNotes, Alternates
    <2>4. EntryOnItsWay
      BY <1>1, <2>1, <2>2 DEF EntryOnItsWay
    <2>5. StateBNotes => StateBNotes'
      <3>1. SUFFICES ASSUME StateBNotes, seen.last > 0
                     PROVE  StateBNotes'
        BY <1>2 DEF StateBNotes
      <3>2. /\ seen.sent \/ seen.b # {}
            /\ seen.delayed \/ clock \in seen.b \/ (seen.sent /\ clock = seen.last)
        BY <2>4, <3>1 DEF StateBNotes, OnItsWay
      <3>3. \A entered \in seen.b : entered <= clock
        BY <1>1, Typed
      <3>4. Stamped(clock)
        BY <3>2, <3>3 DEF Stamped
      <3>5. QED
        BY <1>2, <2>1, <3>1, <3>2, <3>4 DEF StateBNotes, Stamped, OnItsWay
    <2>6. LatestB'
      <3>1. /\ \A entered \in seen.b : entered <= clock
            /\ seen.last <= clock
        BY <1>1, Typed
      <3>2. QED
        BY <1>1, <1>2, <2>1, <3>1 DEF LatestB
    <2>7. QED
      BY <1>1, <1>2, <2>3, <2>5, <2>6 DEF PilotNotes
  <1>4. CASE BspEventUpdates \/ BspEventOther
    <2>1. bsp_event' = bsp_event
      BY <1>4 DEF BspEventUpdates, BspEventOther
    <2>2. Alternates' /\ EntryOnItsWay' = EntryOnItsWay
      <3>1. CASE BspEventUpdates
        <4>1. Heard' = Heard /\ on_its_way' = on_its_way
          BY <1>1, <3>1 DEF BspEventUpdates, Heard
        <4>2. QED
          BY <1>1, <1>2, <4>1 DEF PilotNotes, Alternates, EntryOnItsWay
      <3>2. CASE BspEventOther
        <4>1. /\ on_its_way > 0 /\ on_its_way' = on_its_way - 1 /\ bsp_event = 0
              /\ cp_state = "B" /\ cp_state' = "C"
          BY <3>2 DEF BspEventOther, Arrives
        <4>2. Heard = "B" /\ Heard' = "C"
          BY <2>1, <4>1 DEF Heard
        <4>3. Alternates'
          BY <1>1, <1>2, <4>1, <4>2, Parity DEF PilotNotes, Alternates
        <4>4. EntryOnItsWay' = EntryOnItsWay
          BY <1>1, <1>2, <4>1, <4>2 DEF EntryOnItsWay
        <4>5. QED
          BY <4>3, <4>4
      <3>3. QED
        BY <1>4, <3>1, <3>2
    <2>3. StateBNotes => StateBNotes'
      BY <1>2, <2>1, <2>2 DEF StateBNotes, Stamped, OnItsWay
    <2>4. LatestB => LatestB'
      BY <1>2, <2>1, <2>2 DEF LatestB
    <2>5. QED
      BY <1>1, <1>2, <2>2, <2>3, <2>4 DEF PilotNotes
  <1>5. QED
    BY <1>3, <1>4

LEMMA PilotHandled ==
    ASSUME Inv, BspEventB(TakesBTime)
    PROVE  PilotNotes' /\ (test \in ResponseTestNames => LatestB')
  <1>1. TypeNow /\ PilotNotes /\ (test \in ResponseTestNames => LatestB)
    BY DEF Inv, Notes
  <1>2. /\ test' = test /\ bsp_event > 0 /\ bsp_event' = 0 /\ cp_state = "B"
        /\ UNCHANGED <<pilot, on_its_way, cp_state, clock, seen>>
        /\ base' = IF TakesBTime THEN [base EXCEPT !.b_time = bsp_event] ELSE base
    BY DEF BspEventB, config
  <1>3. /\ base'.b_time = (IF TakesBTime THEN bsp_event ELSE base.b_time)
        /\ base'.validate = base.validate
    BY <1>1, <1>2 DEF TypeNow, Bases
  <1>4. Alternates' /\ EntryOnItsWay' = EntryOnItsWay
    BY <1>1, <1>2 DEF PilotNotes, Alternates, Heard, EntryOnItsWay
  <1>5. StateBNotes => StateBNotes'
    BY <1>2, <1>3, <1>4 DEF StateBNotes, Stamped, OnItsWay
  <1>6. test \in ResponseTestNames => LatestB'
    BY <1>1, <1>2, <1>3, <1>4, TakesWhenValidating DEF LatestB
  <1>7. QED
    BY <1>1, <1>2, <1>4, <1>5, <1>6 DEF PilotNotes

LEMMA PilotWaits ==
    ASSUME Inv, Tick
    PROVE  PilotNotes' /\ (test \in ResponseTestNames => LatestB')
  <1>1. TypeNow /\ PilotNotes /\ (test \in ResponseTestNames => LatestB)
    BY DEF Inv, Notes
  <1>2. /\ test' = test /\ BspSame /\ base' = base
        /\ seen' = [seen EXCEPT !.delayed = @ \/ (seen.last > 0 /\ EntryOnItsWay)]
    BY DEF Tick, config, bspVars, testVars, BspSame
  <1>3. /\ seen'.last = seen.last /\ seen'.b = seen.b /\ seen'.sent = seen.sent
        /\ seen'.was_b = seen.was_b /\ seen'.talked = seen.talked
        /\ seen'.stamped = seen.stamped
        /\ seen'.delayed = (seen.delayed \/ (seen.last > 0 /\ EntryOnItsWay))
    BY <1>1, <1>2 DEF TypeNow, Seens
  <1>4. Alternates' /\ EntryOnItsWay' = EntryOnItsWay
    BY <1>1, <1>2 DEF PilotNotes, Alternates, Heard, EntryOnItsWay, BspSame
  <1>5. StateBNotes => StateBNotes'
    BY <1>2, <1>3, <1>4 DEF StateBNotes, Stamped, OnItsWay, BspSame
  <1>6. LatestB => LatestB'
    BY <1>2, <1>3, <1>4 DEF LatestB, BspSame
  <1>7. QED
    BY <1>1, <1>2, <1>4, <1>5, <1>6 DEF PilotNotes

LEMMA Others ==
    ASSUME Inv,
           \/ BspEventB(TakesBTime) \/ VehicleEntersB \/ VehicleLeavesB
           \/ BspEventArrives \/ BspEventUpdates \/ BspEventOther
           \/ Tick \/ VehicleCloses \/ ReadFails \/ DlinkTerminated
    PROVE  Notes'
  <1>1. TypeNow /\ UNCHANGED config
    BY DEF Inv, BspEventB, VehicleEntersB, VehicleLeavesB, PilotChanges, BspEventArrives,
           BspEventUpdates, BspEventOther, Tick, VehicleCloses, ReadFails, DlinkTerminated
  <1>2. test' = test
    BY <1>1 DEF config
  <1>3. CASE BspEventB(TakesBTime)
    <2>1. /\ session = "open" /\ session' = "open"
          /\ UNCHANGED <<state, last_v2g_msg, outcome, clock, seen>>
          /\ base' = IF TakesBTime THEN [base EXCEPT !.b_time = bsp_event] ELSE base
      BY <1>3 DEF BspEventB, replyVars
    <2>2. QED
      BY <1>1, <1>2, <1>3, <2>1, PilotHandled, OthersKeep DEF Notes
  <1>4. CASE VehicleEntersB \/ VehicleLeavesB
    <2>1. /\ session = "open" /\ session' = "open"
          /\ UNCHANGED <<state, last_v2g_msg, outcome, base>>
          /\ seen' \in {seen, [seen EXCEPT !.b = @ \union {clock}]}
      BY <1>4 DEF VehicleEntersB, VehicleLeavesB, PilotChanges, replyVars, testVars
    <2>2. /\ seen'.first = seen.first /\ seen'.last = seen.last /\ seen'.was_b = seen.was_b
          /\ seen'.sent = seen.sent /\ seen'.stamped = seen.stamped
          /\ seen'.talked = seen.talked /\ seen'.stopped = seen.stopped
      BY <1>1, <2>1 DEF TypeNow, Seens
    <2>3. QED
      BY <1>1, <1>2, <1>4, <2>1, <2>2, PilotChanged, OthersKeep DEF Notes
  <1>5. CASE BspEventArrives \/ BspEventUpdates \/ BspEventOther
    <2>1. /\ session = "open" /\ session' = "open"
          /\ UNCHANGED <<state, last_v2g_msg, outcome, base, seen>>
      BY <1>5 DEF BspEventArrives, BspEventUpdates, BspEventOther, Arrives, replyVars, testVars
    <2>2. QED
      BY <1>1, <1>2, <1>5, <2>1, PilotArrives, OthersKeep DEF Notes
  <1>6. CASE Tick
    <2>1. /\ session = "open" /\ session' = "open"
          /\ UNCHANGED <<state, last_v2g_msg, outcome, base>>
          /\ seen' = [seen EXCEPT !.delayed = @ \/ (seen.last > 0 /\ EntryOnItsWay)]
      BY <1>6 DEF Tick, replyVars, testVars
    <2>2. /\ seen'.first = seen.first /\ seen'.last = seen.last /\ seen'.was_b = seen.was_b
          /\ seen'.sent = seen.sent /\ seen'.stamped = seen.stamped
          /\ seen'.talked = seen.talked /\ seen'.stopped = seen.stopped
      BY <1>1, <2>1 DEF TypeNow, Seens
    <2>3. QED
      BY <1>1, <1>2, <1>6, <2>1, <2>2, PilotWaits, OthersKeep DEF Notes
  <1>7. CASE VehicleCloses \/ ReadFails \/ DlinkTerminated
    <2>1. /\ session = "open" /\ session' \in {"open", "closing"} /\ BspSame
          /\ UNCHANGED <<state, last_v2g_msg, outcome, base, clock>>
          /\ \/ seen' = seen
             \/ seen' = [seen EXCEPT !.stopped = clock] /\ session' = "closing"
      BY <1>7 DEF VehicleCloses, ReadFails, DlinkTerminated, replyVars, testVars, bspVars, BspSame
    <2>2. /\ seen'.first = seen.first /\ seen'.last = seen.last /\ seen'.was_b = seen.was_b
          /\ seen'.sent = seen.sent /\ seen'.stamped = seen.stamped /\ seen'.b = seen.b
          /\ seen'.delayed = seen.delayed /\ seen'.talked = seen.talked
          /\ \/ seen'.stopped = seen.stopped
             \/ seen'.stopped = clock /\ session' # "open"
      BY <1>1, <2>1 DEF TypeNow, Seens
    <2>3. PilotNotes' /\ (test \in ResponseTestNames => LatestB')
      BY <1>2, <2>1, <2>2, PilotKept DEF Inv, Notes
    <2>4. QED
      BY <1>1, <1>2, <2>1, <2>2, <2>3, OthersKeep DEF Notes
  <1>8. QED
    BY <1>3, <1>4, <1>5, <1>6, <1>7

LEMMA Closing ==
    ASSUME Inv, ConnectionClose(TestVerdict)
    PROVE  Notes'
  <1>1. /\ session' = "closed" /\ session # "open"
        /\ UNCHANGED <<test, terminate_connection_on_failed_response, state, last_v2g_msg,
                       base, clock, seen>>
        /\ BspSame
    BY DEF ConnectionClose, config, bspVars, BspSame
  <1> USE <1>1 DEF Inv, Notes, Tested
  <1>2. /\ PilotNotes' /\ (test \in ResponseTestNames => LatestB')
        /\ (test # "welding_session_stop_001" => Stops)'
    BY PilotKept DEF Stops
  <1>3. (test \in ResponseTestNames => Extras /\ ResponseNotes)'
    BY DEF Extras, ResponseNotes, Deviated
  <1>4. (test \in StateFTestNames => Extras /\ StateFNotes)'
    BY DEF Extras, StateFNotes
  <1>5. /\ (test = "authorization_009" => OngoingNotes(Msg.AUTHORIZATION, Msg.AUTHORIZATION))'
        /\ (test = "precharge_006" => OngoingNotes(Msg.PRE_CHARGE, Msg.POWER_DELIVERY))'
        /\ (test = "cable_check_006" => CableCheckNotes)'
        /\ (test = "welding_session_stop_001" => WeldingNotes)'
    BY DEF OngoingNotes, CableCheckNotes, WeldingNotes
  <1>6. QED
    BY <1>2, <1>3, <1>4, <1>5

LEMMA Responding ==
    ASSUME Inv, test \in ResponseTestNames, ResponseStep
    PROVE  Notes'
  <1>1. /\ InSession
        /\ test \notin {"authorization_009", "precharge_006", "cable_check_006",
                        "welding_session_stop_001"}
    BY DEF ResponseStep, ResponseTestNames
  <1>2. ASSUME NEW counts \in BOOLEAN, test \in TalkerTests => counts, UnexpectedRequest(counts)
        PROVE  Notes'
    BY <1>1, <1>2, Unexpected
  <1>3. ASSUME NEW m \in Requests \ {Msg.SESSION_STOP}, BaseHandles(m),
               test # "session_setup_004", Silenced
        PROVE  Notes'
    BY <1>1, <1>3, Handling
  <1>4. ASSUME NEW takes_times \in BOOLEAN, HandleSessionStop(takes_times)
        PROVE  Notes'
    BY <1>1, <1>4, Stopping
  <1>5. CASE Deviates /\ Silenced
    BY <1>1, <1>5, Deviating
  <1>6. QED
    BY <1>2, <1>3, <1>4, <1>5 DEF ResponseStep

LEMMA InvNext ==
    ASSUME Inv, [Next]_vars
    PROVE  Inv'
  <1>1. TypeNow'
    BY TypeNext DEF Inv
  <1>2. CASE UNCHANGED vars
    BY <1>2
    DEF vars, Inv, TypeNow, SoFar, Notes, PilotNotes, Alternates, Heard, StateBNotes, Stamped,
        OnItsWay, EntryOnItsWay, LatestB, Stops, Extras, ResponseNotes, Deviated, StateFNotes, OngoingNotes, CableCheckNotes, WeldingNotes, Tested,
        config, linkVars, replyVars, bspVars, testVars
  <1>3. CASE Next
    <2>1. TypeOK
      BY TypeNowImpliesTypeOK DEF Inv
    <2>2. CASE \/ /\ test = "authorization_009"
                  /\ OngoingStep(Msg.AUTHORIZATION, Msg.AUTHORIZATION)
               \/ test = "precharge_006" /\ OngoingStep(Msg.PRE_CHARGE, Msg.POWER_DELIVERY)
      <3>1. /\ Msg.AUTHORIZATION \in Handled /\ Msg.PRE_CHARGE \in Handled
            /\ Msg.AUTHORIZATION \in Ids /\ Msg.POWER_DELIVERY \in Ids
        BY Numbers, RequestNumbers, IdNumbers DEF Handled
      <3>2. QED
        BY <1>1, <2>2, <3>1, Ongoing DEF Inv
    <2>3. QED
      BY <1>1, <1>3, <2>1, <2>2, Steps, Responding, CableCheck, StateF, Welding, Others, Closing
      DEF Inv
  <1>4. QED
    BY <1>2, <1>3

LEMMA InvCorrect == Spec => []Inv
  BY InvInit, InvNext, PTL DEF Spec

-----------------------------------------------------------------------------
(***************************************************************************)
(* The verdict                                                             *)
(***************************************************************************)
LEMMA TimesAreNumbers ==
    /\ SetupTimeout \in Nat /\ DetailTimeout \in Nat /\ DemandTimeout \in Nat
    /\ SetupTimeout > 0 /\ DetailTimeout > 0 /\ DemandTimeout > 0
    /\ StateBTimeout \in Nat /\ TcpTimeout \in Nat /\ OngoingTimeout \in Nat /\ TcpTimeout > 0
  BY TimeAssumption

Clockless == {"service_discovery_008", "cablecheck_007", "current_demand_002",
              "welding_session_stop_001", "cable_check_006"}

Deserved ==
    \/ seen.talked \/ ~EndedInTime
    \/ /\ test \in ResponseTestNames
       /\ \/ ~EnteredB \/ LateStateB \/ Unheard \/ seen.stamped
          \/ seen.sent /\ Reference # seen.last

PassesWithStateB == EnteredB \/ seen.sent \/ (seen.delayed /\ Reference # seen.last)

\* What the theorems below say of a verdict
JudgedWell(verdict) ==
    /\ verdict # "PreconditionsNotMet"
       => seen.last > 0 \/ (test = "cable_check_006" /\ base.aborted)
    /\ verdict = "PassCriteriaMet" =>
          /\ test \notin StateFTestNames \union {"cable_check_006"} => PassesWithStateB
          /\ seen.stopped > 0 /\ test \notin Clockless => EndedInTime
          /\ test \in TalkerTests => ~seen.talked
    /\ verdict = "PassCriteriaNotMet" /\ test \in ResponseTestNames \union StateFTestNames
       => Deserved

\* The verdicts of ResponseTests, from the time that the vehicle is judged from
ResponseVerdict(verdict) ==
    /\ verdict # "PreconditionsNotMet" => Tested
    /\ verdict = "PassCriteriaMet" =>
          /\ ~(base.extra /\ outcome = "PassCriteriaNotMet")
          /\ ~StateBMissed(Reference, Reference + StateBTimeout)
          /\ test \notin Clockless =>
                /\ ~StopLate(Reference) /\ ~CloseLate(Reference)
                /\ Reference <= IF base.stop_req_time > 0 THEN base.stop_req_time ELSE clock
    /\ verdict = "PassCriteriaNotMet" =>
          \/ base.extra \/ outcome = "PassCriteriaNotMet"
          \/ StateBMissed(Reference, Reference + StateBTimeout)
          \/ StopLate(Reference) \/ CloseLate(Reference)
          \/ (IF base.stop_req_time > 0 THEN base.stop_req_time ELSE clock) < Reference

LEMMA ResponseVerdicts ==
    ASSUME Inv, session = "closing", test \in ResponseTestNames
    PROVE  ResponseVerdict(TestVerdict)
  <1> USE DEF ResponseVerdict, Verdict, Clockless
  <1>1. /\ outcome \in {"PreconditionsNotMet", "PassCriteriaNotMet"}
        /\ base.stop_req_time > 0 => base.stop_req_time = clock
        /\ Tested => /\ base.res_time = seen.last /\ base.req_time = seen.first
                     /\ seen.last <= IF base.stop_req_time > 0 THEN base.stop_req_time ELSE clock
    <2>1. test # "welding_session_stop_001"
      BY DEF ResponseTestNames
    <2>2. QED
      BY <2>1, Typed DEF Inv, Notes, Extras, ResponseNotes, Deviated, Stops
  <1>2. CASE test = "authorization_004"
    BY <1>2, <1>1, Typed DEF Inv, Reference, TestVerdict, authorization_004_verdict
  <1>3. CASE test = "service_discovery_008"
    BY <1>3, <1>1, Typed DEF Inv, Reference, TestVerdict, service_discovery_008_verdict
  <1>4. CASE test = "service_detail_payment_selection_003"
    BY <1>4, <1>1, Typed DEF Inv, Reference, TestVerdict, service_detail_payment_selection_003_verdict
  <1>5. CASE test = "cablecheck_007"
    BY <1>5, <1>1, Typed DEF Inv, Reference, TestVerdict, cablecheck_007_verdict
  <1>6. CASE test = "charge_parameter_discovery_002"
    BY <1>6, <1>1, Typed DEF Inv, Reference, TestVerdict, charge_parameter_discovery_002_verdict
  <1>7. CASE test = "session_setup_004"
    BY <1>7, <1>1, Typed, TimesAreNumbers DEF Inv, Reference, TestVerdict, session_setup_004_verdict, SilenceVerdict
  <1>8. CASE test = "service_detail_011"
    BY <1>8, <1>1, Typed, TimesAreNumbers DEF Inv, Reference, TestVerdict, service_detail_011_verdict, SilenceVerdict
  <1>9. CASE test = "service_detail_013"
    BY <1>9, <1>1, Typed DEF Inv, Reference, TestVerdict, service_detail_013_verdict
  <1>10. CASE test = "current_demand_002"
    BY <1>10, <1>1, Typed DEF Inv, Reference, TestVerdict, current_demand_002_verdict
  <1>11. CASE test = "current_demand_005"
    BY <1>11, <1>1, Typed, TimesAreNumbers DEF Inv, Reference, TestVerdict, current_demand_005_verdict, SilenceVerdict
  <1>12. QED
    BY <1>2, <1>3, <1>4, <1>5, <1>6,
       <1>7, <1>8, <1>9, <1>10, <1>11 DEF ResponseTestNames

\* The verdicts that ask for state B in time
LEMMA PassedWithStateB ==
    ASSUME Inv, StateBNotes, seen.last > 0, base.validate \/ seen.was_b \/ seen.sent,
           Reference \in Nat, seen.last <= Reference,
           ~StateBMissed(Reference, Reference + StateBTimeout)
    PROVE  PassesWithStateB
  <1>1. CASE base.validate
    <2>1. base.b_time \in Reference..Reference + StateBTimeout
      BY <1>1, Typed, TimesAreNumbers DEF Inv, StateBMissed
    <2>2. /\ \A entered \in seen.b : entered \in Nat /\ seen.last <= entered
          /\ Stamped(base.b_time) /\ ~(base.b_time < seen.last)
      BY <2>1, Typed DEF Inv, StateBNotes
    <2>3. SUFFICES ASSUME ~seen.sent
                   PROVE  EntersBInTime \/ (seen.delayed /\ Reference # seen.last)
      BY DEF PassesWithStateB, EnteredB
    <2>4. CASE base.b_time \in seen.b
      BY <2>1, <2>4 DEF EntersBInTime
    <2>5. CASE seen.delayed
      <3>1. PICK entered \in seen.b : entered <= base.b_time
        BY <2>2, <2>3 DEF Stamped
      <3>2. Reference = seen.last => entered \in Reference..Reference + StateBTimeout
        BY <2>1, <2>2, <3>1, Typed, TimesAreNumbers DEF Inv
      <3>3. QED
        BY <2>5, <3>2 DEF EntersBInTime
    <2>6. QED
      BY <2>2, <2>3, <2>4, <2>5 DEF Stamped
  <1>2. QED
    BY <1>1 DEF PassesWithStateB, EnteredB

LEMMA ResponseJudged ==
    ASSUME Inv, session = "closing", test \in ResponseTestNames, NEW verdict,
           ResponseVerdict(verdict)
    PROVE  JudgedWell(verdict)
  <1>1. test \notin StateFTestNames /\ test \notin OngoingTestNames
        /\ test # "welding_session_stop_001" /\ test # "cable_check_006"
    BY DEF ResponseTestNames, StateFTestNames, OngoingTestNames
  <1>2. /\ StateBNotes /\ Stops /\ Extras /\ LatestB /\ ResponseNotes
    BY <1>1 DEF Inv, Notes, PilotNotes
  <1>3. SUFFICES ASSUME verdict # "PreconditionsNotMet"
                 PROVE  JudgedWell(verdict)
    BY DEF JudgedWell
  <1>4. Tested /\ Deviated
    BY <1>2, <1>3 DEF ResponseVerdict, ResponseNotes
  <1>5. Reference \in Nat /\ seen.last <= Reference /\ seen.last > 0
    BY <1>4, Typed, TimesAreNumbers DEF Inv, Deviated, Reference
  <1>6. /\ base.stop_req_time = base.stop_res_time /\ base.stop_req_time \in {0, seen.stopped}
        /\ seen.stopped \in {0, clock}
    BY <1>2, Typed DEF Inv, Stops
  <1>7. CASE verdict = "PassCriteriaMet"
    <2>1. PassesWithStateB
      BY <1>2, <1>4, <1>5, <1>7, PassedWithStateB DEF ResponseVerdict, Deviated
    <2>2. seen.stopped > 0 /\ test \notin Clockless => EndedInTime
      BY <1>5, <1>6, <1>7, Typed, TimesAreNumbers
      DEF Inv, ResponseVerdict, StopLate, CloseLate, EndedInTime
    <2>3. test \in TalkerTests => ~seen.talked
      BY <1>2, <1>4, <1>7, Typed DEF Inv, ResponseVerdict, ResponseNotes, Tested
    <2>4. QED
      BY <1>5, <1>7, <2>1, <2>2, <2>3 DEF JudgedWell
  <1>8. CASE verdict = "PassCriteriaNotMet"
    <2>1. ASSUME base.extra \/ outcome = "PassCriteriaNotMet"
          PROVE  Deserved
      <3>1. seen.talked
        BY <1>2, <1>5, <2>1 DEF Extras
      <3>2. QED
        BY <3>1, Zenon DEF Deserved
    <2>2. ASSUME StateBMissed(Reference, Reference + StateBTimeout)
          PROVE  Deserved
      <3>1. /\ base.validate
            /\ seen.was_b => seen.talked \/ seen.sent \/ seen.stamped
            /\ base.b_time < Reference \/ Reference + StateBTimeout < base.b_time
        BY <1>4, <2>2 DEF StateBMissed, Deviated
      <3>2. SUFFICES ASSUME ~seen.talked, EnteredB, ~LateStateB, ~Unheard, ~seen.stamped,
                            seen.sent => Reference = seen.last
                     PROVE  FALSE
        BY <1>1, Zenon DEF Deserved
      <3>3. /\ ~EntryOnItsWay /\ ~(bsp_event > 0) /\ ~seen.delayed
            /\ \A entered \in seen.b : entered <= base.b_time
            /\ seen.was_b => seen.last <= base.b_time
        BY <1>2, <1>5, <3>1, <3>2 DEF Unheard, LatestB
      <3>4. /\ base.b_time < seen.last \/ base.b_time \in seen.b
                 \/ (seen.sent /\ base.b_time = seen.last)
            /\ \A entered \in seen.b : entered \in Nat /\ entered <= Reference + StateBTimeout
        BY <1>2, <1>5, <3>2, <3>3, Typed, TimesAreNumbers DEF Inv, StateBNotes, Stamped, LateStateB
      <3>5. CASE seen.was_b
        BY <1>5, <3>1, <3>2, <3>3, <3>4, <3>5, Typed, TimesAreNumbers DEF Inv
      <3>6. CASE EntersBInTime
        <4>1. PICK time \in seen.b : time \in Reference..Reference + StateBTimeout
          BY <3>6 DEF EntersBInTime
        <4>2. Reference <= base.b_time
          BY <1>5, <3>3, <3>4, <4>1, Typed DEF Inv
        <4>3. QED
          BY <1>5, <3>1, <3>2, <3>4, <4>2, Typed, TimesAreNumbers DEF Inv
      <3>7. QED
        BY <3>2, <3>5, <3>6 DEF EnteredB
    <2>3. ASSUME \/ StopLate(Reference) \/ CloseLate(Reference)
                 \/ (IF base.stop_req_time > 0 THEN base.stop_req_time ELSE clock) < Reference
          PROVE  Deserved
      <3>1. ~EndedInTime
        BY <1>5, <1>6, <2>3, Typed, TimesAreNumbers DEF Inv, StopLate, CloseLate, EndedInTime
      <3>2. QED
        BY <3>1, Zenon DEF Deserved
    <2>4. QED
      BY <1>5, <1>8, <2>1, <2>2, <2>3 DEF ResponseVerdict, JudgedWell
  <1>9. QED
    BY <1>3, <1>5, <1>7, <1>8 DEF JudgedWell

LEMMA StateFJudged ==
    ASSUME Inv, session = "closing", test \in StateFTestNames
    PROVE  JudgedWell(TestVerdict)
  <1>1. /\ test \notin ResponseTestNames /\ test \notin TalkerTests
        /\ test # "welding_session_stop_001" /\ test # "cable_check_006"
        /\ test \notin {"session_setup_004", "service_detail_011", "current_demand_005"}
    BY DEF ResponseTestNames, StateFTestNames, TalkerTests
  <1>2. Stops /\ Extras /\ StateFNotes
    BY <1>1 DEF Inv, Notes
  <1>3. /\ TestVerdict # "PreconditionsNotMet" =>
              Tested /\ (base.res_time = 0 => test # "service_detail_payment_selection_012")
        /\ TestVerdict = "PassCriteriaMet" => clock - base.res_time <= TcpTimeout
        /\ TestVerdict = "PassCriteriaNotMet" =>
              \/ base.extra \/ outcome = "PassCriteriaNotMet"
              \/ clock - base.res_time > TcpTimeout
    <2> USE DEF Tested, TestVerdict, Verdict, StateFVerdict
    <2>1. CASE test = "session_setup_007"
      BY <1>2, <2>1, Typed, TimesAreNumbers DEF Inv, session_setup_007_verdict
    <2>2. CASE test = "service_detail_payment_selection_012"
      BY <1>2, <2>2, Typed, TimesAreNumbers DEF Inv, service_detail_payment_selection_012_verdict
    <2>3. CASE test = "current_demand_007"
      BY <1>2, <2>3, Typed, TimesAreNumbers DEF Inv, current_demand_007_verdict
    <2>4. QED
      BY <2>1, <2>2, <2>3 DEF StateFTestNames
  <1>4. TestVerdict # "PreconditionsNotMet" => base.res_time > 0 /\ seen.last = base.res_time
    BY <1>2, <1>3, Typed DEF Inv, StateFNotes
  <1>5. Reference = seen.last
    BY <1>1 DEF Reference
  <1>6. /\ TestVerdict = "PassCriteriaMet" /\ seen.stopped > 0 => EndedInTime
        /\ TestVerdict = "PassCriteriaNotMet" => seen.talked \/ ~EndedInTime
    BY <1>2, <1>3, <1>4, <1>5, Typed, TimesAreNumbers DEF Inv, EndedInTime, Stops, Extras
  <1>7. QED
    BY <1>1, <1>4, <1>6, Typed DEF Inv, JudgedWell, Deserved

LEMMA OngoingJudged ==
    ASSUME Inv, session = "closing", test \in OngoingTestNames
    PROVE  JudgedWell(TestVerdict)
  <1>1. /\ test \notin ResponseTestNames /\ test \notin TalkerTests /\ test \notin StateFTestNames
        /\ test # "welding_session_stop_001"
        /\ test \notin {"session_setup_004", "service_detail_011", "current_demand_005"}
    BY DEF ResponseTestNames, StateFTestNames, TalkerTests, OngoingTestNames
  <1>2. Stops /\ Reference = seen.last
    BY <1>1 DEF Inv, Notes, Reference
  <1>3. CASE test = "cable_check_006"
    <2>1. TestVerdict # "PreconditionsNotMet" => Tested
      BY <1>3 DEF TestVerdict, Verdict, cable_check_006_verdict, Tested
    <2>2. QED
      BY <1>1, <1>3, <2>1, Typed DEF Inv, Notes, CableCheckNotes, JudgedWell, Clockless
  <1>4. CASE test = "authorization_009"
    <2>1. OngoingNotes(Msg.AUTHORIZATION, Msg.AUTHORIZATION)
      BY <1>4 DEF Inv, Notes
    <2>2. /\ TestVerdict # "PreconditionsNotMet" => Tested
          /\ TestVerdict = "PassCriteriaMet" =>
                /\ ~base.aborted /\ ~authorization_009_StateBMissed
                /\ ~StopLate(base.res_time) /\ ~authorization_009_CloseLate
      BY <1>4 DEF TestVerdict, Verdict, authorization_009_verdict, Tested
    <2>3. /\ TestVerdict # "PreconditionsNotMet" => seen.last > 0
          /\ TestVerdict = "PassCriteriaMet" =>
                base.res_time = seen.last /\ (base.validate \/ seen.was_b \/ seen.sent)
      BY <2>1, <2>2 DEF OngoingNotes
    <2>4. TestVerdict = "PassCriteriaMet" => ~base.validate
      BY <2>2, <2>3, Typed, TimesAreNumbers, MaxTimeIsNat, EpochAssumption
      DEF Inv, TypeNow, Times, authorization_009_StateBMissed, system_time
    <2>5. TestVerdict = "PassCriteriaMet" /\ seen.stopped > 0 => EndedInTime
      BY <1>2, <2>2, <2>3, Typed, TimesAreNumbers
      DEF Inv, Stops, StopLate, authorization_009_CloseLate, EndedInTime
    <2>6. QED
      BY <1>1, <2>3, <2>4, <2>5 DEF JudgedWell, PassesWithStateB, EnteredB
  <1>5. CASE test = "precharge_006"
    <2>1. OngoingNotes(Msg.PRE_CHARGE, Msg.POWER_DELIVERY)
      BY <1>5 DEF Inv, Notes
    <2>2. /\ TestVerdict # "PreconditionsNotMet" => Tested
          /\ TestVerdict = "PassCriteriaMet" =>
                /\ ~base.aborted
                /\ ~StateBMissed(base.res_time, base.res_time + StateBTimeout)
                /\ base.stop_res_time - base.res_time <= TcpTimeout
                /\ clock - LongerOf(base.stop_res_time, base.res_time) <= TcpTimeout
      BY <1>5 DEF TestVerdict, Verdict, precharge_006_verdict, Tested
    <2>3. /\ TestVerdict # "PreconditionsNotMet" => seen.last > 0
          /\ TestVerdict = "PassCriteriaMet" =>
                base.res_time = seen.last /\ (base.validate \/ seen.was_b \/ seen.sent)
      BY <2>1, <2>2 DEF OngoingNotes
    <2>4. TestVerdict = "PassCriteriaMet" => PassesWithStateB
      BY <1>1, <1>2, <2>2, <2>3, PassedWithStateB, Typed DEF Inv, Notes, PilotNotes
    <2>5. TestVerdict = "PassCriteriaMet" /\ seen.stopped > 0 => EndedInTime
      BY <1>2, <2>2, <2>3, Typed, TimesAreNumbers DEF Inv, Stops, LongerOf, EndedInTime
    <2>6. QED
      BY <1>1, <2>3, <2>4, <2>5 DEF JudgedWell
  <1>6. QED
    BY <1>3, <1>4, <1>5 DEF OngoingTestNames

LEMMA WeldingJudged ==
    ASSUME Inv, test = "welding_session_stop_001"
    PROVE  JudgedWell(TestVerdict)
  <1>1. /\ test \notin ResponseTestNames /\ test \notin TalkerTests /\ test \notin StateFTestNames
        /\ test \in Clockless /\ Reference = seen.last
    BY DEF ResponseTestNames, StateFTestNames, TalkerTests, Clockless, Reference
  <1>2. /\ TestVerdict # "PreconditionsNotMet" => base.res_time > 0
        /\ TestVerdict = "PassCriteriaMet" =>
              ~StateBMissed(base.res_time, base.res_time + StateBTimeout)
    BY DEF TestVerdict, Verdict, welding_session_stop_001_verdict
  <1>3. TestVerdict # "PreconditionsNotMet" =>
            /\ seen.last > 0 /\ seen.last = base.res_time
            /\ base.validate \/ seen.was_b \/ seen.sent
    BY <1>2 DEF Inv, Notes, WeldingNotes
  <1>4. TestVerdict = "PassCriteriaMet" => PassesWithStateB
    BY <1>1, <1>2, <1>3, PassedWithStateB, Typed DEF Inv, Notes, PilotNotes
  <1>5. QED
    BY <1>1, <1>3, <1>4 DEF JudgedWell

LEMMA Judging ==
    ASSUME Inv, session = "closing"
    PROVE  JudgedWell(TestVerdict)
  <1>1. test \in ResponseTestNames \union OngoingTestNames \union StateFTestNames
                 \union {"welding_session_stop_001"}
    BY TestsAssumption DEF Inv, TypeNow
  <1>2. CASE test \in ResponseTestNames
    BY <1>2, ResponseVerdicts, ResponseJudged
  <1>3. QED
    BY <1>1, <1>2, OngoingJudged, StateFJudged, WeldingJudged

-----------------------------------------------------------------------------
(***************************************************************************)
(* What a verdict is worth                                                 *)
(***************************************************************************)
AllProperties ==
    /\ VerdictNeedsDeviation /\ PassMeansStateB /\ PassMeansEnd /\ TalkerNeverPasses
    /\ FailIsDeserved

LEMMA Close ==
    ASSUME Inv, ConnectionClose(TestVerdict)
    PROVE  AllProperties'
  <1>1. /\ outcome' = TestVerdict /\ session = "closing"
        /\ UNCHANGED <<test, base, clock, seen>> /\ BspSame
    BY DEF ConnectionClose, config, bspVars, BspSame
  <1>2. JudgedWell(TestVerdict)
    BY <1>1, Judging
  <1>3. /\ EnteredB' = EnteredB /\ EndedInTime' = EndedInTime /\ Reference' = Reference
        /\ LateStateB' = LateStateB /\ Unheard' = Unheard
    BY <1>1 DEF EnteredB, EntersBInTime, EndedInTime, Reference, LateStateB, Unheard,
                EntryOnItsWay, BspSame
  <1>4. /\ VerdictNeedsDeviation' /\ PassMeansStateB'
    BY <1>1, <1>2, <1>3
    DEF VerdictNeedsDeviation, PassMeansStateB, PassesWithStateB, Judged, JudgedWell
  <1>5. PassMeansEnd' /\ TalkerNeverPasses'
    BY <1>1, <1>2, <1>3 DEF PassMeansEnd, TalkerNeverPasses, TalkerTests, Judged, JudgedWell, Clockless
  <1>6. FailIsDeserved'
    BY <1>1, <1>2, <1>3 DEF FailIsDeserved, Judged, JudgedWell, Deserved
  <1>7. QED
    BY <1>4, <1>5, <1>6 DEF AllProperties

LEMMA NotClosed ==
    ASSUME session # "closed"
    PROVE  AllProperties
  BY DEF AllProperties, VerdictNeedsDeviation, PassMeansStateB, PassMeansEnd, TalkerNeverPasses,
         FailIsDeserved, Judged

\* Only the close of the connection closes a session.
LEMMA RepliesDoNotClose ==
    ASSUME NEW sent, NEW event, NEW next, Reply(sent, event, next)
    PROVE  session' # "closed"
  BY DEF Reply

LEMMA RequestsDoNotClose ==
    ASSUME Inv, \/ ResponseStep
                \/ OngoingStep(Msg.AUTHORIZATION, Msg.AUTHORIZATION)
                \/ OngoingStep(Msg.PRE_CHARGE, Msg.POWER_DELIVERY)
                \/ CableCheckStep \/ StateFStep \/ WeldingStep
    PROVE  session = "open" /\ session' # "closed"
  <1>1. InSession
    BY DEF ResponseStep, OngoingStep, CableCheckStep, StateFStep, WeldingStep
  <1>2. ASSUME NEW counts, UnexpectedRequest(counts)
        PROVE  session' # "closed"
    BY <1>2 DEF UnexpectedRequest
  <1>3. ASSUME NEW m \in Requests \ {Msg.SESSION_STOP}, BaseHandles(m)
        PROVE  session' # "closed"
    BY <1>1, <1>3, BaseHandlesFacts DEF Inv, InSession
  <1>4. ASSUME NEW takes_times, HandleSessionStop(takes_times)
        PROVE  session' # "closed"
    BY <1>4, RepliesDoNotClose DEF HandleSessionStop
  <1>5. CASE ResponseStep
    <2>1. ASSUME Deviates PROVE session' # "closed"
      BY <2>1, RepliesDoNotClose DEF Deviates, Deviate
    <2>2. QED
      BY <1>1, <1>2, <1>3, <1>4, <1>5, <2>1 DEF ResponseStep, InSession
  <1>6. ASSUME NEW request, NEW event, NEW next, NEW repeated, NEW good, NEW forever, NEW starts,
               NEW validate,
               Answered(request, event, next, repeated, good, forever, starts, validate)
        PROVE  session' # "closed"
    BY <1>6, RepliesDoNotClose DEF Answered
  <1>7. ASSUME NEW request \in Handled, NEW next, OngoingStep(request, next)
        PROVE  session' # "closed"
    <2>1. request \in Nat /\ Msg.SESSION_STOP \notin {n \in Requests : n < request}
      BY Numbers, RequestNumbers DEF Handled
    <2>2. ASSUME NEW v, NEW repeated, NEW validate, Answer(request, v, next, repeated, validate)
          PROVE  session' # "closed"
      BY <1>6, <2>2 DEF Answer
    <2>3. ASSUME NEW m \in {n \in Requests : n < request}, BaseHandles(m)
          PROVE  session' # "closed"
      BY <1>3, <2>1, <2>3
    <2>4. QED
      BY <1>2, <1>4, <1>7, <2>2, <2>3 DEF OngoingStep
  <1>8. CASE CableCheckStep
    <2>1. Msg.SESSION_STOP \notin {n \in Requests : n < Msg.CABLE_CHECK}
      BY Numbers, RequestNumbers
    <2>2. ASSUME cable_check_006_unexpected_request PROVE session' # "closed"
      BY <2>2 DEF cable_check_006_unexpected_request
    <2>3. ASSUME cable_check_006_cable_check PROVE session' # "closed"
      BY <1>6, <2>3 DEF cable_check_006_cable_check
    <2>4. ASSUME cable_check_006_charge_parameter PROVE session' # "closed"
      BY <2>4, RepliesDoNotClose DEF cable_check_006_charge_parameter
    <2>5. QED
      <3>1. ASSUME NEW m \in {n \in Requests : n < Msg.CABLE_CHECK}, BaseHandles(m)
            PROVE  session' # "closed"
        BY <1>3, <2>1, <3>1
      <3>2. ASSUME HandleSessionStop(base.received) PROVE session' # "closed"
        BY <3>2 DEF HandleSessionStop, Reply
      <3>3. QED
        BY <1>1, <1>8, <2>2, <2>3, <2>4, <3>1, <3>2 DEF CableCheckStep, InSession
  <1>9. CASE StateFStep
    <2>1. ASSUME NEW request \in Handled,
                 SignalStateF(request, {"signalled", "stopped"}, base.failed)
          PROVE  session' # "closed"
      BY <2>1, Zenon DEF SignalStateF, Reply
    <2>2. ASSUME NEW request \in Handled,
                 SignalStateF(request, {"signalled", "stopped"}, FALSE)
          PROVE  session' # "closed"
      BY <2>2, Zenon DEF SignalStateF, Reply
    <2>3. ASSUME NEW request \in Handled,
                 SignalStateF(request, {"signalled", "stopped", "missed"}, base.failed)
          PROVE  session' # "closed"
      BY <2>3, Zenon DEF SignalStateF, Reply
    <2>4. ASSUME UnexpectedRequest(TRUE) \/ HandleSessionStop(FALSE)
          PROVE  session' # "closed"
      BY <2>4 DEF UnexpectedRequest, HandleSessionStop, Reply
    <2>5. SignalsStateF => session' # "closed"
      BY <2>1, <2>2, <2>3 DEF SignalsStateF
    <2>6. QED
      BY <1>1, <1>3, <1>9, <2>4, <2>5 DEF StateFStep, InSession
  <1>10. CASE WeldingStep
    <2>1. ASSUME NEW v, NEW good, NEW next, SessionStopAnswered(v, good, next)
          PROVE  session' # "closed"
      BY <2>1, RepliesDoNotClose DEF SessionStopAnswered
    <2>2. ASSUME StopsCharging PROVE session' # "closed"
      BY <2>2, RepliesDoNotClose DEF StopsCharging
    <2>3. ASSUME welding_session_stop_001_current_demand PROVE session' # "closed"
      BY <2>3, RepliesDoNotClose DEF welding_session_stop_001_current_demand
    <2>4. ASSUME \/ welding_session_stop_001_din_power_delivery
                 \/ welding_session_stop_001_iso_power_delivery
          PROVE  session' # "closed"
      BY <2>2, <2>4
      DEF Handles, SentAsItIs, Reply, welding_session_stop_001_din_power_delivery,
          welding_session_stop_001_iso_power_delivery
    <2>5. ASSUME \/ welding_session_stop_001_din_session_stop
                 \/ welding_session_stop_001_iso_session_stop
          PROVE  session' # "closed"
      BY <2>1, <2>5
      DEF welding_session_stop_001_din_session_stop, welding_session_stop_001_iso_session_stop
    <2>6. ASSUME \E m \in Handled : Handles(m, NextStates(m)) PROVE session' # "closed"
      BY <2>6 DEF Handles, SentAsItIs, Reply
    <2>7. ASSUME UNCHANGED <<linkVars, replyVars, testVars, clock, seen>>
          PROVE session' # "closed"
      BY <1>1, <2>7 DEF InSession, replyVars
    <2>8. QED
      BY <1>1, <1>10, <2>6, <2>3, <2>4, <2>5, <2>7 DEF WeldingStep, InSession
  <1>11. Msg.AUTHORIZATION \in Handled /\ Msg.PRE_CHARGE \in Handled
    BY Numbers, RequestNumbers DEF Handled
  <1>12. QED
    BY <1>1, <1>5, <1>7, <1>8, <1>9, <1>10, <1>11 DEF InSession

LEMMA PropertiesNext ==
    ASSUME Inv, AllProperties, [Next]_vars
    PROVE  AllProperties'
  <1>1. CASE UNCHANGED vars
    BY <1>1
    DEF vars, AllProperties, VerdictNeedsDeviation, PassMeansStateB, PassMeansEnd,
        TalkerNeverPasses, FailIsDeserved, Judged, EnteredB, EntersBInTime, EndedInTime,
        LateStateB, Unheard, EntryOnItsWay, Reference,
        config, linkVars, replyVars, bspVars, testVars
  <1>2. CASE Next
    <2>1. TypeOK
      BY TypeNowImpliesTypeOK DEF Inv
    <2>2. CASE \/ BspEventB(TakesBTime) \/ VehicleEntersB \/ VehicleLeavesB
               \/ BspEventArrives \/ BspEventUpdates \/ BspEventOther
               \/ Tick \/ VehicleCloses \/ ReadFails \/ DlinkTerminated
      <3>1. (session # "closed")'
        BY <2>2
        DEF BspEventB, VehicleEntersB, VehicleLeavesB, PilotChanges, BspEventArrives,
            BspEventUpdates, BspEventOther, Arrives, Tick, VehicleCloses, ReadFails,
            DlinkTerminated, replyVars
      <3>2. QED
        BY <3>1, NotClosed, PTL
    <2>3. CASE ConnectionClose(TestVerdict)
      BY <2>3, Close
    <2>4. CASE session' # "closed"
      <3>1. (session # "closed")'
        BY <2>4
      <3>2. QED
        BY <3>1, NotClosed, PTL
    <2>5. QED
      BY <1>2, <2>1, <2>2, <2>3, <2>4, Steps, RequestsDoNotClose
  <1>3. QED
    BY <1>1, <1>2

LEMMA PropertiesCorrect == Spec => []AllProperties
  <1>1. ASSUME TestInit PROVE AllProperties
    <2>1. session # "closed"
      BY <1>1 DEF TestInit, Init
    <2>2. QED
      BY <2>1, NotClosed
  <1>2. QED
    BY <1>1, InvCorrect, PropertiesNext, PTL DEF Spec

\* A vehicle is judged only when the test has deviated from the protocol.
THEOREM VerdictNeedsDeviationCorrect == Spec => []VerdictNeedsDeviation
  <1>1. AllProperties => VerdictNeedsDeviation
    BY DEF AllProperties
  <1>2. QED
    BY <1>1, PropertiesCorrect, PTL

\* A vehicle that passes really was in state B in time, however late each of any number of
\* changes of the control pilot arrives and is handled, unless one that it made before the
\* response was still on its way then (the server judges by the state that it knows) or, in
\* the tests whose time starts later than the response, arrived only after time had passed.
THEOREM PassMeansStateBCorrect == Spec => []PassMeansStateB
  <1>1. AllProperties => PassMeansStateB
    BY DEF AllProperties
  <1>2. QED
    BY <1>1, PropertiesCorrect, PTL

\* A vehicle that passes and ended the session itself did so in time.
THEOREM PassMeansEndCorrect == Spec => []PassMeansEnd
  <1>1. AllProperties => PassMeansEnd
    BY DEF AllProperties
  <1>2. QED
    BY <1>1, PropertiesCorrect, PTL

\* A vehicle that goes on after the deviation does not pass the tests that forbid it.
THEOREM TalkerNeverPassesCorrect == Spec => []TalkerNeverPasses
  <1>1. AllProperties => TalkerNeverPasses
    BY DEF AllProperties
  <1>2. QED
    BY <1>1, PropertiesCorrect, PTL

\* What it takes to pass, together.
THEOREM PassIsDeservedCorrect == Spec => []PassIsDeserved
  <1>1. AllProperties => PassIsDeserved
    BY DEF AllProperties, PassIsDeserved
  <1>2. QED
    BY <1>1, PropertiesCorrect, PTL

\* A vehicle fails only when it went on talking, did not end the session in time, or really
\* was in state B at no time, too late, or not so that the server heard of it: by the end,
\* before time passed, or before the response.
THEOREM FailIsDeservedCorrect == Spec => []FailIsDeserved
  <1>1. AllProperties => FailIsDeserved
    BY DEF AllProperties
  <1>2. QED
    BY <1>1, PropertiesCorrect, PTL

\* When failed responses end the session, a server that never finishes stops a vehicle that
\* never gives up, within the vehicle's own timeout and the time to end a session.
THEOREM OngoingEndsCorrect == Spec => []OngoingEnds
  <1>1. Inv => OngoingEnds
    BY DEF Inv, Notes, OngoingNotes, CableCheckNotes, OngoingEnds, OngoingTestNames
  <1>2. QED
    BY <1>1, InvCorrect, PTL
=============================================================================
