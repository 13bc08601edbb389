--------------------------- MODULE ResponseTests ----------------------------
(***************************************************************************)
(* The test cases that deviate once: the server gives one wrong response   *)
(* (a failure, or the response to another request), or none, and the       *)
(* vehicle has to enter state B and to close the connection in time.       *)
(*                                                                         *)
(* For each test and each protocol: what its handle_request accepts, the   *)
(* handler that deviates, the handler of SessionStop; for both protocols   *)
(* whether on_update_bsp_event takes the time of a state B, and the        *)
(* verdict of on_connection_close_event.                                   *)
(***************************************************************************)
EXTENDS TestSession

Between(first, last) == {m \in Requests : first <= m /\ m <= last}

UpTo(last) == Between(0, last) \union {Msg.SESSION_STOP}

\* The same, until the response that deviates has been sent
OnceUpTo(last, more) ==
    (IF base.received THEN {} ELSE Between(0, last) \union more) \union {Msg.SESSION_STOP}

Certificates == {Msg.CERTIFICATE_INSTALLATION, Msg.CERTIFICATE_UPDATE}

\* The base server handles the request; if that goes well, the deviation replaces its
\* response, and the control pilot is to be validated unless it is in state B already.
\* This takes a moment, so that what happened before can be told from what happens after.
\* If it does not go well, the reply is the request's, or already the new one.
Deviate(request, sent, event, forced, failing) ==
    /\ \E v \in validate_response_code(request), next \in NextStates(request) :
          IF Succeeds(v)
          THEN /\ Reply(sent, event, next)
               /\ base' = [base EXCEPT !.received = TRUE, !.req_time = clock,
                                       !.res_time = clock + 1,
                                       !.validate = @ \/ cp_state # "B"]
               /\ clock' = clock + 1
               /\ force_next_connection_req_res' = (force_next_connection_req_res \/ forced)
               /\ seen' = [ResponseSent(clock, clock + 1) EXCEPT !.talked = @ \/ seen.last > 0]
          ELSE /\ \E m \in failing : Reply(m, v.event, next)
               /\ base' = [base EXCEPT !.received = TRUE, !.failed = TRUE, !.req_time = clock]
               /\ Talks
               /\ UNCHANGED <<clock, force_next_connection_req_res>>
    /\ UNCHANGED <<is_connection_terminated, outcome>>

FailedResponse(request) == Deviate(request, request, "NO_EVENT", TRUE, {request})

\* The same, without keeping the connection when the data link ends
UnforcedResponse(request) == Deviate(request, request, "NO_EVENT", FALSE, {request})

\* PaymentServiceSelectionRes instead of the response that was asked for
SwappedResponse(request) ==
    Deviate(request, Msg.PAYMENT_SERVICE_SELECTION, "NO_EVENT", FALSE, {request})

\* The same; the new response is validated, too, which may fail in turn.
SwappedValidatedResponse(request) ==
    Deviate(request, Msg.PAYMENT_SERVICE_SELECTION, "NO_EVENT", FALSE,
            {request} \union IF InOrder(request) THEN {Msg.PAYMENT_SERVICE_SELECTION} ELSE {})

NoResponse(request) == Deviate(request, request, "IGNORE_MSG", FALSE, {request})

Tested == base.received /\ ~base.failed

\* The verdict without a response: the vehicle has to wait until its timeout has expired.
SilenceVerdict(timeout) ==
    LET expired == base.req_time + timeout
    IN  Verdict(Tested,
                /\ ~base.extra
                /\ ~StateBMissed(expired, expired + StateBTimeout)
                /\ base.stop_req_time > 0 => base.stop_req_time >= expired
                /\ ~StopLate(expired)
                /\ clock >= expired /\ ~CloseLate(expired)
                /\ outcome # "PassCriteriaNotMet")

-----------------------------------------------------------------------------
(***************************************************************************)
(* chn_authorization_004: a failed response to Authorization               *)
(***************************************************************************)
authorization_004_takes_b_time == TRUE

authorization_004_verdict ==
    Verdict(Tested /\ (base.extra \/ base.res_time > 0),
            /\ ~base.extra
            /\ ~StateBMissed(base.res_time, base.res_time + StateBTimeout)
            /\ ~StopLate(base.res_time) /\ ~CloseLate(base.res_time)
            /\ outcome # "PassCriteriaNotMet")

authorization_004_din_accepts == OnceUpTo(Msg.CHARGE_PARAMETER_DISCOVERY - 1, {})

authorization_004_din_contract_authentication == FailedResponse(Msg.AUTHORIZATION)

authorization_004_din_session_stop == HandleSessionStop(base.received)

authorization_004_iso_accepts == OnceUpTo(Msg.AUTHORIZATION, Certificates)

authorization_004_iso_authorization == FailedResponse(Msg.AUTHORIZATION)

authorization_004_iso_session_stop == HandleSessionStop(base.received)

authorization_004 ==
    /\ test = "authorization_004"
    /\ \/ /\ protocol = "DIN"
          /\ TestServer(authorization_004_din_accepts, Msg.AUTHORIZATION,
                        authorization_004_din_contract_authentication,
                        authorization_004_din_session_stop)
       \/ /\ protocol = "ISO"
          /\ TestServer(authorization_004_iso_accepts, Msg.AUTHORIZATION,
                        authorization_004_iso_authorization,
                        authorization_004_iso_session_stop)

-----------------------------------------------------------------------------
(***************************************************************************)
(* chn_service_discovery_008: PaymentServiceSelectionRes for               *)
(* ServiceDiscoveryReq                                                     *)
(***************************************************************************)
service_discovery_008_takes_b_time == base.validate

service_discovery_008_verdict ==
    Verdict(Tested /\ (base.extra \/ base.res_time > 0),
            /\ ~base.extra
            /\ ~StateBMissed(base.res_time, base.res_time + StateBTimeout)
            /\ ~CloseLate(base.res_time)
            /\ outcome = "PreconditionsNotMet")

service_discovery_008_din_accepts == UpTo(Msg.SERVICE_DISCOVERY)

service_discovery_008_din_service_discovery == SwappedValidatedResponse(Msg.SERVICE_DISCOVERY)

service_discovery_008_din_session_stop == HandleSessionStop(base.received)

service_discovery_008_iso_accepts == UpTo(Msg.SERVICE_DISCOVERY)

service_discovery_008_iso_service_discovery == SwappedValidatedResponse(Msg.SERVICE_DISCOVERY)

service_discovery_008_iso_session_stop == HandleSessionStop(base.received)

service_discovery_008 ==
    /\ test = "service_discovery_008"
    /\ \/ /\ protocol = "DIN"
          /\ TestServer(service_discovery_008_din_accepts, Msg.SERVICE_DISCOVERY,
                        service_discovery_008_din_service_discovery,
                        service_discovery_008_din_session_stop)
       \/ /\ protocol = "ISO"
          /\ TestServer(service_discovery_008_iso_accepts, Msg.SERVICE_DISCOVERY,
                        service_discovery_008_iso_service_discovery,
                        service_discovery_008_iso_session_stop)

-----------------------------------------------------------------------------
(***************************************************************************)
(* chn_service_detail_payment_selection_003: a failed response to          *)
(* PaymentServiceSelection                                                 *)
(***************************************************************************)
service_detail_payment_selection_003_takes_b_time == TRUE

\* mutant: a refused request is judged as well
service_detail_payment_selection_003_verdict_AnyFailure ==
    Verdict(base.received,
            /\ ~base.extra
            /\ ~StateBMissed(base.res_time, base.res_time + StateBTimeout)
            /\ ~StopLate(base.res_time) /\ ~CloseLate(base.res_time)
            /\ outcome # "PassCriteriaNotMet")

service_detail_payment_selection_003_verdict ==
    Verdict(Tested,
            /\ ~base.extra
            /\ ~StateBMissed(base.res_time, base.res_time + StateBTimeout)
            /\ ~StopLate(base.res_time) /\ ~CloseLate(base.res_time)
            /\ outcome # "PassCriteriaNotMet")

service_detail_payment_selection_003_din_accepts == UpTo(Msg.PAYMENT_SERVICE_SELECTION)

service_detail_payment_selection_003_din_service_payment_selection == FailedResponse(Msg.PAYMENT_SERVICE_SELECTION)

service_detail_payment_selection_003_din_session_stop == HandleSessionStop(Tested)

service_detail_payment_selection_003_iso_accepts == UpTo(Msg.PAYMENT_SERVICE_SELECTION)

service_detail_payment_selection_003_iso_payment_service_selection == FailedResponse(Msg.PAYMENT_SERVICE_SELECTION)

service_detail_payment_selection_003_iso_session_stop == HandleSessionStop(Tested)

service_detail_payment_selection_003 ==
    /\ test = "service_detail_payment_selection_003"
    /\ \/ /\ protocol = "DIN"
          /\ TestServer(service_detail_payment_selection_003_din_accepts, Msg.PAYMENT_SERVICE_SELECTION,
                        service_detail_payment_selection_003_din_service_payment_selection,
                        service_detail_payment_selection_003_din_session_stop)
       \/ /\ protocol = "ISO"
          /\ TestServer(service_detail_payment_selection_003_iso_accepts, Msg.PAYMENT_SERVICE_SELECTION,
                        service_detail_payment_selection_003_iso_payment_service_selection,
                        service_detail_payment_selection_003_iso_session_stop)

-----------------------------------------------------------------------------
(***************************************************************************)
(* chn_cablecheck_007: PaymentServiceSelectionRes for CableCheckReq        *)
(***************************************************************************)
cablecheck_007_takes_b_time == base.validate

cablecheck_007_verdict ==
    Verdict(Tested /\ (base.extra \/ base.res_time > 0),
            /\ ~base.extra
            /\ ~StateBMissed(base.res_time, base.res_time + StateBTimeout)
            /\ ~CloseLate(base.res_time))

cablecheck_007_din_accepts == OnceUpTo(Msg.CABLE_CHECK, {})

cablecheck_007_din_cable_check == SwappedResponse(Msg.CABLE_CHECK)

cablecheck_007_din_session_stop == HandleSessionStop(base.received)

cablecheck_007_iso_accepts == OnceUpTo(Msg.CABLE_CHECK, {})

cablecheck_007_iso_cable_check == SwappedResponse(Msg.CABLE_CHECK)

cablecheck_007_iso_session_stop == HandleSessionStop(base.received)

cablecheck_007 ==
    /\ test = "cablecheck_007"
    /\ \/ /\ protocol = "DIN"
          /\ TestServer(cablecheck_007_din_accepts, Msg.CABLE_CHECK,
                        cablecheck_007_din_cable_check,
                        cablecheck_007_din_session_stop)
       \/ /\ protocol = "ISO"
          /\ TestServer(cablecheck_007_iso_accepts, Msg.CABLE_CHECK,
                        cablecheck_007_iso_cable_check,
                        cablecheck_007_iso_session_stop)

-----------------------------------------------------------------------------
(***************************************************************************)
(* chn_charge_parameter_discovery_002: PaymentServiceSelectionRes for      *)
(* ChargeParameterDiscoveryReq.  An unexpected request shows in the        *)
(* outcome only.                                                           *)
(***************************************************************************)
charge_parameter_discovery_002_takes_b_time == TRUE

charge_parameter_discovery_002_verdict ==
    Verdict(Tested /\ base.res_time > 0,
            /\ ~StateBMissed(base.res_time, base.res_time + StateBTimeout)
            /\ ~StopLate(base.res_time) /\ ~CloseLate(base.res_time)
            /\ outcome = "PreconditionsNotMet")

charge_parameter_discovery_002_din_accepts == OnceUpTo(Msg.CHARGE_PARAMETER_DISCOVERY, {})

charge_parameter_discovery_002_din_charge_parameter == SwappedResponse(Msg.CHARGE_PARAMETER_DISCOVERY)

charge_parameter_discovery_002_din_session_stop == HandleSessionStop(base.received)

charge_parameter_discovery_002_iso_accepts ==
    OnceUpTo(Msg.CHARGE_PARAMETER_DISCOVERY, Certificates)

charge_parameter_discovery_002_iso_charge_parameter_discovery ==
    SwappedResponse(Msg.CHARGE_PARAMETER_DISCOVERY)

charge_parameter_discovery_002_iso_session_stop == HandleSessionStop(base.received)

charge_parameter_discovery_002 ==
    /\ test = "charge_parameter_discovery_002"
    /\ \/ /\ protocol = "DIN"
          /\ TestServer(charge_parameter_discovery_002_din_accepts, Msg.CHARGE_PARAMETER_DISCOVERY,
                        charge_parameter_discovery_002_din_charge_parameter,
                        charge_parameter_discovery_002_din_session_stop)
       \/ /\ protocol = "ISO"
          /\ TestServer(charge_parameter_discovery_002_iso_accepts, Msg.CHARGE_PARAMETER_DISCOVERY,
                        charge_parameter_discovery_002_iso_charge_parameter_discovery,
                        charge_parameter_discovery_002_iso_session_stop)

-----------------------------------------------------------------------------
(***************************************************************************)
(* chn_session_setup_004: no response to SessionSetup.  The vehicle has to *)
(* wait for it, and then to enter state B and to close the connection.     *)
(***************************************************************************)
session_setup_004_takes_b_time == TRUE

session_setup_004_verdict == SilenceVerdict(SetupTimeout)

session_setup_004_din_accepts == UpTo(Msg.SESSION_SETUP)

session_setup_004_din_session_setup == NoResponse(Msg.SESSION_SETUP)

session_setup_004_din_session_stop == HandleSessionStop(base.received)

session_setup_004_iso_accepts == UpTo(Msg.SESSION_SETUP)

session_setup_004_iso_session_setup == NoResponse(Msg.SESSION_SETUP)

session_setup_004_iso_session_stop == HandleSessionStop(base.received)

session_setup_004 ==
    /\ test = "session_setup_004"
    /\ \/ /\ protocol = "DIN"
          /\ TestServer(session_setup_004_din_accepts, Msg.SESSION_SETUP,
                        session_setup_004_din_session_setup,
                        session_setup_004_din_session_stop)
       \/ /\ protocol = "ISO"
          /\ TestServer(session_setup_004_iso_accepts, Msg.SESSION_SETUP,
                        session_setup_004_iso_session_setup,
                        session_setup_004_iso_session_stop)

-----------------------------------------------------------------------------
(***************************************************************************)
(* chn_service_detail_011: no response to ServiceDetail.  ISO 15118-2      *)
(* only; the handler does not call the one of the base server.             *)
(***************************************************************************)
service_detail_011_takes_b_time == TRUE

service_detail_011_verdict == SilenceVerdict(DetailTimeout)

service_detail_011_accepts == UpTo(Msg.SERVICE_DETAIL)

service_detail_011_service_detail == NoResponse(Msg.SERVICE_DETAIL)

service_detail_011_session_stop == HandleSessionStop(base.received)

service_detail_011 ==
    /\ test = "service_detail_011" /\ protocol = "ISO"
    /\ CountingServer(service_detail_011_accepts, base.received, Msg.SERVICE_DETAIL,
                      service_detail_011_service_detail, service_detail_011_session_stop)

-----------------------------------------------------------------------------
(***************************************************************************)
(* chn_service_detail_013: PaymentServiceSelectionRes for ServiceDetailReq *)
(***************************************************************************)
service_detail_013_takes_b_time == TRUE

service_detail_013_verdict ==
    Verdict(Tested,
            /\ ~base.extra
            /\ ~StateBMissed(base.res_time, base.res_time + StateBTimeout)
            /\ ~StopLate(base.res_time) /\ ~CloseLate(base.res_time)
            /\ outcome # "PassCriteriaNotMet")

service_detail_013_accepts == UpTo(Msg.SERVICE_DETAIL)

service_detail_013_service_detail == SwappedValidatedResponse(Msg.SERVICE_DETAIL)

service_detail_013_session_stop == HandleSessionStop(base.received)

service_detail_013 ==
    /\ test = "service_detail_013" /\ protocol = "ISO"
    /\ CountingServer(service_detail_013_accepts, base.received, Msg.SERVICE_DETAIL,
                      service_detail_013_service_detail, service_detail_013_session_stop)

-----------------------------------------------------------------------------
(***************************************************************************)
(* chn_current_demand_002: a failed response to CurrentDemand              *)
(***************************************************************************)
current_demand_002_takes_b_time == base.validate

current_demand_002_verdict ==
    Verdict(Tested /\ (base.extra \/ base.res_time > 0),
            /\ ~base.extra
            /\ ~StateBMissed(base.res_time, base.res_time + StateBTimeout)
            /\ ~CloseLate(base.res_time)
            /\ outcome = "PreconditionsNotMet")

current_demand_002_din_accepts == OnceUpTo(Msg.CURRENT_DEMAND, {})

current_demand_002_din_current_demand == UnforcedResponse(Msg.CURRENT_DEMAND)

current_demand_002_din_session_stop == HandleSessionStop(base.received)

current_demand_002_iso_accepts == OnceUpTo(Msg.CURRENT_DEMAND, {})

current_demand_002_iso_current_demand == UnforcedResponse(Msg.CURRENT_DEMAND)

current_demand_002_iso_session_stop == HandleSessionStop(base.received)

current_demand_002 ==
    /\ test = "current_demand_002"
    /\ \/ /\ protocol = "DIN"
          /\ TestServer(current_demand_002_din_accepts, Msg.CURRENT_DEMAND,
                        current_demand_002_din_current_demand,
                        current_demand_002_din_session_stop)
       \/ /\ protocol = "ISO"
          /\ TestServer(current_demand_002_iso_accepts, Msg.CURRENT_DEMAND,
                        current_demand_002_iso_current_demand,
                        current_demand_002_iso_session_stop)

-----------------------------------------------------------------------------
(***************************************************************************)
(* chn_current_demand_005: no response to CurrentDemand                    *)
(***************************************************************************)
current_demand_005_takes_b_time == base.validate

current_demand_005_verdict == SilenceVerdict(DemandTimeout)

current_demand_005_din_accepts == OnceUpTo(Msg.CURRENT_DEMAND, {})

current_demand_005_din_current_demand == NoResponse(Msg.CURRENT_DEMAND)

current_demand_005_din_session_stop == HandleSessionStop(base.received)

current_demand_005_iso_accepts == OnceUpTo(Msg.CURRENT_DEMAND, {})

current_demand_005_iso_current_demand == NoResponse(Msg.CURRENT_DEMAND)

current_demand_005_iso_session_stop == HandleSessionStop(base.received)

current_demand_005 ==
    /\ test = "current_demand_005"
    /\ \/ /\ protocol = "DIN"
          /\ TestServer(current_demand_005_din_accepts, Msg.CURRENT_DEMAND,
                        current_demand_005_din_current_demand,
                        current_demand_005_din_session_stop)
       \/ /\ protocol = "ISO"
          /\ TestServer(current_demand_005_iso_accepts, Msg.CURRENT_DEMAND,
                        current_demand_005_iso_current_demand,
                        current_demand_005_iso_session_stop)
=============================================================================
