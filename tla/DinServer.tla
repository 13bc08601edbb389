------------------------------ MODULE DinServer ------------------------------
(***************************************************************************)
(* The DIN 70121 server of the V2G module: DinServerBase                   *)
(* (src/modules/EvseTestV2G/server/din_server.cpp), which the servers of   *)
(* the test cases extend, with the handlers of the EVSE manager's commands *)
(* (charger/ISO15118_chargerImpl.cpp) that write the same v2g_context.     *)
(*                                                                         *)
(* One action is one request, from handle_request to the reply; no handler *)
(* waits.  The commands come at any time, also between sessions: that is   *)
(* how answers come too late.                                              *)
(*                                                                         *)
(* Of a response code only "OK" and "FAILED" are kept.  Whether the        *)
(* vehicle's energy transfer mode, service and tariff are right is left to *)
(* chance; the measured values are left out.                               *)
(***************************************************************************)
EXTENDS Naturals, Sequences

CONSTANT AuthEimSupported    \* test_data.auth_eim_supported

ASSUME AuthEimAssumption == AuthEimSupported \in BOOLEAN

VARIABLES
    terminate_connection_on_failed_response,    \* configuration
    iso_selected_payment_option,    \* "Contract" after an ISO session that is paused
    session,                \* where v2g_handle_connection is
    state,                  \* the request that is expected
    last_v2g_msg,
    is_charging,
    auth_finished,          \* evse_processing[PHASE_AUTH] = Finished
    isolation_finished,     \* evse_processing[PHASE_ISOLATION] = Finished
    isolation_valid,        \* evse_isolation_status is Valid or Warning
    stop_hlc,
    intl_emergency_shutdown,
    is_connection_terminated,
    \* History
    aborts,                 \* what has asked for the end of this session and still does
    granted,                \* what the vehicle has been granted in this session
    reported                \* what the EVSE manager has reported since the last session ended

config       == <<terminate_connection_on_failed_response, iso_selected_payment_option>>
abortVars    == <<stop_hlc, intl_emergency_shutdown, is_connection_terminated, aborts>>
replyVars    == <<session, state, last_v2g_msg>>
evseVars     == <<auth_finished, isolation_finished, isolation_valid, reported>>

vars == <<config, abortVars, replyVars, is_charging, evseVars, granted>>

Messages == {"Unknown", "SessionSetup", "ServiceDiscovery", "PaymentServiceSelection",
             "Authorization", "ChargeParameterDiscovery", "CableCheck", "PreCharge",
             "PowerDelivery", "CurrentDemand", "WeldingDetection", "SessionStop"}

\* The steps of a session, in the order in which they are granted.
Phases == {"authorized", "parameters", "isolated", "precharged", "powered", "ended"}

Reports == {"accepted", "checked", "valid"}

-----------------------------------------------------------------------------
(***************************************************************************)
(* din_server.hpp: what state allows which requests                        *)
(***************************************************************************)
Din == [SESSIONSETUP |-> 0, SERVICEDISCOVERY |-> 1, PAYMENTSERVICESELECTION |-> 2,
        AUTHORIZATION |-> 3, CHARGEPARAMETERDISCOVERY |-> 4, CABLECHECK |-> 5,
        PRECHARGE |-> 6, PRECHARGE_POWERDELIVERY |-> 7, CURRENTDEMAND |-> 8,
        CURRENTDEMAND_POWERDELIVERY |-> 9, WELDINGDETECTION_SESSIONSTOP |-> 10,
        SESSIONSTOP |-> 11, TERMINATED_SESSION |-> 12]

\* mutant: power may be asked for once more after welding detection
din_states_PowerAgain ==
    <<{"SessionSetup"}, {"ServiceDiscovery", "SessionStop"},
      {"PaymentServiceSelection", "SessionStop"}, {"Authorization", "SessionStop"},
      {"ChargeParameterDiscovery", "SessionStop"}, {"CableCheck", "SessionStop"},
      {"PreCharge", "SessionStop"}, {"PowerDelivery", "PreCharge", "SessionStop"},
      {"CurrentDemand"}, {"CurrentDemand", "PowerDelivery"},
      {"WeldingDetection", "PowerDelivery", "SessionStop"}, {"SessionStop"}, {}>>

din_states ==
    <<{"SessionSetup"},
      {"ServiceDiscovery", "SessionStop"},
      {"PaymentServiceSelection", "SessionStop"},
      {"Authorization", "SessionStop"},
      {"ChargeParameterDiscovery", "SessionStop"},
      {"CableCheck", "SessionStop"},
      {"PreCharge", "SessionStop"},
      {"PowerDelivery", "PreCharge", "SessionStop"},
      {"CurrentDemand"},
      {"CurrentDemand", "PowerDelivery"},
      {"WeldingDetection", "SessionStop"},
      {"SessionStop"},
      {}>>

din_validate_state(request) == request \in din_states[state + 1]

Aborting == stop_hlc \/ intl_emergency_shutdown

\* mutant: an abort is told to the vehicle, but the session goes on
din_validate_response_code_AbortGoesOn(request, code) ==
    IF is_connection_terminated
    THEN {[code |-> code, event |-> "TERMINATE_CONNECTION"]}
    ELSE {LET failed == code = "FAILED" \/ ~din_validate_state(request)
                        \/ (request # "SessionSetup" /\ ~known)
          IN  [code  |-> IF failed \/ Aborting THEN "FAILED" ELSE code,
               event |-> IF failed /\ terminate_connection_on_failed_response
                         THEN "SEND_AND_TERMINATE" ELSE "NO_EVENT"] : known \in BOOLEAN}

\* The response codes that can be sent, each with what the connection does then.
\* Whether the vehicle knows the session id is its choice.
din_validate_response_code(request, code) ==
    IF is_connection_terminated
    THEN {[code |-> code, event |-> "TERMINATE_CONNECTION"]}
    ELSE {LET failed == \/ code = "FAILED" \/ Aborting \/ ~din_validate_state(request)
                        \/ request # "SessionSetup" /\ ~known
          IN  [code  |-> IF failed THEN "FAILED" ELSE code,
               event |-> IF failed /\ terminate_connection_on_failed_response
                         THEN "SEND_AND_TERMINATE" ELSE "NO_EVENT"] : known \in BOOLEAN}

Passed(v) == v = [code |-> "OK", event |-> "NO_EVENT"]

-----------------------------------------------------------------------------
(***************************************************************************)
(* v2g_ctx.cpp, and the session around the requests                        *)
(***************************************************************************)
Init ==
    /\ terminate_connection_on_failed_response \in BOOLEAN
    /\ iso_selected_payment_option \in {"ExternalPayment", "Contract"}
    /\ session = "none" /\ state = Din.SESSIONSETUP /\ last_v2g_msg = "Unknown"
    /\ is_charging = FALSE
    /\ auth_finished = FALSE /\ isolation_finished = FALSE /\ isolation_valid = FALSE
    /\ stop_hlc = FALSE /\ intl_emergency_shutdown = FALSE /\ is_connection_terminated = TRUE
    /\ granted = {} /\ reported = {} /\ aborts = {}

v2g_ctx_init_charging_state(terminated) ==
    /\ stop_hlc' = FALSE
    /\ intl_emergency_shutdown' = FALSE
    /\ is_connection_terminated' = terminated
    /\ aborts' = {}
    /\ last_v2g_msg' = "Unknown"
    /\ state' = Din.SESSIONSETUP
    /\ is_charging' = FALSE

\* mutant: the isolation status of the last session remains
v2g_ctx_init_charging_values_KeepsIsolation ==
    /\ auth_finished' = FALSE
    /\ isolation_finished' = FALSE
    /\ UNCHANGED isolation_valid

v2g_ctx_init_charging_values ==
    /\ auth_finished' = FALSE
    /\ isolation_finished' = FALSE
    /\ isolation_valid' = FALSE

\* A vehicle has connected and chosen DIN 70121.
Connect ==
    /\ session = "none" /\ session' = "open"
    /\ v2g_ctx_init_charging_state(FALSE)
    /\ UNCHANGED <<config, evseVars, granted>>

\* No further request arrives, or the last reply ended the loop: v2g_handle_connection
\* returns, connection_teardown follows.
EndSession ==
    /\ session \in {"open", "ending"} /\ session' = "none"
    /\ v2g_ctx_init_charging_state(TRUE)
    /\ v2g_ctx_init_charging_values
    /\ granted' = {} /\ reported' = {}
    /\ UNCHANGED config

\* The handler replies with v, expects the requests of the next state, and the
\* connection goes on or ends.
Reply(request, v, next) ==
    /\ session' = IF v.event = "NO_EVENT" THEN "open" ELSE "ending"
    /\ last_v2g_msg' = request
    /\ state' = next

\* What is granted is recorded for connections that end on a failed response.
Grant(v, phases) ==
    granted' = IF terminate_connection_on_failed_response /\ Passed(v)
               THEN granted \union phases ELSE granted

-----------------------------------------------------------------------------
(***************************************************************************)
(* The requests                                                            *)
(***************************************************************************)
\* PaymentDetails, ServiceDetail, ChargingStatus and others that DIN 70121 does not have,
\* or nothing known: no reply, and nothing changes, not even when the session is aborted.
IgnoreRequest ==
    /\ session = "open"
    /\ UNCHANGED vars

handle_din_session_setup ==
    /\ session = "open"
    /\ \E v \in din_validate_response_code("SessionSetup", "OK") :
           Reply("SessionSetup", v, Din.SERVICEDISCOVERY)
    /\ UNCHANGED <<config, abortVars, is_charging, evseVars, granted>>

handle_din_service_discovery ==
    /\ session = "open"
    /\ \E v \in din_validate_response_code("ServiceDiscovery",
                    IF AuthEimSupported THEN "OK" ELSE "FAILED") :
           Reply("ServiceDiscovery", v, Din.PAYMENTSERVICESELECTION)
    /\ UNCHANGED <<config, abortVars, is_charging, evseVars, granted>>

\* The payment option or the service may be wrong.
handle_din_service_payment_selection ==
    /\ session = "open"
    /\ \E code \in {"OK", "FAILED"} :
       \E v \in din_validate_response_code("PaymentServiceSelection", code) :
           Reply("PaymentServiceSelection", v, Din.AUTHORIZATION)
    /\ UNCHANGED <<config, abortVars, is_charging, evseVars, granted>>

\* mutant: the next state does not depend on EVSEProcessing
handle_din_contract_authentication_AnyProcessing ==
    /\ session = "open"
    /\ \E v \in din_validate_response_code("Authorization", "OK") :
          /\ Reply("Authorization", v, Din.CHARGEPARAMETERDISCOVERY)
          /\ Grant(v, IF auth_finished THEN {"authorized"} ELSE {})
    /\ UNCHANGED <<config, abortVars, is_charging, evseVars>>

handle_din_contract_authentication ==
    /\ session = "open"
    /\ \E v \in din_validate_response_code("Authorization", "OK") :
          /\ Reply("Authorization", v,
                   IF auth_finished THEN Din.CHARGEPARAMETERDISCOVERY ELSE Din.AUTHORIZATION)
          /\ Grant(v, IF auth_finished THEN {"authorized"} ELSE {})
    /\ UNCHANGED <<config, abortVars, is_charging, evseVars>>

\* The energy transfer mode may be wrong.  The phase is over at once.
handle_din_charge_parameter ==
    /\ session = "open"
    /\ \E code \in {"OK", "FAILED"} :
       \E v \in din_validate_response_code("ChargeParameterDiscovery", code) :
          /\ Reply("ChargeParameterDiscovery", v, Din.CABLECHECK)
          /\ Grant(v, {"parameters"})
    /\ UNCHANGED <<config, abortVars, is_charging, evseVars>>

\* Finished, with an isolation that is good, and an EVSE that is ready
CableCheckGood == isolation_finished /\ isolation_valid /\ ~intl_emergency_shutdown

handle_din_cable_check ==
    /\ session = "open"
    /\ \E v \in din_validate_response_code("CableCheck", "OK") :
          /\ Reply("CableCheck", v, IF CableCheckGood THEN Din.PRECHARGE ELSE Din.CABLECHECK)
          /\ Grant(v, IF CableCheckGood THEN {"isolated"} ELSE {})
    /\ UNCHANGED <<config, abortVars, is_charging, evseVars>>

\* mutant: the next state is counted from the present one
handle_din_pre_charge_Counted ==
    /\ session = "open"
    /\ \E v \in din_validate_response_code("PreCharge", "OK") :
          /\ Reply("PreCharge", v, state + 1)
          /\ Grant(v, {"precharged"})
    /\ UNCHANGED <<config, abortVars, is_charging, evseVars>>

handle_din_pre_charge ==
    /\ session = "open"
    /\ \E v \in din_validate_response_code("PreCharge", "OK") :
          /\ Reply("PreCharge", v, Din.PRECHARGE_POWERDELIVERY)
          /\ Grant(v, {"precharged"})
    /\ UNCHANGED <<config, abortVars, is_charging, evseVars>>

StartCharging(v) ==
    /\ Reply("PowerDelivery", v, Din.CURRENTDEMAND)
    /\ Grant(v, {"powered"})

\* A vehicle that is ready once more after current demand is refused, in any case.
EndCharging(ready, v) ==
    /\ Reply("PowerDelivery",
             IF ready THEN [code |-> "FAILED", event |-> "SEND_AND_TERMINATE"] ELSE v,
             Din.WELDINGDETECTION_SESSIONSTOP)
    /\ granted' = granted \union {"ended"}

\* The tariff may be wrong, and after an emergency shutdown the EVSE is not ready.  The
\* events are published before the request is validated.
handle_din_power_delivery(ready) ==
    /\ session = "open"
    /\ is_charging' = (is_charging /\ ready)
    /\ \E code \in IF ready /\ intl_emergency_shutdown THEN {"FAILED"} ELSE {"OK", "FAILED"} :
       \E v \in din_validate_response_code("PowerDelivery", code) :
          IF ready /\ last_v2g_msg # "CurrentDemand" THEN StartCharging(v)
                                                     ELSE EndCharging(ready, v)
    /\ UNCHANGED <<config, abortVars, evseVars>>

\* The first one after PowerDelivery is announced to the EVSE manager, before it is
\* validated.
handle_din_current_demand ==
    /\ session = "open"
    /\ is_charging' = (is_charging \/ last_v2g_msg = "PowerDelivery")
    /\ \E v \in din_validate_response_code("CurrentDemand", "OK") :
           Reply("CurrentDemand", v, Din.CURRENTDEMAND_POWERDELIVERY)
    /\ UNCHANGED <<config, abortVars, evseVars, granted>>

handle_din_welding_detection ==
    /\ session = "open"
    /\ \E v \in din_validate_response_code("WeldingDetection", "OK") :
           Reply("WeldingDetection", v, Din.WELDINGDETECTION_SESSIONSTOP)
    /\ UNCHANGED <<config, abortVars, is_charging, evseVars, granted>>

\* The connection ends in any case.
handle_din_session_stop ==
    /\ session = "open"
    /\ \E v \in din_validate_response_code("SessionStop", "OK") :
           Reply("SessionStop", [v EXCEPT !.event = "SEND_AND_TERMINATE"],
                 Din.TERMINATED_SESSION)
    /\ UNCHANGED <<config, abortVars, is_charging, evseVars, granted>>

-----------------------------------------------------------------------------
(***************************************************************************)
(* Commands of the EVSE manager, and the other writers of the flags        *)
(***************************************************************************)
\* A rejection changes nothing with external payment, the only one DIN 70121 has.  The
\* selected option is that of the ISO server, though: a paused session leaves "Contract",
\* and then a rejection is Finished, and DIN 70121 does not ask for authorization_rejected.
handle_authorization_response(accepted) ==
    /\ accepted \/ iso_selected_payment_option = "Contract"
    /\ auth_finished' = TRUE
    /\ reported' = IF accepted THEN reported \union {"accepted"} ELSE reported
    /\ UNCHANGED <<config, abortVars, replyVars, is_charging, isolation_finished,
                   isolation_valid, granted>>

Report(good, what) ==
    reported' = IF good THEN reported \union {what} ELSE reported \ {what}

handle_cable_check_finished(status) ==
    /\ isolation_finished' = status
    /\ Report(status, "checked")
    /\ UNCHANGED <<config, abortVars, replyVars, is_charging, auth_finished,
                   isolation_valid, granted>>

handle_update_isolation_status(good) ==
    /\ isolation_valid' = good
    /\ Report(good, "valid")
    /\ UNCHANGED <<config, abortVars, replyVars, is_charging, auth_finished,
                   isolation_finished, granted>>

\* The three flags that abort a session, each set by calls of its own.  Outside of a session
\* they do not matter: each one starts with a reset of them.
\* handle_stop_charging and Test::stop_charging: a stop comes by a thread of its own after
\* 10 s, and is withdrawn at once, in the middle of a session too.
StopHlc(stop) ==
    /\ session = "open"
    /\ stop_hlc' = stop
    /\ aborts' = IF stop THEN aborts \union {"stop"} ELSE aborts \ {"stop"}
    /\ UNCHANGED <<config, intl_emergency_shutdown, is_connection_terminated, replyVars,
                   is_charging, evseVars, granted>>

\* handle_send_error(Error_EmergencyShutdown)
EmergencyShutdown ==
    /\ session = "open"
    /\ intl_emergency_shutdown' = TRUE
    /\ aborts' = aborts \union {"emergency"}
    /\ UNCHANGED <<config, stop_hlc, is_connection_terminated, replyVars, is_charging, evseVars,
                   granted>>

handle_dlink_ready ==
    /\ session = "open"
    /\ is_connection_terminated' = TRUE
    /\ aborts' = aborts \union {"dlink"}
    /\ UNCHANGED <<config, stop_hlc, intl_emergency_shutdown, replyVars, is_charging, evseVars,
                   granted>>

-----------------------------------------------------------------------------
Request ==
    \/ handle_din_session_setup \/ handle_din_service_discovery
    \/ handle_din_service_payment_selection \/ handle_din_contract_authentication
    \/ handle_din_charge_parameter \/ handle_din_cable_check \/ handle_din_pre_charge
    \/ \E ready \in BOOLEAN : handle_din_power_delivery(ready)
    \/ handle_din_current_demand \/ handle_din_welding_detection
    \/ handle_din_session_stop \/ IgnoreRequest

Command ==
    \/ \E accepted \in BOOLEAN : handle_authorization_response(accepted)
    \/ \E status \in BOOLEAN : handle_cable_check_finished(status)
    \/ \E good \in BOOLEAN : handle_update_isolation_status(good)
    \/ \E stop \in BOOLEAN : StopHlc(stop)
    \/ EmergencyShutdown \/ handle_dlink_ready

Next == Connect \/ EndSession \/ Request \/ Command

Spec == Init /\ [][Next]_vars

-----------------------------------------------------------------------------
(***************************************************************************)
(* Properties                                                              *)
(***************************************************************************)
TypeOK ==
    /\ terminate_connection_on_failed_response \in BOOLEAN
    /\ iso_selected_payment_option \in {"ExternalPayment", "Contract"}
    /\ session \in {"none", "open", "ending"}
    /\ state \in 0..12
    /\ last_v2g_msg \in Messages
    /\ is_charging \in BOOLEAN
    /\ auth_finished \in BOOLEAN /\ isolation_finished \in BOOLEAN
    /\ isolation_valid \in BOOLEAN
    /\ stop_hlc \in BOOLEAN /\ intl_emergency_shutdown \in BOOLEAN
    /\ is_connection_terminated \in BOOLEAN
    /\ granted \subseteq Phases /\ reported \subseteq Reports
    /\ aborts \subseteq {"stop", "emergency", "dlink"}

\* The connection is to end on a failed response, and requests are being served.
Strict == terminate_connection_on_failed_response /\ session = "open"

\* What a vehicle must have been granted in the states of the table
Prerequisites ==
    [s \in 0..12 |->
        (IF s \in Din.CHARGEPARAMETERDISCOVERY..Din.WELDINGDETECTION_SESSIONSTOP
         THEN {"authorized"} ELSE {})
        \union (IF s \in Din.CABLECHECK..Din.WELDINGDETECTION_SESSIONSTOP
                THEN {"parameters"} ELSE {})
        \union (IF s \in Din.PRECHARGE..Din.WELDINGDETECTION_SESSIONSTOP
                THEN {"isolated"} ELSE {})
        \union (IF s \in Din.PRECHARGE_POWERDELIVERY..Din.WELDINGDETECTION_SESSIONSTOP
                THEN {"precharged"} ELSE {})
        \union (IF s \in Din.CURRENTDEMAND..Din.CURRENTDEMAND_POWERDELIVERY
                THEN {"powered"} ELSE {})]

\* When failed responses end the connection, a vehicle reaches a state of the message
\* sequence only with every earlier phase granted in this session, whatever it sends or
\* leaves out and whatever the EVSE answers late.  (The handlers set ctx->state even when
\* they refuse.)
PhasesInOrder == Strict => Prerequisites[state] \subseteq granted

\* When failed responses end the connection, a charge that has ended is not taken up again
\* in the session: DIN 70121 has no renegotiation, the next charge needs a new session with
\* a new cable check.
ChargeEndsForGood ==
    Strict /\ "ended" \in granted => state >= Din.WELDINGDETECTION_SESSIONSTOP

\* Together: nothing that is allowed in a state of the message sequence comes too early, or
\* once more.
MessagesInOrder == PhasesInOrder /\ ChargeEndsForGood

\* An authorization that passes rests on one that was accepted since the last session
\* ended, unless a contract session is paused; a cable check that passes on a good result
\* and a good isolation status, both reported since then and neither withdrawn.
GrantsRestOnReports ==
    [][/\ /\ "authorized" \in granted' \ granted
          /\ iso_selected_payment_option = "ExternalPayment"
          => "accepted" \in reported
       /\ /\ last_v2g_msg' = "CableCheck" /\ session' # "none"
          /\ state # Din.PRECHARGE /\ state' = Din.PRECHARGE
          => {"checked", "valid"} \subseteq reported]_vars

\* Once something has asked for the end of the session, and failed responses end the
\* connection, no request is answered but by a response that ends it.  A stop may be
\* withdrawn, and then the session goes on as before; an emergency shutdown and the end of
\* the data link may not, and a stop that is withdrawn does not take them back.
AbortEndsSession ==
    [][/\ Strict /\ aborts # {} /\ session' = "open"
       => UNCHANGED <<state, last_v2g_msg, granted>>]_vars

-----------------------------------------------------------------------------
(***************************************************************************)
(* What the test cases rely on                                             *)
(***************************************************************************)
\* V2gMsgTypeId
V2gMsg == [Unknown |-> 18, SessionSetup |-> 1, ServiceDiscovery |-> 2,
           PaymentServiceSelection |-> 4, Authorization |-> 6, ChargeParameterDiscovery |-> 7,
           CableCheck |-> 12, PreCharge |-> 13, PowerDelivery |-> 14, CurrentDemand |-> 15,
           WeldingDetection |-> 16, SessionStop |-> 17]

\* The request that names a state of the table in TestSession
Expected == <<"SessionSetup", "ServiceDiscovery", "PaymentServiceSelection", "Authorization",
              "ChargeParameterDiscovery", "CableCheck", "PreCharge", "PowerDelivery",
              "CurrentDemand", "CurrentDemand", "WeldingDetection", "SessionStop", "Unknown">>

SessionOf == [none |-> "closed", open |-> "open", ending |-> "closing"]

\* The base server of the test cases, as TestSession has it: here, without a test.
NotTested == [last |-> 0, talked |-> FALSE, stopped |-> 0]

Tested == INSTANCE TestSession WITH
    SetupTimeout <- 1, DetailTimeout <- 1, DemandTimeout <- 1, OngoingTimeout <- 1,
    StateBTimeout <- 1, TcpTimeout <- 2, MaxTime <- 4, LaterRequests <- {},
    MaxOnItsWay <- 0, MaxB <- 0, NoStateB <- {}, OneStateB <- {},
    test <- "none", protocol <- "DIN",
    session <- SessionOf[session], state <- V2gMsg[Expected[state + 1]],
    last_v2g_msg <- V2gMsg[last_v2g_msg],
    force_next_connection_req_res <- FALSE, pilot <- "C", on_its_way <- 0,
    cp_state <- "C", bsp_event <- 0,
    outcome <- "PreconditionsNotMet", base <- NotTested, clock <- 0, seen <- NotTested

SessionStarts ==
    /\ session = "none" /\ session' = "open"
    /\ (state = Din.SESSIONSETUP /\ last_v2g_msg = "Unknown" /\ ~is_connection_terminated)'

SessionEnds == session # "none" /\ session' = "none"

\* A test that lets every request through to the base server
ServedByBase ==
    /\ session = "open"
    /\ \E m \in Tested!Requests :
          IF m = V2gMsg.SessionStop THEN Tested!HandleSessionStop(FALSE) ELSE Tested!BaseHandles(m)
    /\ UNCHANGED Tested!config

\* The base server to which the models of the test cases leave what they do not override
\* allows all that this server does: which requests are in order, what each may expect
\* next, and what ends the connection.
ImplementsBaseServer ==
    [][SessionStarts \/ SessionEnds \/ ServedByBase \/ Tested!DlinkTerminated]_(Tested!vars)
=============================================================================
