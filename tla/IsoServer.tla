------------------------------ MODULE IsoServer ------------------------------
(***************************************************************************)
(* The ISO 15118-2 server of the V2G module: IsoServerBase                 *)
(* (src/modules/EvseTestV2G/server/iso_server.cpp), which the servers of   *)
(* the test cases extend, with the handlers of the EVSE manager's commands *)
(* (charger/ISO15118_chargerImpl.cpp) that write the same v2g_context.     *)
(*                                                                         *)
(* One action is one request, from handle_request to the reply; the two    *)
(* handlers that wait are split where they wait.  The commands come at any *)
(* time, also between sessions: that is how answers come too late.         *)
(* Sessions follow one another here; V2GConnection is about overlaps.      *)
(*                                                                         *)
(* Of a response code only "OK" and "FAILED" are kept.  What depends on    *)
(* measured values, certificates, meters, the schedule or the EVSE's       *)
(* status is left to chance, as is the SAE J2847 extension.                *)
(***************************************************************************)
EXTENDS Naturals, Sequences

CONSTANTS
    AuthSupported,    \* test_data.auth_eim_supported, auth_pnc_supported
    AcTls             \* whether the vehicles of an AC charger use TLS: a bound

PaymentOptions == {"ExternalPayment", "Contract"}

ASSUME AuthAssumption == AuthSupported \subseteq PaymentOptions
ASSUME AcTlsAssumption == AcTls \subseteq BOOLEAN

VARIABLES
    terminate_connection_on_failed_response,    \* configuration
    is_dc_charger,                              \* configuration
    session,                \* where v2g_handle_connection is
    is_tls_connection,
    state,                  \* the request that is expected
    last_v2g_msg,
    iso_selected_payment_option,
    payment_option_list,
    auth_finished,          \* evse_processing[PHASE_AUTH] = Finished
    isolation_finished,     \* evse_processing[PHASE_ISOLATION] = Finished
    authorization_rejected,
    rejecting,              \* handle_authorization_response is about to set it
    contactor_is_closed,
    contactor_wait,         \* how the wait for the contactor ended, until the rest of the handler
    stop_hlc,
    intl_emergency_shutdown,
    is_connection_terminated,
    hlc_pause_active,
    \* History
    response,               \* the last response code
    granted,                \* what the vehicle has been granted in this session
    offer_replaced,         \* payment_option_list was replaced since service discovery (without
                            \* TLS, where failed responses end the connection)
    accepted,               \* an authorization was accepted since it was asked for
    isolation_checked       \* a cable check ended well in this session or before it, since the
                            \* one before ended and the last renegotiation

config       == <<terminate_connection_on_failed_response, is_dc_charger>>
abortVars    == <<stop_hlc, intl_emergency_shutdown, is_connection_terminated>>
replyVars    == <<session, state, last_v2g_msg, response>>
paymentVars  == <<iso_selected_payment_option, payment_option_list, offer_replaced>>
authVars     == <<auth_finished, authorization_rejected, rejecting, accepted>>
energyVars   == <<isolation_finished, isolation_checked, contactor_is_closed, contactor_wait>>

vars == <<config, abortVars, replyVars, paymentVars, authVars, energyVars,
          is_tls_connection, hlc_pause_active, granted>>

Messages == {"Unknown", "SessionSetup", "ServiceDiscovery", "ServiceDetail",
             "PaymentServiceSelection", "PaymentDetails", "CertificateInstallation",
             "CertificateUpdate", "Authorization", "ChargeParameterDiscovery", "CableCheck",
             "PreCharge", "PowerDelivery", "CurrentDemand", "ChargingStatus",
             "MeteringReceipt", "WeldingDetection", "SessionStop"}

\* The steps of a session, in the order in which they are granted.
Phases == {"authorized", "parameters", "isolated", "precharged", "powered"}

-----------------------------------------------------------------------------
(***************************************************************************)
(* iso_server.hpp: what state allows which requests                        *)
(***************************************************************************)
Ac == [SESSIONSETUP |-> 0, SERVICEDISCOVERY |-> 1, SVCDETAIL_PAYMENTSVCSEL |-> 2,
       PAYMENTDETAILS_CERTINST_CERTUPD |-> 3, PAYMENTDETAILS |-> 4, AUTHORIZATION |-> 5,
       CHARGEPARAMETERDISCOVERY |-> 6, POWERDELIVERY |-> 7, CHARGINGSTATUS |-> 8,
       CHARGINGSTATUS_POWERDELIVERY |-> 9, METERINGRECEIPT |-> 10, SESSIONSTOP |-> 11,
       TERMINATED_SESSION |-> 12]

Dc == [SESSIONSETUP |-> 0, SERVICEDISCOVERY |-> 1, SVCDETAIL_PAYMENTSVCSEL |-> 2,
       PAYMENTDETAILS_CERTINST_CERTUPD |-> 3, PAYMENTDETAILS |-> 4, AUTHORIZATION |-> 5,
       CHARGEPARAMETERDISCOVERY |-> 6, CABLECHECK |-> 7, PRECHARGE |-> 8,
       PRECHARGE_POWERDELIVERY |-> 9, CURRENTDEMAND_POWERDELIVERY |-> 10,
       CURRENTDEMAND |-> 11, METERINGRECEIPT |-> 12, WELDINGDETECTION_SESSIONSTOP |-> 13,
       TERMINATED_SESSION |-> 14]

iso_ac_states ==
    <<{"SessionSetup"},
      {"ServiceDiscovery", "SessionStop"},
      {"ServiceDetail", "PaymentServiceSelection", "SessionStop"},
      {"PaymentDetails", "CertificateInstallation", "CertificateUpdate", "SessionStop"},
      {"PaymentDetails", "SessionStop"},
      {"Authorization", "SessionStop"},
      {"ChargeParameterDiscovery", "SessionStop"},
      {"PowerDelivery", "SessionStop"},
      {"ChargingStatus"},
      {"ChargingStatus", "PowerDelivery"},
      {"MeteringReceipt"},
      {"SessionStop"},
      {}>>

iso_dc_states ==
    <<{"SessionSetup"},
      {"ServiceDiscovery", "SessionStop"},
      {"ServiceDetail", "PaymentServiceSelection", "SessionStop"},
      {"PaymentDetails", "Authorization", "CertificateInstallation", "CertificateUpdate",
       "SessionStop"},
      {"PaymentDetails", "SessionStop"},
      {"Authorization", "SessionStop"},
      {"ChargeParameterDiscovery", "SessionStop"},
      {"CableCheck", "SessionStop"},
      {"PreCharge", "SessionStop"},
      {"PreCharge", "PowerDelivery", "SessionStop"},
      {"CurrentDemand", "PowerDelivery"},
      {"CurrentDemand"},
      {"MeteringReceipt"},
      {"WeldingDetection", "SessionStop"},
      {}>>

StateTable == IF is_dc_charger THEN iso_dc_states ELSE iso_ac_states

\* Whether a request is allowed.  Handlers store states of the DC table on AC
\* chargers too; an index beyond the table reads whatever is there.
iso_validate_state(request) ==
    IF state < Len(StateTable) THEN {(request \in StateTable[state + 1])} ELSE BOOLEAN

Aborting == stop_hlc \/ intl_emergency_shutdown

\* mutant: a request in the wrong order is logged only
iso_validate_response_code_AnyOrder(request, code) ==
    IF is_connection_terminated
    THEN {[code |-> code, event |-> "TERMINATE_CONNECTION"]}
    ELSE {LET failed == code = "FAILED" \/ Aborting \/ (request # "SessionSetup" /\ ~known)
          IN  [code  |-> IF failed THEN "FAILED" ELSE code,
               event |-> IF failed /\ terminate_connection_on_failed_response
                         THEN "SEND_AND_TERMINATE" ELSE "NO_EVENT"] : known \in BOOLEAN}

\* The response codes that can be sent, each with what the connection does then.
\* Whether the vehicle knows the session id is its choice.
iso_validate_response_code(request, code) ==
    IF is_connection_terminated
    THEN {[code |-> code, event |-> "TERMINATE_CONNECTION"]}
    ELSE {LET failed == \/ code = "FAILED" \/ Aborting \/ ~valid
                        \/ request # "SessionSetup" /\ ~known
          IN  [code  |-> IF failed THEN "FAILED" ELSE code,
               event |-> IF failed /\ terminate_connection_on_failed_response
                         THEN "SEND_AND_TERMINATE" ELSE "NO_EVENT"]
             : valid \in iso_validate_state(request), known \in BOOLEAN}

Results == [code : {"OK", "FAILED"},
            event : {"NO_EVENT", "SEND_AND_TERMINATE", "TERMINATE_CONNECTION"}]

Passed(v) == v = [code |-> "OK", event |-> "NO_EVENT"]

-----------------------------------------------------------------------------
(***************************************************************************)
(* v2g_ctx.cpp, and the session around the requests                        *)
(***************************************************************************)
Init ==
    /\ terminate_connection_on_failed_response \in BOOLEAN /\ is_dc_charger \in BOOLEAN
    /\ session = "none" /\ is_tls_connection = FALSE
    /\ state = Dc.SESSIONSETUP /\ last_v2g_msg = "Unknown"
    /\ iso_selected_payment_option = "ExternalPayment"
    /\ payment_option_list = {"ExternalPayment"}
    /\ auth_finished = FALSE /\ isolation_finished = FALSE
    /\ authorization_rejected = FALSE /\ rejecting = FALSE
    /\ contactor_is_closed = FALSE /\ contactor_wait = "none"
    /\ stop_hlc = FALSE /\ intl_emergency_shutdown = FALSE /\ is_connection_terminated = TRUE
    /\ hlc_pause_active = FALSE
    /\ response = "OK" /\ granted = {} /\ accepted = FALSE /\ isolation_checked = FALSE
    /\ offer_replaced = FALSE

v2g_ctx_init_charging_state(terminated) ==
    /\ stop_hlc' = FALSE
    /\ intl_emergency_shutdown' = FALSE
    /\ is_connection_terminated' = terminated
    /\ last_v2g_msg' = "Unknown"
    /\ state' = Dc.SESSIONSETUP

v2g_ctx_init_charging_values ==
    /\ auth_finished' = FALSE
    /\ isolation_finished' = FALSE
    /\ authorization_rejected' = FALSE
    /\ contactor_is_closed' = FALSE
    /\ IF hlc_pause_active
       THEN /\ payment_option_list' = {iso_selected_payment_option}
            /\ UNCHANGED iso_selected_payment_option
       ELSE /\ iso_selected_payment_option' = "ExternalPayment"
            /\ UNCHANGED payment_option_list

\* A vehicle has connected and chosen ISO 15118-2.
Connect ==
    /\ session = "none" /\ session' = "open"
    /\ is_tls_connection' \in IF is_dc_charger THEN BOOLEAN ELSE AcTls
    /\ v2g_ctx_init_charging_state(FALSE)
    /\ granted' = {}
    /\ UNCHANGED <<config, response, paymentVars, authVars, energyVars, hlc_pause_active>>

\* No further request arrives, or the last reply ended the loop: v2g_handle_connection
\* returns, connection_teardown follows.
EndSession ==
    /\ session \in {"open", "ending"} /\ session' = "none"
    /\ v2g_ctx_init_charging_state(TRUE)
    /\ v2g_ctx_init_charging_values
    /\ response' = "OK" /\ granted' = {} /\ accepted' = FALSE /\ isolation_checked' = FALSE
    /\ offer_replaced' = FALSE
    /\ is_tls_connection' = FALSE
    /\ UNCHANGED <<config, rejecting, hlc_pause_active, contactor_wait>>

\* The handler replies with v, expects the requests of the next state, and the
\* connection goes on or ends.
Reply(request, v, next) ==
    /\ session' = IF v.event = "NO_EVENT" THEN "open" ELSE "ending"
    /\ response' = v.code
    /\ last_v2g_msg' = request
    /\ state' = next

\* What is granted is recorded for connections that end on a failed response.
Grant(v, phases) ==
    granted' = IF terminate_connection_on_failed_response /\ Passed(v)
               THEN granted \union phases ELSE granted

-----------------------------------------------------------------------------
(***************************************************************************)
(* Requests that identify the vehicle                                      *)
(***************************************************************************)
handle_iso_session_setup ==
    /\ session = "open"
    /\ \E v \in iso_validate_response_code("SessionSetup", "OK") :
           Reply("SessionSetup", v, Dc.SERVICEDISCOVERY)
    /\ UNCHANGED <<config, abortVars, paymentVars, authVars, energyVars,
                   is_tls_connection, hlc_pause_active, granted>>

\* mutant: PnC is filtered by the constraints of the test only
handle_iso_service_discovery_AnyTransport ==
    /\ session = "open"
    /\ payment_option_list' = payment_option_list \intersect AuthSupported
    /\ \E v \in iso_validate_response_code("ServiceDiscovery",
                    IF payment_option_list' = {} THEN "FAILED" ELSE "OK") :
           Reply("ServiceDiscovery", v, Dc.SVCDETAIL_PAYMENTSVCSEL)
    /\ offer_replaced' = FALSE
    /\ UNCHANGED <<config, abortVars, iso_selected_payment_option, authVars, energyVars,
                   is_tls_connection, hlc_pause_active, granted>>

\* Without TLS, Contract is replaced.  The code looks for it in all elements of the
\* array, those that are not in the list included.
OfferedOptions ==
    IF is_tls_connection THEN {payment_option_list}
    ELSE IF "Contract" \in payment_option_list THEN {{"ExternalPayment"}}
    ELSE {payment_option_list, {"ExternalPayment"}}

\* Then the constraints of the test apply; what remains is what the EVSE offers from now on.
handle_iso_service_discovery ==
    /\ session = "open"
    /\ \E offered \in OfferedOptions : payment_option_list' = offered \intersect AuthSupported
    /\ \E v \in iso_validate_response_code("ServiceDiscovery",
                    IF payment_option_list' = {} THEN "FAILED" ELSE "OK") :
           Reply("ServiceDiscovery", v, Dc.SVCDETAIL_PAYMENTSVCSEL)
    /\ offer_replaced' = FALSE
    /\ UNCHANGED <<config, abortVars, iso_selected_payment_option, authVars, energyVars,
                   is_tls_connection, hlc_pause_active, granted>>

\* The service may be unknown.
handle_iso_service_detail ==
    /\ session = "open"
    /\ \E code \in {"OK", "FAILED"} :
       \E v \in iso_validate_response_code("ServiceDetail", code) :
           Reply("ServiceDetail", v, Dc.SVCDETAIL_PAYMENTSVCSEL)
    /\ UNCHANGED <<config, abortVars, paymentVars, authVars, energyVars,
                   is_tls_connection, hlc_pause_active, granted>>

\* The option must be on offer; the selected services may be wrong.
SelectionCodes(option) == IF option \in payment_option_list THEN {"OK", "FAILED"} ELSE {"FAILED"}

handle_iso_payment_service_selection(option) ==
    /\ session = "open"
    /\ \E code \in SelectionCodes(option) :
       \E v \in iso_validate_response_code("PaymentServiceSelection", code) :
           Reply("PaymentServiceSelection", v,
                 IF option = "Contract" THEN Dc.PAYMENTDETAILS_CERTINST_CERTUPD
                                        ELSE Dc.AUTHORIZATION)
    /\ IF option = "Contract"
       THEN /\ iso_selected_payment_option' = option
            /\ UNCHANGED <<auth_finished, accepted>>
       ELSE /\ auth_finished' = FALSE
            /\ accepted' = FALSE
            /\ UNCHANGED iso_selected_payment_option
    /\ UNCHANGED <<config, abortVars, payment_option_list, offer_replaced,
                   authorization_rejected, rejecting, energyVars,
                   is_tls_connection, hlc_pause_active, granted>>

\* Only for a contract; its certificates may be wrong.
handle_iso_payment_details ==
    /\ session = "open"
    /\ \E code \in IF iso_selected_payment_option = "Contract" THEN {"OK", "FAILED"} ELSE {"FAILED"} :
       \E v \in iso_validate_response_code("PaymentDetails", code) :
           Reply("PaymentDetails", v, Dc.AUTHORIZATION)
    /\ UNCHANGED <<config, abortVars, paymentVars, authVars, energyVars,
                   is_tls_connection, hlc_pause_active, granted>>

\* Nothing is checked.
handle_iso_certificate_update ==
    /\ session = "open"
    /\ Reply("CertificateUpdate", [code |-> "OK", event |-> "NO_EVENT"], state)
    /\ UNCHANGED <<config, abortVars, paymentVars, authVars, energyVars,
                   is_tls_connection, hlc_pause_active, granted>>

\* Passes the request on and waits for the response, or fails to pass it on and replies.
handle_iso_certificate_installation ==
    /\ session = "open"
    /\ \/ /\ session' = "installing"
          /\ UNCHANGED <<state, last_v2g_msg, response>>
       \/ \E v \in iso_validate_response_code("CertificateInstallation", "OK") :
              Reply("CertificateInstallation", v, Dc.PAYMENTDETAILS)
    /\ UNCHANGED <<config, abortVars, paymentVars, authVars, energyVars,
                   is_tls_connection, hlc_pause_active, granted>>

\* The response has come, at the last moment or before, and is sent as it is; or it cannot
\* be decoded, says that the installation failed, or an abort is there first; or the wait
\* has timed out.
CertificateInstallationEnds ==
    /\ session = "installing"
    /\ \/ /\ Reply("CertificateInstallation", [code |-> "OK", event |-> "NO_EVENT"], Dc.PAYMENTDETAILS)
          /\ intl_emergency_shutdown' \in {intl_emergency_shutdown, TRUE}
       \/ \E code \in {"OK", "FAILED"} :
          /\ \E v \in iso_validate_response_code("CertificateInstallation", code) :
                 Reply("CertificateInstallation", v, Dc.PAYMENTDETAILS)
          /\ UNCHANGED intl_emergency_shutdown
       \/ /\ intl_emergency_shutdown' = TRUE
          /\ Reply("CertificateInstallation",
                   IF is_connection_terminated
                   THEN [code |-> "FAILED", event |-> "TERMINATE_CONNECTION"]
                   ELSE [code  |-> "FAILED",
                         event |-> IF terminate_connection_on_failed_response
                                   THEN "SEND_AND_TERMINATE" ELSE "NO_EVENT"], Dc.PAYMENTDETAILS)
    /\ UNCHANGED <<config, stop_hlc, is_connection_terminated, paymentVars, authVars, energyVars,
                   is_tls_connection, hlc_pause_active, granted>>

\* mutant: the next state is counted from the present one
AuthorizationNext_Counted(finished) == IF finished THEN state + 1 ELSE state

AuthorizationNext(finished) ==
    IF finished THEN Dc.CHARGEPARAMETERDISCOVERY ELSE Dc.AUTHORIZATION

\* The first request of a contract is signed.  A signature that is not accepted leaves
\* EVSEProcessing at 0, which is Finished.
InvalidSignature ==
    /\ last_v2g_msg # "Authorization" /\ iso_selected_payment_option = "Contract"
    /\ \E v \in iso_validate_response_code("Authorization", "FAILED") :
           Reply("Authorization", v, AuthorizationNext(TRUE))
    /\ UNCHANGED granted

\* While the answer is outstanding the request may time out.
AuthorizationCodes ==
    IF ~auth_finished THEN {"OK", "FAILED"}
    ELSE IF authorization_rejected THEN {"FAILED"} ELSE {"OK"}

AnswerAuthorization ==
    \E code \in AuthorizationCodes :
    \E v \in iso_validate_response_code("Authorization", code) :
        /\ Reply("Authorization", v, AuthorizationNext(auth_finished))
        /\ Grant(v, IF auth_finished THEN {"authorized"} ELSE {})

handle_iso_authorization ==
    /\ session = "open"
    /\ InvalidSignature \/ AnswerAuthorization
    /\ UNCHANGED <<config, abortVars, paymentVars, authVars, energyVars,
                   is_tls_connection, hlc_pause_active>>

-----------------------------------------------------------------------------
(***************************************************************************)
(* Requests that prepare charging                                          *)
(***************************************************************************)
\* The energy transfer mode may be wrong.  The parameter phase is over at once, but for
\* SAE J2847, which a DC vehicle may have selected: it takes two requests.
handle_iso_charge_parameter_discovery ==
    /\ session = "open"
    /\ \E finished \in IF is_dc_charger THEN BOOLEAN ELSE {TRUE}, code \in {"OK", "FAILED"} :
       \E v \in iso_validate_response_code("ChargeParameterDiscovery", code) :
          /\ Reply("ChargeParameterDiscovery", v,
                   IF ~finished THEN Dc.CHARGEPARAMETERDISCOVERY
                   ELSE IF is_dc_charger THEN Dc.CABLECHECK ELSE Ac.POWERDELIVERY)
          /\ Grant(v, IF finished THEN {"parameters"} ELSE {})
    /\ UNCHANGED <<config, abortVars, paymentVars, authVars, energyVars,
                   is_tls_connection, hlc_pause_active>>

handle_iso_cable_check ==
    /\ session = "open"
    /\ \E v \in iso_validate_response_code("CableCheck", "OK") :
          /\ Reply("CableCheck", v, IF isolation_finished THEN Dc.PRECHARGE ELSE Dc.CABLECHECK)
          /\ Grant(v, IF isolation_finished THEN {"isolated"} ELSE {})
    /\ UNCHANGED <<config, abortVars, paymentVars, authVars, energyVars,
                   is_tls_connection, hlc_pause_active>>

handle_iso_pre_charge ==
    /\ session = "open"
    /\ \E v \in iso_validate_response_code("PreCharge", "OK") :
          /\ Reply("PreCharge", v, Dc.PRECHARGE_POWERDELIVERY)
          /\ Grant(v, {"precharged"})
    /\ UNCHANGED <<config, abortVars, paymentVars, authVars, energyVars,
                   is_tls_connection, hlc_pause_active>>

-----------------------------------------------------------------------------
(***************************************************************************)
(* Requests while charging                                                 *)
(***************************************************************************)
ChargeProgress == {"Start", "Stop", "Renegotiate"}

AfterCharging == last_v2g_msg \in {"CurrentDemand", "ChargingStatus"}

\* Back to the parameters, and with DC to the cable check
Renegotiate(v) ==
    /\ Reply("PowerDelivery", v, Dc.CHARGEPARAMETERDISCOVERY)
    /\ isolation_finished' = (isolation_finished /\ ~is_dc_charger)
    /\ isolation_checked' = (isolation_checked /\ ~is_dc_charger)
    /\ granted' = granted \intersect {"authorized"}

StartCharging(v) ==
    /\ Reply("PowerDelivery", v, IF is_dc_charger THEN Dc.CURRENTDEMAND ELSE Ac.CHARGINGSTATUS)
    /\ Grant(v, {"powered"})
    /\ UNCHANGED <<isolation_finished, isolation_checked>>

\* Everything else ends charging.  If it is not a stop, the response becomes a failed one,
\* after iso_validate_response_code.
EndCharging(progress, v) ==
    /\ Reply("PowerDelivery",
             [v EXCEPT !.code = IF progress = "Stop" THEN v.code ELSE "FAILED"],
             IF is_dc_charger THEN Dc.WELDINGDETECTION_SESSIONSTOP ELSE Ac.SESSIONSTOP)
    /\ granted' = granted \intersect {"authorized"}
    /\ UNCHANGED <<isolation_finished, isolation_checked>>

\* The rest of the handler.  The tariff may be wrong and the EVSE not ready.
PowerDelivery(progress, codes) ==
    /\ \E code \in codes :
       \E v \in iso_validate_response_code("PowerDelivery", code) :
          \/ progress = "Renegotiate" /\ AfterCharging /\ Renegotiate(v)
          \/ progress = "Start" /\ ~AfterCharging /\ StartCharging(v)
          \/ progress = "Renegotiate" /\ ~AfterCharging /\ EndCharging(progress, v)
          \/ progress = "Start" /\ AfterCharging /\ EndCharging(progress, v)
          \/ progress = "Stop" /\ EndCharging(progress, v)
    /\ contactor_wait' = "none"
    /\ UNCHANGED <<config, abortVars, paymentVars, authVars, contactor_is_closed,
                   is_tls_connection, hlc_pause_active>>

ContactorNeeded(progress) == progress = "Start" /\ ~is_dc_charger /\ ~contactor_is_closed

handle_iso_power_delivery(progress) ==
    /\ session = "open"
    /\ ~ContactorNeeded(progress)
    /\ PowerDelivery(progress, {"OK", "FAILED"})

\* An AC charger asks for the contactor and waits until it is closed.
WaitForContactor ==
    /\ session = "open" /\ session' = "closing"
    /\ ContactorNeeded("Start")
    /\ UNCHANGED <<config, abortVars, state, last_v2g_msg, response, paymentVars, authVars,
                   energyVars, is_tls_connection, hlc_pause_active, granted>>

\* The loop looks at the contactor first; the timeout may be there before anything else.
WaitEnds ==
    {"timeout"} \union (IF contactor_is_closed THEN {"closed"}
                       ELSE IF Aborting \/ is_connection_terminated THEN {"aborted"} ELSE {})

ContactorWaitEnds ==
    /\ session = "closing" /\ session' = "delivering"
    /\ contactor_wait' \in WaitEnds
    /\ UNCHANGED <<config, abortVars, state, last_v2g_msg, response, paymentVars, authVars,
                   isolation_finished, isolation_checked, contactor_is_closed,
                   is_tls_connection, hlc_pause_active, granted>>

\* mutant: a timeout is logged only
ContactorCodes_Logged == {"OK", "FAILED"}

\* A timeout has failed.  Whether an abort ended the loop is not kept: the validation of the
\* response reads the flags again.
ContactorCodes == IF contactor_wait = "timeout" THEN {"FAILED"} ELSE {"OK", "FAILED"}

PowerDeliveryGoesOn == session = "delivering" /\ PowerDelivery("Start", ContactorCodes)

\* A contract may require a receipt.
ReceiptRequired ==
    IF iso_selected_payment_option = "Contract" THEN BOOLEAN ELSE {FALSE}

handle_iso_current_demand ==
    /\ session = "open"
    /\ \E receipt \in ReceiptRequired, v \in iso_validate_response_code("CurrentDemand", "OK") :
           Reply("CurrentDemand", v,
                 IF receipt THEN Dc.METERINGRECEIPT ELSE Dc.CURRENTDEMAND_POWERDELIVERY)
    /\ UNCHANGED <<config, abortVars, paymentVars, authVars, energyVars,
                   is_tls_connection, hlc_pause_active, granted>>

handle_iso_charging_status ==
    /\ session = "open"
    /\ \E receipt \in ReceiptRequired, v \in iso_validate_response_code("ChargingStatus", "OK") :
           Reply("ChargingStatus", v,
                 IF receipt THEN Ac.METERINGRECEIPT ELSE Ac.CHARGINGSTATUS_POWERDELIVERY)
    /\ UNCHANGED <<config, abortVars, paymentVars, authVars, energyVars,
                   is_tls_connection, hlc_pause_active, granted>>

handle_iso_metering_receipt ==
    /\ session = "open"
    /\ \E v \in iso_validate_response_code("MeteringReceipt", "OK") :
           Reply("MeteringReceipt", v,
                 IF is_dc_charger THEN Dc.CURRENTDEMAND_POWERDELIVERY
                                  ELSE Ac.CHARGINGSTATUS_POWERDELIVERY)
    /\ UNCHANGED <<config, abortVars, paymentVars, authVars, energyVars,
                   is_tls_connection, hlc_pause_active, granted>>

handle_iso_welding_detection ==
    /\ session = "open"
    /\ \E v \in iso_validate_response_code("WeldingDetection", "OK") :
           Reply("WeldingDetection", v, Dc.WELDINGDETECTION_SESSIONSTOP)
    /\ UNCHANGED <<config, abortVars, paymentVars, authVars, energyVars,
                   is_tls_connection, hlc_pause_active, granted>>

SessionStopEvent == "SEND_AND_TERMINATE"

\* The connection ends in any case.  A pause is possible after charging only; the
\* response code is not asked.
handle_iso_session_stop(pause) ==
    LET paused == pause /\ last_v2g_msg \in {"PowerDelivery", "WeldingDetection"}
    IN  /\ session = "open"
        /\ \E v \in iso_validate_response_code("SessionStop", "OK") :
               Reply("SessionStop",
                     [code  |-> IF pause /\ ~paused THEN "FAILED" ELSE v.code,
                      event |-> SessionStopEvent],
                     IF paused THEN Dc.SESSIONSETUP ELSE Dc.TERMINATED_SESSION)
        /\ hlc_pause_active' = paused
        /\ UNCHANGED <<config, abortVars, paymentVars, authVars, energyVars,
                       is_tls_connection, granted>>

-----------------------------------------------------------------------------
(***************************************************************************)
(* Commands of the EVSE manager, and the other writers of the flags        *)
(***************************************************************************)
\* A connection is being served.
InSession == session \in {"open", "installing", "closing", "delivering"}

\* Nothing keeps the EVSE manager from calling it during a session.  While the session is
\* paused, the options stay.
handle_session_setup(options) ==
    /\ ~hlc_pause_active
    /\ payment_option_list' = options
    /\ offer_replaced' = (InSession /\ ~is_tls_connection
                          /\ terminate_connection_on_failed_response)
    /\ UNCHANGED <<config, abortVars, replyVars, iso_selected_payment_option, authVars,
                   energyVars, is_tls_connection, hlc_pause_active, granted>>

\* A rejected contract is Finished first, and rejected by a second assignment.
handle_authorization_response(status) ==
    /\ ~rejecting
    /\ status = "Accepted" \/ iso_selected_payment_option = "Contract"
    /\ auth_finished' = TRUE
    /\ rejecting' = (status # "Accepted")
    /\ accepted' = (accepted \/ status = "Accepted")
    /\ UNCHANGED <<config, abortVars, replyVars, paymentVars, authorization_rejected,
                   energyVars, is_tls_connection, hlc_pause_active, granted>>

RejectAuthorization ==
    /\ rejecting /\ rejecting' = FALSE
    /\ authorization_rejected' = TRUE
    /\ UNCHANGED <<config, abortVars, replyVars, paymentVars, auth_finished, accepted,
                   energyVars, is_tls_connection, hlc_pause_active, granted>>

\* The EVSE manager of an AC charger has no cable check, that of a DC charger does not
\* report an AC contactor.
handle_cable_check_finished(status) ==
    /\ is_dc_charger
    /\ isolation_finished' = status
    /\ isolation_checked' = status
    /\ UNCHANGED <<config, abortVars, replyVars, paymentVars, authVars, contactor_is_closed,
                   contactor_wait, is_tls_connection, hlc_pause_active, granted>>

handle_ac_contactor_closed(status) ==
    /\ ~is_dc_charger
    /\ contactor_is_closed' = status
    /\ UNCHANGED <<config, abortVars, replyVars, paymentVars, authVars, isolation_finished,
                   isolation_checked, contactor_wait, is_tls_connection, hlc_pause_active,
                   granted>>

\* The three flags that abort a session.  Outside of one they do not matter: each session
\* starts with a reset of them.  One at a time is a bound: no code distinguishes more.
NoAbort == ~Aborting /\ ~is_connection_terminated

\* handle_stop_charging, Test::stop_charging and test cases: at once, or by a thread of
\* its own after 10 s.  Both functions also withdraw a stop.
StopHlc(stop) ==
    /\ InSession
    /\ stop => NoAbort
    /\ stop_hlc' = stop
    /\ contactor_wait' = IF stop_hlc /\ ~stop /\ contactor_wait = "aborted" THEN "withdrawn"
                         ELSE contactor_wait
    /\ UNCHANGED <<config, intl_emergency_shutdown, is_connection_terminated, replyVars,
                   paymentVars, authVars, isolation_finished, isolation_checked,
                   contactor_is_closed, is_tls_connection, hlc_pause_active, granted>>

\* handle_send_error(Error_EmergencyShutdown)
EmergencyShutdown ==
    /\ InSession /\ NoAbort
    /\ intl_emergency_shutdown' = TRUE
    /\ UNCHANGED <<config, stop_hlc, is_connection_terminated, replyVars, paymentVars, authVars,
                   energyVars, is_tls_connection, hlc_pause_active, granted>>

handle_dlink_ready ==
    /\ InSession /\ NoAbort
    /\ is_connection_terminated' = TRUE
    /\ UNCHANGED <<config, stop_hlc, intl_emergency_shutdown, replyVars, paymentVars, authVars,
                   energyVars, is_tls_connection, hlc_pause_active, granted>>

-----------------------------------------------------------------------------
Request ==
    \/ handle_iso_session_setup \/ handle_iso_service_discovery \/ handle_iso_service_detail
    \/ \E option \in PaymentOptions : handle_iso_payment_service_selection(option)
    \/ handle_iso_payment_details
    \/ handle_iso_certificate_update
    \/ handle_iso_certificate_installation \/ CertificateInstallationEnds
    \/ handle_iso_authorization
    \/ handle_iso_charge_parameter_discovery \/ handle_iso_cable_check \/ handle_iso_pre_charge
    \/ \E progress \in ChargeProgress : handle_iso_power_delivery(progress)
    \/ WaitForContactor \/ ContactorWaitEnds \/ PowerDeliveryGoesOn
    \/ handle_iso_current_demand \/ handle_iso_charging_status \/ handle_iso_metering_receipt
    \/ handle_iso_welding_detection
    \/ \E pause \in BOOLEAN : handle_iso_session_stop(pause)

Command ==
    \/ \E options \in SUBSET PaymentOptions \ {{}} : handle_session_setup(options)
    \/ \E status \in {"Accepted", "Rejected"} : handle_authorization_response(status)
    \/ RejectAuthorization
    \/ \E status \in BOOLEAN : handle_cable_check_finished(status)
    \/ \E status \in BOOLEAN : handle_ac_contactor_closed(status)
    \/ \E stop \in BOOLEAN : StopHlc(stop)
    \/ EmergencyShutdown \/ handle_dlink_ready

Next == Connect \/ EndSession \/ Request \/ Command

Spec == Init /\ [][Next]_vars

-----------------------------------------------------------------------------
(***************************************************************************)
(* Properties                                                              *)
(***************************************************************************)
\* Types.  "closing" and "installing" are handlers that wait, "delivering" is the one that
\* has waited for the contactor.
TypeOK ==
    /\ terminate_connection_on_failed_response \in BOOLEAN /\ is_dc_charger \in BOOLEAN
    /\ session \in {"none", "open", "installing", "closing", "delivering", "ending"}
    /\ is_tls_connection \in BOOLEAN
    /\ state \in 0..14
    /\ last_v2g_msg \in Messages
    /\ iso_selected_payment_option \in PaymentOptions
    /\ payment_option_list \subseteq PaymentOptions
    /\ auth_finished \in BOOLEAN /\ isolation_finished \in BOOLEAN
    /\ authorization_rejected \in BOOLEAN /\ rejecting \in BOOLEAN
    /\ contactor_is_closed \in BOOLEAN
    /\ contactor_wait \in {"none", "closed", "timeout", "aborted", "withdrawn"}
    /\ (contactor_wait = "none") = (session # "delivering")
    /\ stop_hlc \in BOOLEAN /\ intl_emergency_shutdown \in BOOLEAN
    /\ is_connection_terminated \in BOOLEAN /\ hlc_pause_active \in BOOLEAN
    /\ response \in {"OK", "FAILED"} /\ granted \subseteq Phases
    /\ offer_replaced \in BOOLEAN /\ accepted \in BOOLEAN /\ isolation_checked \in BOOLEAN

\* The connection is to end on a failed response, and a request is being served.
Strict == terminate_connection_on_failed_response /\ InSession

\* What a vehicle must have been granted in the states of the two tables
Prerequisites ==
    IF is_dc_charger
    THEN [s \in 0..14 |->
            (IF s \in Dc.CHARGEPARAMETERDISCOVERY..Dc.WELDINGDETECTION_SESSIONSTOP
             THEN {"authorized"} ELSE {})
            \union (IF s \in Dc.CABLECHECK..Dc.METERINGRECEIPT THEN {"parameters"} ELSE {})
            \union (IF s \in Dc.PRECHARGE..Dc.METERINGRECEIPT THEN {"isolated"} ELSE {})
            \union (IF s \in Dc.PRECHARGE_POWERDELIVERY..Dc.METERINGRECEIPT
                    THEN {"precharged"} ELSE {})
            \union (IF s \in Dc.CURRENTDEMAND_POWERDELIVERY..Dc.METERINGRECEIPT
                    THEN {"powered"} ELSE {})]
    ELSE [s \in 0..14 |->
            (IF s \in Ac.CHARGEPARAMETERDISCOVERY..Ac.SESSIONSTOP THEN {"authorized"} ELSE {})
            \union (IF s \in Ac.POWERDELIVERY..Ac.METERINGRECEIPT THEN {"parameters"} ELSE {})
            \union (IF s \in Ac.CHARGINGSTATUS..Ac.METERINGRECEIPT THEN {"powered"} ELSE {})]

\* When failed responses end the connection, a vehicle reaches a state of the message
\* sequence only with every earlier phase granted in this session, and after a
\* renegotiation granted again: whatever it sends, renegotiates or leaves out, and
\* whatever the EVSE answers late.  (The handlers set ctx->state even when they refuse.)
PhasesInOrder == Strict => Prerequisites[state] \subseteq granted

\* The handlers store states of the DC table on AC chargers as well.  When failed
\* responses end the connection, no request is looked up outside of the table.
StateInTable == Strict => state < Len(StateTable)

\* Together: nothing that is allowed in a state of the message sequence comes too early.
MessagesInOrder == PhasesInOrder /\ StateInTable

\* A DC vehicle passes the cable check only on a good result that has come since the end of
\* the session before and since the last renegotiation: also if it goes on after refusals.
CableCheckIsCurrent ==
    [][/\ is_dc_charger /\ last_v2g_msg' = "CableCheck"
       /\ state # Dc.PRECHARGE /\ state' = Dc.PRECHARGE
       => isolation_checked]_vars

\* An authorization that was accepted for an earlier session does not authorize a session
\* with external payment: the answer has come since the vehicle selected the payment.
AuthorizationIsCurrent ==
    [][/\ "authorized" \in granted' /\ "authorized" \notin granted
       /\ iso_selected_payment_option = "ExternalPayment"
       => accepted]_vars

\* A charge with AC is granted only if the handler has found the contactor closed: at once,
\* or when its wait ended, which has several ends and only this good one.  But for a stop
\* that ended the wait and has been withdrawn before the flags are read again: nothing
\* tells the rest of the handler why it does not wait any more.
ContactorBeforeCharge ==
    [][/\ ~is_dc_charger /\ last_v2g_msg' = "PowerDelivery" /\ last_v2g_msg # "PowerDelivery"
       /\ state' = Ac.CHARGINGSTATUS /\ session' = "open" /\ response' = "OK"
       => IF session = "open" THEN contactor_is_closed
          ELSE contactor_wait \in {"closed", "withdrawn"}]_vars

\* Together: what a vehicle is granted rests on what holds now, not on what held before.
GrantsAreCurrent == AuthorizationIsCurrent /\ CableCheckIsCurrent /\ ContactorBeforeCharge

\* When failed responses end the connection, a contract is selected over TLS only, in
\* resumed sessions and whatever the EVSE offered before, unless the EVSE manager has
\* replaced the offer since service discovery: nothing filters that one.
ContractSelectedOverTls ==
    /\ terminate_connection_on_failed_response
    /\ last_v2g_msg = "PaymentServiceSelection" /\ session = "open" /\ response = "OK"
    /\ state = Dc.PAYMENTDETAILS_CERTINST_CERTUPD
    => is_tls_connection \/ offer_replaced

-----------------------------------------------------------------------------
(***************************************************************************)
(* What the test cases rely on                                             *)
(***************************************************************************)
\* V2gMsgTypeId
V2gMsg == [Unknown |-> 18, SessionSetup |-> 1, ServiceDiscovery |-> 2, ServiceDetail |-> 3,
           PaymentServiceSelection |-> 4, PaymentDetails |-> 5, CertificateInstallation |-> 10,
           CertificateUpdate |-> 9, Authorization |-> 6, ChargeParameterDiscovery |-> 7,
           CableCheck |-> 12, PreCharge |-> 13, PowerDelivery |-> 14, CurrentDemand |-> 15,
           ChargingStatus |-> 11, MeteringReceipt |-> 8, WeldingDetection |-> 16,
           SessionStop |-> 17]

\* The request that names a state of the DC table in TestSession
Expected == <<"SessionSetup", "ServiceDiscovery", "PaymentServiceSelection", "PaymentDetails",
              "PaymentDetails", "Authorization", "ChargeParameterDiscovery", "CableCheck",
              "PreCharge", "PowerDelivery", "CurrentDemand", "CurrentDemand",
              "MeteringReceipt", "WeldingDetection", "Unknown">>

\* A handler that waits is not seen; neither is the state after a pause, in which nothing
\* is expected any more.
SessionOf == [none |-> "closed", open |-> "open", installing |-> "open", closing |-> "open",
              delivering |-> "open", ending |-> "closing"]

StateOf == IF session = "ending" /\ last_v2g_msg = "SessionStop" THEN V2gMsg.Unknown
           ELSE V2gMsg[Expected[state + 1]]

\* The base server of the test cases, as TestSession has it: here, without a test.
NotTested == [last |-> 0, talked |-> FALSE, stopped |-> 0]

Tested == INSTANCE TestSession WITH
    SetupTimeout <- 1, DetailTimeout <- 1, DemandTimeout <- 1, OngoingTimeout <- 1,
    StateBTimeout <- 1, TcpTimeout <- 2, MaxTime <- 4, LaterRequests <- {},
    MaxOnItsWay <- 0, MaxB <- 0, NoStateB <- {}, OneStateB <- {},
    test <- "none", protocol <- "ISO",
    session <- SessionOf[session], state <- StateOf, last_v2g_msg <- V2gMsg[last_v2g_msg],
    force_next_connection_req_res <- FALSE, pilot <- "C", on_its_way <- 0,
    cp_state <- "C", bsp_event <- 0,
    outcome <- "PreconditionsNotMet", base <- NotTested, clock <- 0, seen <- NotTested

SessionStarts ==
    /\ session = "none" /\ session' = "open"
    /\ (state = Dc.SESSIONSETUP /\ last_v2g_msg = "Unknown" /\ ~is_connection_terminated)'

SessionEnds == session # "none" /\ session' = "none"

\* A test that lets every request through to the base server, and this one is answered
ServedByBase ==
    /\ InSession
    /\ \E m \in Tested!Requests \intersect {V2gMsg[last_v2g_msg']} :
          IF m = V2gMsg.SessionStop THEN Tested!HandleSessionStop(FALSE) ELSE Tested!BaseHandles(m)
    /\ UNCHANGED Tested!config

\* What TestSession is about: DC chargers, external payment, and the requests that it has
WithinTests ==
    /\ is_dc_charger /\ iso_selected_payment_option = "ExternalPayment"
    /\ state \notin {Dc.PAYMENTDETAILS_CERTINST_CERTUPD, Dc.METERINGRECEIPT}
    /\ last_v2g_msg \notin {"PaymentDetails", "CertificateUpdate", "ChargingStatus",
                            "MeteringReceipt"}

\* The base server to which the models of the test cases leave what they do not override
\* allows all that this server does: which requests are in order, what each may expect
\* next, and what ends the connection.
ImplementsBaseServer ==
    [][WithinTests /\ WithinTests'
       => SessionStarts \/ SessionEnds \/ ServedByBase \/ Tested!DlinkTerminated]_(Tested!vars)
=============================================================================
