--------------------------- MODULE IsoServer_proofs ---------------------------
(***************************************************************************)
(* Proofs about the ISO 15118-2 server, for every set of payment options   *)
(* and sessions of any length.                                             *)
(***************************************************************************)
EXTENDS IsoServer, TLAPS

\* The states by number
LEMMA DcStates ==
  /\ Dc.SESSIONSETUP = 0 /\ Dc.SERVICEDISCOVERY = 1 /\ Dc.SVCDETAIL_PAYMENTSVCSEL = 2
  /\ Dc.PAYMENTDETAILS_CERTINST_CERTUPD = 3 /\ Dc.PAYMENTDETAILS = 4 /\ Dc.AUTHORIZATION = 5
  /\ Dc.CHARGEPARAMETERDISCOVERY = 6 /\ Dc.CABLECHECK = 7 /\ Dc.PRECHARGE = 8
  /\ Dc.PRECHARGE_POWERDELIVERY = 9 /\ Dc.CURRENTDEMAND_POWERDELIVERY = 10
  /\ Dc.CURRENTDEMAND = 11 /\ Dc.METERINGRECEIPT = 12
  /\ Dc.WELDINGDETECTION_SESSIONSTOP = 13 /\ Dc.TERMINATED_SESSION = 14
BY DEF Dc

LEMMA AcStates ==
  /\ Ac.CHARGEPARAMETERDISCOVERY = 6 /\ Ac.POWERDELIVERY = 7 /\ Ac.CHARGINGSTATUS = 8
  /\ Ac.CHARGINGSTATUS_POWERDELIVERY = 9 /\ Ac.METERINGRECEIPT = 10 /\ Ac.SESSIONSTOP = 11
BY DEF Ac

\* A validated response code is a response code.
LEMMA ValidatedType ==
  ASSUME NEW request, NEW code \in {"OK", "FAILED"},
         NEW v \in iso_validate_response_code(request, code)
  PROVE  v \in Results
BY DEF iso_validate_response_code, Results

\* A reply keeps the types.
LEMMA ReplyType ==
  ASSUME NEW request \in Messages, NEW v \in Results, NEW next \in 0..14, Reply(request, v, next)
  PROVE  /\ session' \in {"open", "ending"} /\ response' \in {"OK", "FAILED"}
         /\ state' \in 0..14 /\ last_v2g_msg' \in Messages
BY DEF Reply, Results

\* So does what a reply grants.
LEMMA GrantType ==
  ASSUME granted \subseteq Phases, NEW v, NEW phases \in SUBSET Phases, Grant(v, phases)
  PROVE  granted' \subseteq Phases
BY DEF Grant

\* A power delivery request keeps the types.
LEMMA PowerDeliveryType ==
  ASSUME TypeOK, NEW progress \in ChargeProgress, NEW codes \in SUBSET {"OK", "FAILED"},
         PowerDelivery(progress, codes)
  PROVE  TypeOK'
<1>1. PICK v \in Results : Renegotiate(v) \/ StartCharging(v) \/ EndCharging(progress, v)
  BY ValidatedType DEF PowerDelivery
<1>2. /\ state' \in 0..14 /\ response' \in {"OK", "FAILED"}
      /\ session' \in {"open", "ending"} /\ last_v2g_msg' \in Messages
  BY <1>1, DcStates, AcStates DEF Renegotiate, StartCharging, EndCharging, Reply, Results, Messages
<1>3. granted' \subseteq Phases /\ isolation_finished' \in BOOLEAN /\ isolation_checked' \in BOOLEAN
  BY <1>1 DEF Renegotiate, StartCharging, EndCharging, Grant, TypeOK, Phases
<1> QED
  BY <1>2, <1>3 DEF PowerDelivery, TypeOK, config, abortVars, paymentVars, authVars

\* A request keeps the types.
LEMMA RequestType == TypeOK /\ Request => TypeOK'
<1> SUFFICES ASSUME TypeOK, Request PROVE TypeOK'
  OBVIOUS
<1> USE DEF config, abortVars, replyVars, paymentVars, authVars, energyVars
<1>1. ASSUME NEW request \in Messages, NEW v \in Results, NEW next \in 0..14, Reply(request, v, next),
             UNCHANGED <<config, abortVars, energyVars, is_tls_connection>>, granted' \subseteq Phases,
             iso_selected_payment_option' \in PaymentOptions, payment_option_list' \subseteq PaymentOptions,
             auth_finished' \in BOOLEAN, accepted' \in BOOLEAN, hlc_pause_active' \in BOOLEAN,
             offer_replaced' \in BOOLEAN,
             UNCHANGED <<authorization_rejected, rejecting>>, session # "delivering"
      PROVE  TypeOK'
  <2>1. contactor_wait' = "none" /\ session' # "delivering"
    BY <1>1, ReplyType DEF TypeOK
  <2> QED
    BY <1>1, <2>1, ReplyType DEF TypeOK
<1>2. CASE \/ handle_iso_session_setup \/ handle_iso_service_discovery \/ handle_iso_service_detail
           \/ handle_iso_payment_details \/ handle_iso_certificate_update
  <2>1. \E request \in Messages, v \in Results, next \in 0..14 : Reply(request, v, next)
    BY <1>2, ValidatedType, DcStates DEF TypeOK, handle_iso_session_setup, handle_iso_service_discovery, handle_iso_service_detail, handle_iso_payment_details, handle_iso_certificate_update, Results, Messages
  <2>2. payment_option_list' \subseteq PaymentOptions
    <3>1. CASE handle_iso_service_discovery
      <4>1. PICK offered \in OfferedOptions : payment_option_list' = offered \intersect AuthSupported
        BY <3>1 DEF handle_iso_service_discovery
      <4>2. AuthSupported \subseteq PaymentOptions
        BY AuthAssumption
      <4> QED
        BY <4>1, <4>2
    <3>2. CASE ~handle_iso_service_discovery
      BY <1>2, <3>2 DEF TypeOK, handle_iso_session_setup, handle_iso_service_detail,
         handle_iso_payment_details, handle_iso_certificate_update
    <3> QED
      BY <3>1, <3>2
  <2> QED
    BY <1>1, <1>2, <2>1, <2>2 DEF TypeOK, handle_iso_session_setup, handle_iso_service_discovery,
       handle_iso_service_detail, handle_iso_payment_details, handle_iso_certificate_update
<1>3. ASSUME NEW option \in PaymentOptions, handle_iso_payment_service_selection(option)
      PROVE  TypeOK'
  <2>1. PICK v \in Results :
            Reply("PaymentServiceSelection", v,
                  IF option = "Contract" THEN Dc.PAYMENTDETAILS_CERTINST_CERTUPD ELSE Dc.AUTHORIZATION)
    BY <1>3, ValidatedType DEF handle_iso_payment_service_selection, SelectionCodes
  <2> QED
    <3>1. /\ "PaymentServiceSelection" \in Messages
          /\ Dc.PAYMENTDETAILS_CERTINST_CERTUPD \in 0..14 /\ Dc.AUTHORIZATION \in 0..14
      BY DcStates DEF Messages
    <3>2. /\ session' \in {"open", "ending"} /\ response' \in {"OK", "FAILED"}
          /\ state' \in 0..14 /\ last_v2g_msg' \in Messages
      BY <2>1, <3>1, ReplyType
    <3> QED
      <4>1. /\ auth_finished' \in BOOLEAN /\ accepted' \in BOOLEAN
            /\ iso_selected_payment_option' \in PaymentOptions
        BY <1>3, Zenon DEF TypeOK, handle_iso_payment_service_selection
      <4>2. /\ UNCHANGED <<config, abortVars, payment_option_list, offer_replaced>>
            /\ UNCHANGED <<authorization_rejected, rejecting, energyVars>>
            /\ UNCHANGED <<is_tls_connection, hlc_pause_active, granted>> /\ session = "open"
        BY <1>3 DEF handle_iso_payment_service_selection
      <4> QED
        BY <3>2, <4>1, <4>2 DEF TypeOK
<1>4. CASE handle_iso_certificate_installation
  BY <1>4, <1>1, ValidatedType, DcStates DEF TypeOK, handle_iso_certificate_installation, Messages
<1>5. CASE CertificateInstallationEnds
  <2>1. PICK v \in Results : Reply("CertificateInstallation", v, Dc.PAYMENTDETAILS)
    BY <1>5, ValidatedType DEF CertificateInstallationEnds, Results
  <2>2. Dc.PAYMENTDETAILS \in 0..14 /\ "CertificateInstallation" \in Messages
    BY DcStates DEF Messages
  <2> QED
    <3>1. /\ session' \in {"open", "ending"} /\ response' \in {"OK", "FAILED"}
          /\ state' \in 0..14 /\ last_v2g_msg' \in Messages
      BY <2>1, <2>2, ReplyType
    <3> QED
      <4>1. intl_emergency_shutdown' \in BOOLEAN
        BY <1>5, Zenon DEF TypeOK, CertificateInstallationEnds
      <4>2. /\ UNCHANGED <<config, stop_hlc, is_connection_terminated, paymentVars, authVars>>
            /\ UNCHANGED <<energyVars, is_tls_connection, hlc_pause_active, granted>>
            /\ session = "installing"
        BY <1>5 DEF CertificateInstallationEnds
      <4> QED
        BY <3>1, <4>1, <4>2 DEF TypeOK
<1>6. CASE handle_iso_authorization
  <2>1. PICK v \in Results, next \in {Dc.AUTHORIZATION, Dc.CHARGEPARAMETERDISCOVERY} :
            Reply("Authorization", v, next)
    BY <1>6, ValidatedType DEF handle_iso_authorization, InvalidSignature, AnswerAuthorization,
       AuthorizationCodes, AuthorizationNext
  <2>2. granted' \subseteq Phases
    BY <1>6 DEF handle_iso_authorization, InvalidSignature, AnswerAuthorization, Grant, Phases, TypeOK
  <2>3. next \in 0..14 /\ "Authorization" \in Messages
    BY <2>1, DcStates DEF Messages
  <2> QED
    BY <1>1, <1>6, <2>1, <2>2, <2>3 DEF TypeOK, handle_iso_authorization
<1>7. CASE handle_iso_charge_parameter_discovery \/ handle_iso_cable_check \/ handle_iso_pre_charge
  <2>1. \E request \in Messages, v \in Results, next \in 0..14 : Reply(request, v, next)
    <3>1. CASE handle_iso_charge_parameter_discovery
      <4>1. PICK v \in Results, next \in {Dc.CHARGEPARAMETERDISCOVERY, Dc.CABLECHECK, Ac.POWERDELIVERY} :
                Reply("ChargeParameterDiscovery", v, next)
        BY <3>1, ValidatedType DEF handle_iso_charge_parameter_discovery
      <4>2. next \in 0..14 /\ "ChargeParameterDiscovery" \in Messages
        BY <4>1, DcStates, AcStates DEF Messages
      <4> QED
        BY <4>1, <4>2
    <3>2. CASE handle_iso_cable_check \/ handle_iso_pre_charge
      BY <3>2, ValidatedType, DcStates DEF handle_iso_cable_check, handle_iso_pre_charge, Messages
    <3> QED
      BY <1>7, <3>1, <3>2
  <2>2. granted' \subseteq Phases
    BY <1>7 DEF handle_iso_charge_parameter_discovery, handle_iso_cable_check,
       handle_iso_pre_charge, Grant, Phases, TypeOK
  <2> QED
    BY <1>1, <1>7, <2>1, <2>2 DEF TypeOK, handle_iso_charge_parameter_discovery,
       handle_iso_cable_check, handle_iso_pre_charge
<1>8. ASSUME NEW progress \in ChargeProgress, handle_iso_power_delivery(progress)
      PROVE  TypeOK'
  BY <1>8, PowerDeliveryType DEF handle_iso_power_delivery
<1>9. CASE WaitForContactor
  BY <1>9 DEF WaitForContactor, TypeOK
<1>10. CASE ContactorWaitEnds \/ PowerDeliveryGoesOn
  <2>1. CASE ContactorWaitEnds
    BY <2>1 DEF ContactorWaitEnds, WaitEnds, TypeOK
  <2>2. CASE PowerDeliveryGoesOn
    BY <2>2, PowerDeliveryType DEF PowerDeliveryGoesOn, ContactorCodes, ChargeProgress
  <2> QED
    BY <1>10, <2>1, <2>2
<1>11. CASE \/ handle_iso_current_demand \/ handle_iso_charging_status
            \/ handle_iso_metering_receipt \/ handle_iso_welding_detection
  <2>1. \E request \in Messages, v \in Results, next \in 0..14 : Reply(request, v, next)
    BY <1>11, ValidatedType, DcStates, AcStates DEF handle_iso_current_demand, handle_iso_charging_status, handle_iso_metering_receipt, handle_iso_welding_detection, Messages
  <2> QED
    BY <1>1, <1>11, <2>1 DEF TypeOK, handle_iso_current_demand, handle_iso_charging_status,
       handle_iso_metering_receipt, handle_iso_welding_detection
<1>12. ASSUME NEW pause \in BOOLEAN, handle_iso_session_stop(pause)
       PROVE  TypeOK'
  <2>1. \E v \in Results, next \in 0..14 : Reply("SessionStop", v, next)
    BY <1>12, ValidatedType, DcStates DEF handle_iso_session_stop, SessionStopEvent, Results
  <2> QED
    BY <1>1, <1>12, <2>1 DEF TypeOK, handle_iso_session_stop, Messages
<1> QED
  BY <1>2, <1>3, <1>4, <1>5, <1>6, <1>7, <1>8, <1>9, <1>10, <1>11, <1>12 DEF Request

\* The variables keep their types (TypeOK).
THEOREM TypeCorrect == Spec => []TypeOK
<1>1. Init => TypeOK
  <2>1. Init => state \in 0..14
    BY DcStates DEF Init
  <2> QED
    BY <2>1, Zenon DEF Init, TypeOK, Messages, PaymentOptions, Phases
<1>2. TypeOK /\ [Next]_vars => TypeOK'
  <2> SUFFICES ASSUME TypeOK, [Next]_vars PROVE TypeOK'
    OBVIOUS
  <2> USE DEF TypeOK, config, abortVars, replyVars, paymentVars, authVars, energyVars
  <2>1. CASE Connect
    <3>1. state' \in 0..14
      BY <2>1, DcStates DEF Connect, v2g_ctx_init_charging_state
    <3> QED
      <4>1. /\ stop_hlc' \in BOOLEAN /\ intl_emergency_shutdown' \in BOOLEAN
            /\ is_connection_terminated' \in BOOLEAN
            /\ last_v2g_msg' \in Messages /\ granted' \subseteq Phases
        BY <2>1, Zenon DEF Connect, v2g_ctx_init_charging_state, Messages
      <4>2. is_tls_connection' \in BOOLEAN
        BY <2>1, AcTlsAssumption DEF Connect
      <4> QED
        BY <2>1, <3>1, <4>1, <4>2 DEF Connect
  <2>2. CASE EndSession
    <3>1. state' \in 0..14
      BY <2>2, DcStates DEF EndSession, v2g_ctx_init_charging_state
    <3>2. payment_option_list' \subseteq PaymentOptions
      BY <2>2 DEF EndSession, v2g_ctx_init_charging_values
    <3> QED
      BY <2>2, <3>1, <3>2, Zenon DEF EndSession, v2g_ctx_init_charging_state,
         v2g_ctx_init_charging_values, Messages, PaymentOptions
  <2>3. CASE Request
    BY <2>3, RequestType
  <2>4. CASE Command
    <3>1. ASSUME NEW options \in SUBSET PaymentOptions, handle_session_setup(options) PROVE TypeOK'
      BY <3>1 DEF handle_session_setup
    <3>2. ASSUME NEW status \in {"Accepted", "Rejected"}, handle_authorization_response(status)
          PROVE  TypeOK'
      <4>1. auth_finished' \in BOOLEAN /\ rejecting' \in BOOLEAN /\ accepted' \in BOOLEAN
        BY <3>2, Zenon DEF handle_authorization_response
      <4> QED
        BY <3>2, <4>1 DEF handle_authorization_response
    <3>3. CASE RejectAuthorization \/ EmergencyShutdown \/ handle_dlink_ready
      <4>1. /\ authorization_rejected' \in BOOLEAN /\ rejecting' \in BOOLEAN
            /\ intl_emergency_shutdown' \in BOOLEAN /\ is_connection_terminated' \in BOOLEAN
        BY <3>3, Zenon DEF RejectAuthorization, EmergencyShutdown, handle_dlink_ready
      <4> QED
        BY <3>3, <4>1 DEF RejectAuthorization, EmergencyShutdown, handle_dlink_ready
    <3>4. ASSUME NEW status \in BOOLEAN,
                 \/ handle_cable_check_finished(status) \/ handle_ac_contactor_closed(status)
                 \/ StopHlc(status)
          PROVE  TypeOK'
      BY <3>4 DEF handle_cable_check_finished, handle_ac_contactor_closed, StopHlc
    <3> QED
      BY <2>4, <3>1, <3>2, <3>3, <3>4 DEF Command
  <2>5. CASE UNCHANGED vars
    BY <2>5 DEF vars
  <2> QED
    BY <2>1, <2>2, <2>3, <2>4, <2>5 DEF Next
<1> QED
  BY <1>1, <1>2, PTL DEF Spec

-----------------------------------------------------------------------------
(***************************************************************************)
(* The message sequence                                                    *)
(***************************************************************************)
\* When failed responses end the connection, it goes on only after a request that
\* the table allows and with which nothing is wrong.
LEMMA Admitted ==
  ASSUME TypeOK, Strict, StateInTable,
         NEW request, NEW code \in {"OK", "FAILED"},
         NEW v \in iso_validate_response_code(request, code), v.event = "NO_EVENT"
  PROVE  v.code = "OK" /\ code = "OK" /\ request \in StateTable[state + 1]
<1>1. iso_validate_state(request) = {(request \in StateTable[state + 1])}
  BY DEF iso_validate_state, StateInTable
<1>2. ~is_connection_terminated
  BY DEF iso_validate_response_code
<1>3. terminate_connection_on_failed_response
  BY DEF Strict
<1>4. PICK valid \in iso_validate_state(request), known \in BOOLEAN :
          LET failed == code = "FAILED" \/ Aborting \/ ~valid \/ (request # "SessionSetup" /\ ~known)
          IN  v = [code  |-> IF failed THEN "FAILED" ELSE code,
                   event |-> IF failed /\ terminate_connection_on_failed_response
                             THEN "SEND_AND_TERMINATE" ELSE "NO_EVENT"]
  BY <1>2 DEF iso_validate_response_code
<1> DEFINE failed == code = "FAILED" \/ Aborting \/ ~valid \/ (request # "SessionSetup" /\ ~known)
<1>5. ~failed
  BY <1>3, <1>4
<1>6. v.code = code
  BY <1>4, <1>5
<1> QED
  BY <1>1, <1>4, <1>5, <1>6

\* The states of a DC charger in which a request is allowed
LEMMA AllowedDc ==
  ASSUME state \in 0..14, NEW request \in iso_dc_states[state + 1]
  PROVE  /\ request = "ServiceDetail" \/ request = "PaymentServiceSelection" => state = 2
         /\ request = "Authorization" => state \in {3, 5}
         /\ request = "ChargeParameterDiscovery" => state = 6
         /\ request = "CableCheck" => state = 7
         /\ request = "PreCharge" => state \in {8, 9}
         /\ request = "PowerDelivery" => state \in {9, 10}
         /\ request = "CurrentDemand" => state \in {10, 11}
         /\ request = "MeteringReceipt" => state = 12
         /\ request = "WeldingDetection" => state = 13
         /\ request # "ChargingStatus"
<1>1. CASE state \in 0..4
  BY <1>1 DEF iso_dc_states
<1>2. CASE state \in 5..9
  BY <1>2 DEF iso_dc_states
<1>3. CASE state \in 10..14
  BY <1>3 DEF iso_dc_states
<1> QED
  BY <1>1, <1>2, <1>3

\* The states of an AC charger in which a request is allowed
LEMMA AllowedAc ==
  ASSUME state \in 0..12, NEW request \in iso_ac_states[state + 1]
  PROVE  /\ request = "ServiceDetail" \/ request = "PaymentServiceSelection" => state = 2
         /\ request = "Authorization" => state = 5
         /\ request = "ChargeParameterDiscovery" => state = 6
         /\ request = "PowerDelivery" => state \in {7, 9}
         /\ request = "ChargingStatus" => state \in {8, 9}
         /\ request = "MeteringReceipt" => state = 10
         /\ request \notin {"CableCheck", "PreCharge", "CurrentDemand", "WeldingDetection"}
<1>1. CASE state \in 0..4
  BY <1>1 DEF iso_ac_states
<1>2. CASE state \in 5..8
  BY <1>2 DEF iso_ac_states
<1>3. CASE state \in 9..12
  BY <1>3 DEF iso_ac_states
<1> QED
  BY <1>1, <1>2, <1>3

LEMMA PrerequisitesDc ==
  ASSUME is_dc_charger
  PROVE  /\ \A s \in 0..5 : Prerequisites[s] = {}
         /\ Prerequisites[6] = {"authorized"} /\ Prerequisites[13] = {"authorized"}
         /\ Prerequisites[7] = {"authorized", "parameters"}
         /\ Prerequisites[8] = {"authorized", "parameters", "isolated"}
         /\ Prerequisites[9] = {"authorized", "parameters", "isolated", "precharged"}
         /\ \A s \in 10..12 : Prerequisites[s] = Phases
         /\ Prerequisites[14] = {}
BY DcStates DEF Prerequisites, Phases

LEMMA PrerequisitesAc ==
  ASSUME ~is_dc_charger
  PROVE  /\ \A s \in 0..5 : Prerequisites[s] = {}
         /\ Prerequisites[6] = {"authorized"} /\ Prerequisites[11] = {"authorized"}
         /\ Prerequisites[7] = {"authorized", "parameters"}
         /\ \A s \in 8..10 : Prerequisites[s] = {"authorized", "parameters", "powered"}
         /\ Prerequisites[12] = {}
BY AcStates DEF Prerequisites

LEMMA Tables == Len(iso_dc_states) = 15 /\ Len(iso_ac_states) = 13
BY DEF iso_dc_states, iso_ac_states

Ordered == PhasesInOrder /\ StateInTable

\* What is to be shown of a step that does not change the configuration
LEMMA OrderedNext ==
  ASSUME UNCHANGED config,
         Strict' => Prerequisites[state'] \subseteq granted' /\ state' < Len(StateTable)
  PROVE  Ordered'
BY DEF Ordered, PhasesInOrder, StateInTable, Prerequisites, StateTable, config

\* What holds when the connection goes on after a reply
LEMMA Served ==
  ASSUME TypeOK, Ordered, InSession, UNCHANGED config, Strict',
         NEW request, NEW code \in {"OK", "FAILED"}, NEW next \in 0..14,
         NEW v \in iso_validate_response_code(request, code), Reply(request, v, next)
  PROVE  /\ Strict /\ code = "OK" /\ Passed(v) /\ state' = next
         /\ request \in StateTable[state + 1]
         /\ Prerequisites[state] \subseteq granted /\ state < Len(StateTable)
<1>1. v \in Results
  BY ValidatedType
<1>2. v.event = "NO_EVENT"
  BY <1>1 DEF Reply, Strict, InSession
<1>3. Strict
  BY DEF Strict, config
<1>4. v.code = "OK" /\ code = "OK" /\ request \in StateTable[state + 1]
  BY <1>2, <1>3, Admitted DEF Ordered
<1>5. Passed(v)
  BY <1>1, <1>2, <1>4 DEF Passed, Results
<1> QED
  BY <1>3, <1>4, <1>5 DEF Ordered, PhasesInOrder, StateInTable, Reply

\* Requests that have no phase
LEMMA OrderedEarly ==
  ASSUME TypeOK, Ordered, InSession, UNCHANGED config, state' \in 0..5 \/ ~InSession'
  PROVE  Ordered'
<1> SUFFICES ASSUME Strict'
             PROVE  Prerequisites[state'] \subseteq granted' /\ state' < Len(StateTable)
  BY OrderedNext
<1>0. state' \in 0..5
  BY DEF Strict
<1>1. CASE is_dc_charger
  <2>1. Len(StateTable) = 15
    BY <1>1, Tables DEF StateTable
  <2> QED
    BY <1>0, <1>1, <2>1, PrerequisitesDc
<1>2. CASE ~is_dc_charger
  <2>1. Len(StateTable) = 13
    BY <1>2, Tables DEF StateTable
  <2> QED
    BY <1>0, <1>2, <2>1, PrerequisitesAc
<1> QED
  BY <1>1, <1>2

\* A power delivery request: the phases of charging begin and end with it.
LEMMA OrderedPowerDelivery ==
  ASSUME TypeOK, Ordered, InSession,
         NEW progress \in ChargeProgress, NEW codes \in SUBSET {"OK", "FAILED"},
         PowerDelivery(progress, codes)
  PROVE  Ordered'
<1>1. UNCHANGED config
  BY DEF PowerDelivery
<1>2. SUFFICES ASSUME Strict'
               PROVE  Prerequisites[state'] \subseteq granted' /\ state' < Len(StateTable)
  BY <1>1, OrderedNext
<1>3. PICK code \in codes :
          \E v \in iso_validate_response_code("PowerDelivery", code) :
              Renegotiate(v) \/ StartCharging(v) \/ EndCharging(progress, v)
  BY DEF PowerDelivery
<1>4. PICK v \in iso_validate_response_code("PowerDelivery", code) :
              Renegotiate(v) \/ StartCharging(v) \/ EndCharging(progress, v)
  BY <1>3
<1>5. v \in Results
  BY ValidatedType
<1>6. v.event = "NO_EVENT"
  BY <1>2, <1>4, <1>5 DEF Renegotiate, StartCharging, EndCharging, Reply, Strict, InSession, Results
<1>7. Strict
  BY <1>1, <1>2 DEF Strict, config
<1>8. v.code = "OK" /\ "PowerDelivery" \in StateTable[state + 1]
  BY <1>6, <1>7, Admitted DEF Ordered
<1>9. Prerequisites[state] \subseteq granted /\ state < Len(StateTable)
  BY <1>7 DEF Ordered, PhasesInOrder, StateInTable
<1>10. CASE is_dc_charger
  <2>1. state \in {9, 10}
    BY <1>8, <1>10, AllowedDc DEF StateTable, TypeOK
  <2>2. {"authorized", "parameters", "isolated", "precharged"} \subseteq granted
    BY <1>9, <1>10, <2>1, PrerequisitesDc DEF Phases
  <2>3. Len(StateTable) = 15
    BY <1>10, Tables DEF StateTable
  <2>4. CASE Renegotiate(v) \/ EndCharging(progress, v)
    <3>1. state' \in {6, 13} /\ granted' = granted \intersect {"authorized"}
      BY <1>10, <2>4, DcStates DEF Renegotiate, EndCharging, Reply
    <3> QED
      BY <1>10, <2>2, <2>3, <3>1, PrerequisitesDc
  <2>5. CASE StartCharging(v)
    <3>1. state' = 11 /\ granted' = granted \union {"powered"}
      BY <1>5, <1>6, <1>7, <1>8, <1>10, <2>5, DcStates
         DEF StartCharging, Reply, Grant, Passed, Strict, Results
    <3> QED
      BY <1>10, <2>2, <2>3, <3>1, PrerequisitesDc DEF Phases
  <2> QED
    BY <1>4, <2>4, <2>5
<1>11. CASE ~is_dc_charger
  <2>1. state \in {7, 9}
    <3>1. StateTable = iso_ac_states
      BY <1>11 DEF StateTable
    <3>2. state \in 0..12
      BY <1>9, <3>1, Tables DEF TypeOK
    <3> QED
      BY <1>8, <3>1, <3>2, AllowedAc
  <2>2. {"authorized", "parameters"} \subseteq granted
    BY <1>9, <1>11, <2>1, PrerequisitesAc
  <2>3. Len(StateTable) = 13
    BY <1>11, Tables DEF StateTable
  <2>4. CASE Renegotiate(v) \/ EndCharging(progress, v)
    <3>1. state' \in {6, 11} /\ granted' = granted \intersect {"authorized"}
      BY <1>11, <2>4, DcStates, AcStates DEF Renegotiate, EndCharging, Reply
    <3> QED
      BY <1>11, <2>2, <2>3, <3>1, PrerequisitesAc
  <2>5. CASE StartCharging(v)
    <3>1. state' = 8 /\ granted' = granted \union {"powered"}
      BY <1>5, <1>6, <1>7, <1>8, <1>11, <2>5, AcStates
         DEF StartCharging, Reply, Grant, Passed, Strict, Results
    <3> QED
      BY <1>11, <2>2, <2>3, <3>1, PrerequisitesAc
  <2> QED
    BY <1>4, <2>4, <2>5
<1> QED
  BY <1>10, <1>11

\* What is to be shown of a request that is served: with DC, and with AC
LEMMA OrderedReply ==
  ASSUME TypeOK, Ordered, InSession, UNCHANGED config,
         NEW request, NEW code \in {"OK", "FAILED"}, NEW next \in 0..14,
         NEW v \in iso_validate_response_code(request, code), Reply(request, v, next),
         /\ is_dc_charger /\ Strict /\ code = "OK" /\ Passed(v)
         /\ request \in iso_dc_states[state + 1] /\ Prerequisites[state] \subseteq granted
         => Prerequisites[next] \subseteq granted',
         /\ ~is_dc_charger /\ Strict /\ code = "OK" /\ Passed(v) /\ state \in 0..12
         /\ request \in iso_ac_states[state + 1] /\ Prerequisites[state] \subseteq granted
         => Prerequisites[next] \subseteq granted' /\ next < 13
  PROVE  Ordered'
<1> SUFFICES ASSUME Strict'
             PROVE  Prerequisites[state'] \subseteq granted' /\ state' < Len(StateTable)
  BY OrderedNext
<1>1. /\ Strict /\ code = "OK" /\ Passed(v) /\ state' = next
      /\ request \in StateTable[state + 1]
      /\ Prerequisites[state] \subseteq granted /\ state < Len(StateTable)
  BY Served
<1>2. CASE is_dc_charger
  <2>1. StateTable = iso_dc_states
    BY <1>2 DEF StateTable
  <2> QED
    BY <1>1, <1>2, <2>1, Tables
<1>3. CASE ~is_dc_charger
  <2>1. StateTable = iso_ac_states
    BY <1>3 DEF StateTable
  <2>2. state \in 0..12
    BY <1>1, <2>1, Tables DEF TypeOK
  <2> QED
    BY <1>1, <1>3, <2>1, <2>2, Tables
<1> QED
  BY <1>2, <1>3

LEMMA OrderedAuthorization == TypeOK /\ Ordered /\ handle_iso_authorization => Ordered'
<1> SUFFICES ASSUME TypeOK, Ordered, handle_iso_authorization PROVE Ordered'
  OBVIOUS
<1>1. InSession /\ UNCHANGED config
  BY DEF handle_iso_authorization, InSession
<1>2. CASE InvalidSignature
  <2>1. PICK v \in iso_validate_response_code("Authorization", "FAILED") :
            Reply("Authorization", v, AuthorizationNext(TRUE))
    BY <1>2 DEF InvalidSignature
  <2>2. AuthorizationNext(TRUE) \in 0..14
    BY DcStates DEF AuthorizationNext
  <2> QED
    BY <1>1, <2>1, <2>2, OrderedReply
<1>3. CASE AnswerAuthorization
  <2>1. PICK code \in {"OK", "FAILED"} :
            \E v \in iso_validate_response_code("Authorization", code) :
                /\ Reply("Authorization", v, AuthorizationNext(auth_finished))
                /\ Grant(v, IF auth_finished THEN {"authorized"} ELSE {})
    BY <1>3 DEF AnswerAuthorization, AuthorizationCodes
  <2>2. PICK v \in iso_validate_response_code("Authorization", code) :
                /\ Reply("Authorization", v, AuthorizationNext(auth_finished))
                /\ Grant(v, IF auth_finished THEN {"authorized"} ELSE {})
    BY <2>1
  <2>3. AuthorizationNext(auth_finished) = IF auth_finished THEN 6 ELSE 5
    BY DcStates DEF AuthorizationNext
  <2>4. Strict /\ Passed(v) => granted' = granted \union (IF auth_finished THEN {"authorized"} ELSE {})
    BY <2>2 DEF Grant, Strict
  <2>5. is_dc_charger /\ Strict /\ Passed(v)
        => Prerequisites[AuthorizationNext(auth_finished)] \subseteq granted'
    BY <2>3, <2>4, PrerequisitesDc
  <2>6. ~is_dc_charger /\ Strict /\ Passed(v)
        => Prerequisites[AuthorizationNext(auth_finished)] \subseteq granted'
    BY <2>3, <2>4, PrerequisitesAc
  <2>7. AuthorizationNext(auth_finished) \in 0..12
    BY <2>3
  <2> QED
    BY <1>1, <2>2, <2>5, <2>6, <2>7, OrderedReply
<1> QED
  BY <1>2, <1>3 DEF handle_iso_authorization

LEMMA OrderedParameters ==
  TypeOK /\ Ordered /\ handle_iso_charge_parameter_discovery => Ordered'
<1> SUFFICES ASSUME TypeOK, Ordered, handle_iso_charge_parameter_discovery PROVE Ordered'
  OBVIOUS
<1>1. InSession /\ UNCHANGED config
  BY DEF handle_iso_charge_parameter_discovery, InSession
<1> DEFINE After(finished) == IF ~finished THEN Dc.CHARGEPARAMETERDISCOVERY
                             ELSE IF is_dc_charger THEN Dc.CABLECHECK ELSE Ac.POWERDELIVERY
<1>2. PICK finished \in BOOLEAN, code \in {"OK", "FAILED"} :
          \E v \in iso_validate_response_code("ChargeParameterDiscovery", code) :
             /\ Reply("ChargeParameterDiscovery", v, After(finished))
             /\ Grant(v, IF finished THEN {"parameters"} ELSE {})
  BY DEF handle_iso_charge_parameter_discovery
<1>3. PICK v \in iso_validate_response_code("ChargeParameterDiscovery", code) :
             /\ Reply("ChargeParameterDiscovery", v, After(finished))
             /\ Grant(v, IF finished THEN {"parameters"} ELSE {})
  BY <1>2
<1>4. After(finished) = IF finished THEN 7 ELSE 6
  BY DcStates, AcStates
<1> HIDE DEF After
<1>5. Strict /\ Passed(v) => granted' = granted \union (IF finished THEN {"parameters"} ELSE {})
  BY <1>3 DEF Grant, Strict
<1>6. ASSUME is_dc_charger, Strict, Passed(v), Prerequisites[state] \subseteq granted,
             "ChargeParameterDiscovery" \in iso_dc_states[state + 1]
      PROVE  Prerequisites[After(finished)] \subseteq granted'
  <2>1. state = 6
    BY <1>6, AllowedDc DEF TypeOK
  <2> QED
    BY <1>4, <1>5, <1>6, <2>1, PrerequisitesDc
<1>7. ASSUME ~is_dc_charger, Strict, Passed(v), Prerequisites[state] \subseteq granted,
             state \in 0..12, "ChargeParameterDiscovery" \in iso_ac_states[state + 1]
      PROVE  Prerequisites[After(finished)] \subseteq granted'
  <2>1. state = 6
    BY <1>7, AllowedAc
  <2> QED
    BY <1>4, <1>5, <1>7, <2>1, PrerequisitesAc
<1>8. After(finished) \in 0..12
  BY <1>4
<1> QED
  BY <1>1, <1>3, <1>6, <1>7, <1>8, OrderedReply

LEMMA OrderedPreparation ==
  TypeOK /\ Ordered /\ (handle_iso_cable_check \/ handle_iso_pre_charge) => Ordered'
<1> SUFFICES ASSUME TypeOK, Ordered, handle_iso_cable_check \/ handle_iso_pre_charge PROVE Ordered'
  OBVIOUS
<1>1. InSession /\ UNCHANGED config
  BY DEF handle_iso_cable_check, handle_iso_pre_charge, InSession
<1>2. CASE handle_iso_cable_check
  <2> DEFINE After == IF isolation_finished THEN Dc.PRECHARGE ELSE Dc.CABLECHECK
  <2>1. PICK v \in iso_validate_response_code("CableCheck", "OK") :
            Reply("CableCheck", v, After) /\ Grant(v, IF isolation_finished THEN {"isolated"} ELSE {})
    BY <1>2 DEF handle_iso_cable_check
  <2>2. After = IF isolation_finished THEN 8 ELSE 7
    BY DcStates
  <2> HIDE DEF After
  <2>3. Strict /\ Passed(v)
        => granted' = granted \union (IF isolation_finished THEN {"isolated"} ELSE {})
    BY <2>1 DEF Grant, Strict
  <2>4. ASSUME is_dc_charger, Strict, Passed(v), Prerequisites[state] \subseteq granted,
               "CableCheck" \in iso_dc_states[state + 1]
        PROVE  Prerequisites[After] \subseteq granted'
    <3>1. state = 7
      BY <2>4, AllowedDc DEF TypeOK
    <3> QED
      BY <2>2, <2>3, <2>4, <3>1, PrerequisitesDc
  <2>5. state \in 0..12 => "CableCheck" \notin iso_ac_states[state + 1]
    BY AllowedAc
  <2>6. After \in 0..14
    BY <2>2
  <2> QED
    BY <1>1, <2>1, <2>4, <2>5, <2>6, OrderedReply
<1>3. CASE handle_iso_pre_charge
  <2>1. PICK v \in iso_validate_response_code("PreCharge", "OK") :
            Reply("PreCharge", v, 9) /\ Grant(v, {"precharged"})
    BY <1>3, DcStates DEF handle_iso_pre_charge
  <2>2. ASSUME is_dc_charger, Strict, Passed(v), Prerequisites[state] \subseteq granted,
               "PreCharge" \in iso_dc_states[state + 1]
        PROVE  Prerequisites[9] \subseteq granted'
    <3>1. state \in {8, 9}
      BY <2>2, AllowedDc DEF TypeOK
    <3>2. granted' = granted \union {"precharged"}
      BY <2>1, <2>2 DEF Grant, Strict
    <3> QED
      BY <2>2, <3>1, <3>2, PrerequisitesDc
  <2>3. state \in 0..12 => "PreCharge" \notin iso_ac_states[state + 1]
    BY AllowedAc
  <2> QED
    BY <1>1, <2>1, <2>2, <2>3, OrderedReply
<1> QED
  BY <1>2, <1>3

\* Requests that grant nothing, and are served where as much is needed afterwards
LEMMA OrderedCharging ==
  TypeOK /\ Ordered
  /\ (\/ handle_iso_current_demand \/ handle_iso_charging_status
      \/ handle_iso_metering_receipt \/ handle_iso_welding_detection) => Ordered'
<1> SUFFICES ASSUME TypeOK, Ordered,
                    \/ handle_iso_current_demand \/ handle_iso_charging_status
                    \/ handle_iso_metering_receipt \/ handle_iso_welding_detection
             PROVE  Ordered'
  OBVIOUS
<1>1. InSession /\ UNCHANGED config /\ granted' = granted
  BY DEF handle_iso_current_demand, handle_iso_charging_status, handle_iso_metering_receipt,
         handle_iso_welding_detection, InSession
<1>2. CASE handle_iso_current_demand
  <2>1. PICK next \in {10, 12}, v \in iso_validate_response_code("CurrentDemand", "OK") :
            Reply("CurrentDemand", v, next)
    BY <1>2, DcStates DEF handle_iso_current_demand
  <2>2. is_dc_charger /\ "CurrentDemand" \in iso_dc_states[state + 1] => state \in {10, 11}
    BY AllowedDc DEF TypeOK
  <2>3. state \in 0..12 => "CurrentDemand" \notin iso_ac_states[state + 1]
    BY AllowedAc
  <2> QED
    BY <1>1, <2>1, <2>2, <2>3, PrerequisitesDc, OrderedReply
<1>3. CASE handle_iso_charging_status
  <2>1. PICK next \in {9, 10}, v \in iso_validate_response_code("ChargingStatus", "OK") :
            Reply("ChargingStatus", v, next)
    BY <1>3, AcStates DEF handle_iso_charging_status
  <2>2. "ChargingStatus" \notin iso_dc_states[state + 1]
    BY AllowedDc DEF TypeOK
  <2>3. state \in 0..12 /\ "ChargingStatus" \in iso_ac_states[state + 1] => state \in {8, 9}
    BY AllowedAc
  <2> QED
    BY <1>1, <2>1, <2>2, <2>3, PrerequisitesAc, OrderedReply
<1>4. CASE handle_iso_metering_receipt
  <2> DEFINE After == IF is_dc_charger THEN 10 ELSE 9
  <2>1. PICK v \in iso_validate_response_code("MeteringReceipt", "OK") :
            Reply("MeteringReceipt", v, After)
    BY <1>4, AcStates, DcStates DEF handle_iso_metering_receipt
  <2>2. is_dc_charger /\ "MeteringReceipt" \in iso_dc_states[state + 1] => state = 12
    BY AllowedDc DEF TypeOK
  <2>3. state \in 0..12 /\ "MeteringReceipt" \in iso_ac_states[state + 1] => state = 10
    BY AllowedAc
  <2> QED
    BY <1>1, <2>1, <2>2, <2>3, PrerequisitesDc, PrerequisitesAc, OrderedReply
<1>5. CASE handle_iso_welding_detection
  <2>1. PICK v \in iso_validate_response_code("WeldingDetection", "OK") :
            Reply("WeldingDetection", v, 13)
    BY <1>5, DcStates DEF handle_iso_welding_detection
  <2>2. is_dc_charger /\ "WeldingDetection" \in iso_dc_states[state + 1] => state = 13
    BY AllowedDc DEF TypeOK
  <2>3. state \in 0..12 => "WeldingDetection" \notin iso_ac_states[state + 1]
    BY AllowedAc
  <2> QED
    BY <1>1, <2>1, <2>2, <2>3, OrderedReply
<1> QED
  BY <1>2, <1>3, <1>4, <1>5

LEMMA InstallationState == CertificateInstallationEnds => state' = 4
BY DcStates DEF CertificateInstallationEnds, Reply

LEMMA OrderedRequest == TypeOK /\ Ordered /\ Request => Ordered'
<1> SUFFICES ASSUME TypeOK, Ordered, Request PROVE Ordered'
  OBVIOUS
<1>1. CASE \/ handle_iso_session_setup \/ handle_iso_service_discovery \/ handle_iso_service_detail
           \/ handle_iso_payment_details \/ CertificateInstallationEnds
           \/ \E option \in PaymentOptions : handle_iso_payment_service_selection(option)
  <2>1. CASE CertificateInstallationEnds
    <3>1. InSession /\ UNCHANGED config
      BY <2>1 DEF CertificateInstallationEnds, InSession, config
    <3> QED
      BY <2>1, <3>1, InstallationState, OrderedEarly
  <2>2. CASE ~CertificateInstallationEnds
    <3>1. InSession /\ UNCHANGED config /\ state' \in 0..5
      BY <1>1, <2>2, DcStates DEF handle_iso_session_setup, handle_iso_service_discovery,
         handle_iso_service_detail, handle_iso_payment_details,
         handle_iso_payment_service_selection, Reply, InSession
    <3> QED
      BY <3>1, OrderedEarly
  <2> QED
    BY <2>1, <2>2
<1>2. ASSUME UNCHANGED <<config, state, granted>>, InSession PROVE Ordered'
  BY <1>2 DEF Ordered, PhasesInOrder, StateInTable, Strict, Prerequisites, StateTable, config
<1>3. CASE \/ handle_iso_certificate_update \/ handle_iso_certificate_installation
            \/ WaitForContactor \/ ContactorWaitEnds
  <2>1. InSession /\ UNCHANGED <<config, granted>> /\ (UNCHANGED state \/ state' \in 0..5)
    BY <1>3, DcStates DEF handle_iso_certificate_update, handle_iso_certificate_installation,
       WaitForContactor, ContactorWaitEnds, Reply, InSession
  <2> QED
    BY <1>2, <2>1, OrderedEarly
<1>4. CASE \/ handle_iso_authorization \/ handle_iso_charge_parameter_discovery
           \/ handle_iso_cable_check \/ handle_iso_pre_charge
           \/ handle_iso_current_demand \/ handle_iso_charging_status
           \/ handle_iso_metering_receipt \/ handle_iso_welding_detection
  BY <1>4, OrderedAuthorization, OrderedParameters, OrderedPreparation, OrderedCharging
<1>5. ASSUME NEW progress \in ChargeProgress, handle_iso_power_delivery(progress) PROVE Ordered'
  BY <1>5, OrderedPowerDelivery DEF handle_iso_power_delivery, InSession
<1>6. CASE PowerDeliveryGoesOn
  BY <1>6, OrderedPowerDelivery DEF PowerDeliveryGoesOn, ContactorCodes, InSession, ChargeProgress
<1>7. ASSUME NEW pause \in BOOLEAN, handle_iso_session_stop(pause) PROVE Ordered'
  <2>1. InSession /\ UNCHANGED config /\ ~InSession'
    BY <1>7 DEF handle_iso_session_stop, SessionStopEvent, Reply, InSession
  <2> QED
    BY <2>1, OrderedEarly
<1> QED
  BY <1>1, <1>3, <1>4, <1>5, <1>6, <1>7 DEF Request

LEMMA OrderedStep == TypeOK /\ Ordered /\ [Next]_vars => Ordered'
<1> SUFFICES ASSUME TypeOK, Ordered, [Next]_vars PROVE Ordered'
  OBVIOUS
<1>1. ASSUME UNCHANGED config, ~InSession' PROVE Ordered'
  BY <1>1, OrderedNext DEF Strict
<1>2. ASSUME UNCHANGED <<config, session, state, granted>> PROVE Ordered'
  BY <1>2 DEF Ordered, PhasesInOrder, StateInTable, Strict, InSession, Prerequisites, StateTable, config
<1>3. CASE Connect
  <2>1. UNCHANGED config /\ state' = 0
    BY <1>3, DcStates DEF Connect, v2g_ctx_init_charging_state
  <2>2. 0 < Len(StateTable)
    BY Tables DEF StateTable
  <2>3. Prerequisites[0] = {}
    BY PrerequisitesDc, PrerequisitesAc
  <2> QED
    BY <2>1, <2>2, <2>3, OrderedNext
<1>4. CASE EndSession
  BY <1>1, <1>4 DEF EndSession, InSession
<1>5. CASE Request
  BY <1>5, OrderedRequest
<1>6. CASE Command
  <2>1. UNCHANGED <<config, session, state, granted>>
    BY <1>6 DEF Command, handle_session_setup, handle_authorization_response, RejectAuthorization,
       handle_cable_check_finished, handle_ac_contactor_closed, StopHlc, EmergencyShutdown,
       handle_dlink_ready, replyVars
  <2> QED
    BY <1>2, <2>1
<1>7. CASE UNCHANGED vars
  BY <1>2, <1>7 DEF vars, replyVars
<1> QED
  BY <1>3, <1>4, <1>5, <1>6, <1>7 DEF Next

\* When failed responses end the connection, a vehicle reaches a state of the message
\* sequence only with every earlier phase granted in this session (PhasesInOrder).
\* The invariant needs StateInTable: a request that is looked up outside of the table
\* might be allowed in any state.
THEOREM PhasesAreInOrder == Spec => []PhasesInOrder
<1>1. Init => Ordered
  BY DEF Init, Ordered, PhasesInOrder, StateInTable, Strict, InSession
<1>2. Ordered => PhasesInOrder
  BY DEF Ordered
<1> QED
  BY <1>1, <1>2, OrderedStep, TypeCorrect, PTL DEF Spec

\* When failed responses end the connection, no request is looked up outside of the
\* table of the charger (StateInTable), though the handlers store states of the DC table
\* on AC chargers.
THEOREM StatesAreInTable == Spec => []StateInTable
<1>1. Init => Ordered
  BY DEF Init, Ordered, PhasesInOrder, StateInTable, Strict, InSession
<1>2. Ordered => StateInTable
  BY DEF Ordered
<1> QED
  BY <1>1, <1>2, OrderedStep, TypeCorrect, PTL DEF Spec

\* Both: no request is allowed too early (MessagesInOrder).
THEOREM MessagesAreInOrder == Spec => []MessagesInOrder
<1>1. PhasesInOrder /\ StateInTable => MessagesInOrder
  BY DEF MessagesInOrder
<1> QED
  BY <1>1, PhasesAreInOrder, StatesAreInTable, PTL

-----------------------------------------------------------------------------
(***************************************************************************)
(* Stale answers, and contracts                                            *)
(***************************************************************************)
\* With external payment, the authorization is finished only by an answer that came
\* since it was asked for.
AnswerIsCurrent ==
    auth_finished /\ iso_selected_payment_option = "ExternalPayment" => accepted

LEMMA AnswerStep == TypeOK /\ AnswerIsCurrent /\ [Next]_vars => AnswerIsCurrent'
<1> SUFFICES ASSUME TypeOK, AnswerIsCurrent, [Next]_vars PROVE AnswerIsCurrent'
  OBVIOUS
<1>1. ASSUME UNCHANGED <<authVars, iso_selected_payment_option>> PROVE AnswerIsCurrent'
  BY <1>1 DEF AnswerIsCurrent, authVars
<1>2. CASE EndSession
  BY <1>2, Zenon DEF EndSession, v2g_ctx_init_charging_values, AnswerIsCurrent
<1>3. CASE Request
  <2>1. ASSUME NEW option \in PaymentOptions, handle_iso_payment_service_selection(option)
        PROVE  AnswerIsCurrent'
    <3>1. CASE option = "Contract"
      BY <2>1, <3>1 DEF handle_iso_payment_service_selection, AnswerIsCurrent
    <3>2. CASE option # "Contract"
      BY <2>1, <3>2, Zenon DEF handle_iso_payment_service_selection, AnswerIsCurrent
    <3> QED
      BY <3>1, <3>2
  <2>2. CASE ~\E option \in PaymentOptions : handle_iso_payment_service_selection(option)
    <3>1. UNCHANGED <<authVars, iso_selected_payment_option>>
      BY <1>3, <2>2 DEF Request, handle_iso_session_setup, handle_iso_service_discovery,
         handle_iso_service_detail, handle_iso_payment_details, handle_iso_certificate_update,
         handle_iso_certificate_installation, CertificateInstallationEnds,
         handle_iso_authorization, handle_iso_charge_parameter_discovery, handle_iso_cable_check,
         handle_iso_pre_charge, handle_iso_power_delivery, WaitForContactor, ContactorWaitEnds,
         PowerDeliveryGoesOn, PowerDelivery, handle_iso_current_demand, handle_iso_charging_status,
         handle_iso_metering_receipt, handle_iso_welding_detection, handle_iso_session_stop,
         paymentVars
    <3> QED
      BY <1>1, <3>1
  <2> QED
    BY <2>1, <2>2
<1>4. CASE Command
  <2>1. ASSUME NEW status \in {"Accepted", "Rejected"}, handle_authorization_response(status)
        PROVE  AnswerIsCurrent'
    <3>1. UNCHANGED iso_selected_payment_option
      BY <2>1 DEF handle_authorization_response, paymentVars
    <3>2. CASE status = "Accepted"
      BY <2>1, <3>2, Zenon DEF handle_authorization_response, AnswerIsCurrent
    <3>3. CASE iso_selected_payment_option = "Contract"
      BY <3>1, <3>3 DEF AnswerIsCurrent
    <3> QED
      BY <2>1, <3>2, <3>3 DEF handle_authorization_response
  <2>2. CASE RejectAuthorization
    BY <2>2 DEF RejectAuthorization, paymentVars, AnswerIsCurrent
  <2>3. CASE ~\E status \in {"Accepted", "Rejected"} : handle_authorization_response(status)
    <3>1. UNCHANGED <<authVars, iso_selected_payment_option>> \/ RejectAuthorization
      BY <1>4, <2>3 DEF Command, handle_session_setup, handle_cable_check_finished,
         handle_ac_contactor_closed, StopHlc, EmergencyShutdown, handle_dlink_ready, paymentVars
    <3> QED
      BY <1>1, <2>2, <3>1
  <2> QED
    BY <2>1, <2>3
<1>5. CASE Connect \/ UNCHANGED vars
  BY <1>1, <1>5 DEF Connect, vars, paymentVars
<1> QED
  BY <1>2, <1>3, <1>4, <1>5 DEF Next

\* An authorization that was accepted for an earlier session does not authorize a session
\* with external payment (AuthorizationIsCurrent).
THEOREM AuthorizationOfThisSession == Spec => AuthorizationIsCurrent
<1> DEFINE Step == "authorized" \in granted' /\ "authorized" \notin granted
                   /\ iso_selected_payment_option = "ExternalPayment" => accepted
<1>1. Init => AnswerIsCurrent
  BY Zenon DEF Init, AnswerIsCurrent
<1>2. TypeOK /\ AnswerIsCurrent /\ [Next]_vars => [Step]_vars
  <2> SUFFICES ASSUME TypeOK, AnswerIsCurrent, [Next]_vars,
                      "authorized" \in granted', "authorized" \notin granted,
                      iso_selected_payment_option = "ExternalPayment"
               PROVE  accepted
    OBVIOUS
  <2>1. CASE auth_finished
    BY <2>1, Zenon DEF AnswerIsCurrent
  <2>2. CASE ~auth_finished
    <3>1. ASSUME handle_iso_authorization PROVE FALSE
      BY <2>2, <3>1 DEF handle_iso_authorization, InvalidSignature, AnswerAuthorization, Grant
    <3>2. ASSUME NEW progress, NEW codes, PowerDelivery(progress, codes) PROVE FALSE
      BY <3>2 DEF PowerDelivery, Renegotiate, StartCharging, EndCharging, Grant
    <3>3. CASE Request
      <4>1. CASE UNCHANGED granted
        BY <4>1
      <4>2. CASE handle_iso_charge_parameter_discovery
        BY <4>2 DEF handle_iso_charge_parameter_discovery, Grant
      <4>3. CASE handle_iso_cable_check \/ handle_iso_pre_charge
        BY <4>3 DEF handle_iso_cable_check, handle_iso_pre_charge, Grant
      <4>4. CASE /\ ~handle_iso_charge_parameter_discovery
                 /\ ~handle_iso_cable_check /\ ~handle_iso_pre_charge
        <5>1. \/ UNCHANGED granted \/ handle_iso_authorization
              \/ \E progress, codes : PowerDelivery(progress, codes)
          BY <3>3, <4>4 DEF Request, handle_iso_session_setup, handle_iso_service_discovery,
             handle_iso_service_detail, handle_iso_payment_service_selection,
             handle_iso_payment_details, handle_iso_certificate_update,
             handle_iso_certificate_installation, CertificateInstallationEnds,
             handle_iso_power_delivery, WaitForContactor, ContactorWaitEnds,
             PowerDeliveryGoesOn, handle_iso_current_demand, handle_iso_charging_status,
             handle_iso_metering_receipt, handle_iso_welding_detection, handle_iso_session_stop
        <5> QED
          BY <3>1, <3>2, <4>1, <5>1
      <4> QED
        BY <4>2, <4>3, <4>4
    <3>4. CASE Command
      BY <3>4 DEF Command, handle_session_setup, handle_authorization_response,
         RejectAuthorization, handle_cable_check_finished, handle_ac_contactor_closed, StopHlc,
         EmergencyShutdown, handle_dlink_ready
    <3>5. CASE Connect \/ EndSession \/ UNCHANGED vars
      BY <3>5 DEF Connect, EndSession, vars
    <3> QED
      BY <3>3, <3>4, <3>5 DEF Next
  <2> QED
    BY <2>1, <2>2 DEF TypeOK
<1> QED
  BY <1>1, <1>2, AnswerStep, TypeCorrect, PTL DEF Spec, AuthorizationIsCurrent

\* While the vehicle may select the payment, a contract is on offer over TLS only.
ContractOnOffer ==
    Strict /\ state = 2 /\ "Contract" \in payment_option_list
    => is_tls_connection \/ offer_replaced

LEMMA ContractOnOfferStep ==
  TypeOK /\ Ordered /\ ContractOnOffer /\ [Next]_vars => ContractOnOffer'
<1> SUFFICES ASSUME TypeOK, Ordered, ContractOnOffer, [Next]_vars PROVE ContractOnOffer'
  OBVIOUS
<1>1. ASSUME UNCHANGED <<config, state, payment_option_list, offer_replaced, is_tls_connection>>,
             InSession' => InSession
      PROVE  ContractOnOffer'
  BY <1>1 DEF ContractOnOffer, Strict, config
<1>2. ASSUME state' # 2 \/ ~InSession' PROVE ContractOnOffer'
  BY <1>2 DEF ContractOnOffer, Strict
<1>3. CASE handle_iso_service_discovery
  <2>1. CASE is_tls_connection
    BY <1>3, <2>1 DEF handle_iso_service_discovery, ContractOnOffer
  <2>2. CASE ~is_tls_connection
    <3>1. "Contract" \notin payment_option_list'
      BY <1>3, <2>2 DEF handle_iso_service_discovery, OfferedOptions
    <3> QED
      BY <3>1 DEF ContractOnOffer
  <2> QED
    BY <2>1, <2>2
<1>4. CASE handle_iso_service_detail
  <2>1. PICK code \in {"OK", "FAILED"} :
            \E v \in iso_validate_response_code("ServiceDetail", code) : Reply("ServiceDetail", v, 2)
    BY <1>4, DcStates DEF handle_iso_service_detail
  <2>2. /\ InSession
        /\ UNCHANGED <<config, payment_option_list, offer_replaced, is_tls_connection>>
    BY <1>4 DEF handle_iso_service_detail, InSession, paymentVars
  <2>3. Strict' => "ServiceDetail" \in StateTable[state + 1] /\ state < Len(StateTable)
    BY <2>1, <2>2, Served
  <2>4. Strict' => state = 2
    <3>1. CASE is_dc_charger
      BY <2>3, <3>1, AllowedDc DEF StateTable, TypeOK
    <3>2. CASE ~is_dc_charger
      <4>1. StateTable = iso_ac_states
        BY <3>2 DEF StateTable
      <4>2. state < Len(StateTable) => state \in 0..12
        BY <4>1, Tables DEF TypeOK
      <4> QED
        BY <2>3, <4>1, <4>2, AllowedAc
    <3> QED
      BY <3>1, <3>2
  <2> QED
    BY <2>2, <2>4 DEF ContractOnOffer, Strict, config
<1>5. CASE Request /\ ~handle_iso_service_discovery /\ ~handle_iso_service_detail
  <2>1. CASE \/ handle_iso_certificate_update \/ handle_iso_certificate_installation
             \/ WaitForContactor \/ ContactorWaitEnds
    <3>1. \/ /\ UNCHANGED <<config, state, payment_option_list, offer_replaced, is_tls_connection>>
             /\ InSession
          \/ state' = 4
      BY <2>1, DcStates DEF handle_iso_certificate_update, handle_iso_certificate_installation,
         WaitForContactor, ContactorWaitEnds, Reply, paymentVars, InSession
    <3> QED
      BY <1>1, <1>2, <3>1
  <2>2. ASSUME NEW progress, NEW codes, PowerDelivery(progress, codes) PROVE state' # 2
    BY <2>2, DcStates, AcStates DEF PowerDelivery, Renegotiate, StartCharging, EndCharging, Reply
  <2>3. CASE \/ handle_iso_session_setup \/ handle_iso_payment_details \/ CertificateInstallationEnds
             \/ \E option \in PaymentOptions : handle_iso_payment_service_selection(option)
    <3>1. CASE CertificateInstallationEnds
      BY <1>2, <3>1, InstallationState
    <3>2. CASE ~CertificateInstallationEnds
      <4>1. state' # 2
        BY <2>3, <3>2, DcStates DEF handle_iso_session_setup, handle_iso_payment_details,
           handle_iso_payment_service_selection, Reply
      <4> QED
        BY <1>2, <4>1
    <3> QED
      BY <3>1, <3>2
  <2>4. CASE \/ handle_iso_authorization \/ handle_iso_charge_parameter_discovery
             \/ handle_iso_cable_check \/ handle_iso_pre_charge
    <3>1. CASE handle_iso_authorization
      BY <1>2, <3>1, DcStates DEF handle_iso_authorization, InvalidSignature,
         AnswerAuthorization, AuthorizationNext, Reply
    <3>2. CASE handle_iso_charge_parameter_discovery
      BY <1>2, <3>2, DcStates, AcStates DEF handle_iso_charge_parameter_discovery, Reply
    <3>3. CASE handle_iso_cable_check \/ handle_iso_pre_charge
      BY <1>2, <3>3, DcStates DEF handle_iso_cable_check, handle_iso_pre_charge, Reply
    <3> QED
      BY <2>4, <3>1, <3>2, <3>3
  <2>5. CASE \/ handle_iso_current_demand \/ handle_iso_charging_status
             \/ handle_iso_metering_receipt \/ handle_iso_welding_detection
    <3>1. state' # 2
      BY <2>5, DcStates, AcStates DEF handle_iso_current_demand, handle_iso_charging_status,
         handle_iso_metering_receipt, handle_iso_welding_detection, Reply
    <3> QED
      BY <1>2, <3>1
  <2>6. CASE \E pause \in BOOLEAN : handle_iso_session_stop(pause)
    BY <1>2, <2>6 DEF handle_iso_session_stop, SessionStopEvent, Reply, InSession
  <2>7. CASE \/ \E progress \in ChargeProgress : handle_iso_power_delivery(progress)
             \/ PowerDeliveryGoesOn
    BY <1>2, <2>2, <2>7 DEF handle_iso_power_delivery, PowerDeliveryGoesOn
  <2> QED
    BY <1>5, <2>1, <2>3, <2>4, <2>5, <2>6, <2>7 DEF Request
<1>6. CASE Connect \/ EndSession
  BY <1>2, <1>6, DcStates DEF Connect, EndSession, v2g_ctx_init_charging_state, InSession
<1>7. CASE Command
  <2>1. ASSUME NEW options \in SUBSET PaymentOptions, handle_session_setup(options)
        PROVE  ContractOnOffer'
    BY <2>1 DEF handle_session_setup, replyVars, config, InSession, Strict, ContractOnOffer
  <2>2. \/ UNCHANGED <<config, replyVars, payment_option_list, offer_replaced, is_tls_connection>>
        \/ \E options \in SUBSET PaymentOptions : handle_session_setup(options)
    BY <1>7 DEF Command, handle_authorization_response, RejectAuthorization,
       handle_cable_check_finished, handle_ac_contactor_closed, StopHlc, EmergencyShutdown,
       handle_dlink_ready, paymentVars
  <2> QED
    BY <1>1, <1>2, <2>1, <2>2 DEF replyVars, InSession
<1>8. CASE UNCHANGED vars
  BY <1>1, <1>8 DEF vars, replyVars, paymentVars, InSession
<1> QED
  BY <1>3, <1>4, <1>5, <1>6, <1>7, <1>8 DEF Next

\* A vehicle has just selected a contract, and the connection goes on.
ContractSelected ==
    /\ terminate_connection_on_failed_response
    /\ last_v2g_msg = "PaymentServiceSelection" /\ session = "open" /\ response = "OK"
    /\ state = Dc.PAYMENTDETAILS_CERTINST_CERTUPD

\* It may: the connection is encrypted, or the EVSE manager has replaced the offer.
OverTls == is_tls_connection \/ offer_replaced

\* The selection itself
LEMMA SelectContract ==
  ASSUME TypeOK, Ordered, ContractOnOffer, NEW option \in PaymentOptions,
         handle_iso_payment_service_selection(option), ContractSelected'
  PROVE  OverTls
<1>1. PICK code \in SelectionCodes(option) :
          \E v \in iso_validate_response_code("PaymentServiceSelection", code) :
              Reply("PaymentServiceSelection", v, IF option = "Contract" THEN 3 ELSE 5)
  BY DcStates DEF handle_iso_payment_service_selection
<1>0. state' = 3
  BY DEF ContractSelected, Dc
<1>2. option = "Contract"
  BY <1>0, <1>1 DEF Reply
<1>3. InSession /\ UNCHANGED config /\ Strict'
  BY DEF handle_iso_payment_service_selection, ContractSelected, InSession, Strict, config
<1>4. code \in {"OK", "FAILED"}
  BY <1>1 DEF SelectionCodes
<1>5. /\ Strict /\ code = "OK" /\ "PaymentServiceSelection" \in StateTable[state + 1]
      /\ state < Len(StateTable)
  BY <1>1, <1>2, <1>3, <1>4, Served
<1>6. state = 2
  <2>1. CASE is_dc_charger
    BY <1>5, <2>1, AllowedDc DEF StateTable, TypeOK
  <2>2. CASE ~is_dc_charger
    <3>1. StateTable = iso_ac_states
      BY <2>2 DEF StateTable
    <3>2. state \in 0..12
      BY <1>5, <3>1, Tables DEF TypeOK
    <3> QED
      BY <1>5, <3>1, <3>2, AllowedAc
  <2> QED
    BY <2>1, <2>2
<1>7. "Contract" \in payment_option_list
  BY <1>1, <1>2, <1>5 DEF SelectionCodes
<1> QED
  BY <1>5, <1>6, <1>7 DEF ContractOnOffer, OverTls

\* Only a selection leads to it.
LEMMA ContractSelectedStep ==
  ASSUME TypeOK, [Next]_vars, ContractSelected'
  PROVE  /\ OverTls => OverTls'
         /\ \/ ContractSelected
            \/ \E option \in PaymentOptions : handle_iso_payment_service_selection(option)
<1>1. ASSUME UNCHANGED <<config, replyVars, is_tls_connection, offer_replaced>>
      PROVE  (OverTls => OverTls') /\ ContractSelected
  BY <1>1 DEF ContractSelected, config, replyVars, OverTls
<1>2. CASE Connect \/ EndSession
  BY <1>2 DEF Connect, EndSession, v2g_ctx_init_charging_state, ContractSelected
<1>3. CASE Request
  <2>1. ASSUME NEW progress, NEW codes, PowerDelivery(progress, codes) PROVE FALSE
    BY <2>1 DEF PowerDelivery, Renegotiate, StartCharging, EndCharging, Reply, ContractSelected
  <2>2. CASE \/ handle_iso_session_setup \/ handle_iso_service_discovery
             \/ handle_iso_service_detail \/ handle_iso_payment_details
             \/ handle_iso_certificate_update \/ handle_iso_certificate_installation
             \/ CertificateInstallationEnds
    BY <2>2 DEF handle_iso_session_setup, handle_iso_service_discovery,
       handle_iso_service_detail, handle_iso_payment_details, handle_iso_certificate_update,
       handle_iso_certificate_installation, CertificateInstallationEnds, Reply, ContractSelected
  <2>3. CASE handle_iso_authorization \/ handle_iso_charge_parameter_discovery
    BY <2>3 DEF handle_iso_authorization, InvalidSignature, AnswerAuthorization,
       handle_iso_charge_parameter_discovery, Reply, ContractSelected
  <2>4. CASE \/ handle_iso_cable_check \/ handle_iso_pre_charge
             \/ WaitForContactor \/ ContactorWaitEnds
    BY <2>4 DEF handle_iso_cable_check, handle_iso_pre_charge, WaitForContactor,
       ContactorWaitEnds, Reply, ContractSelected
  <2>5. CASE \/ handle_iso_current_demand \/ handle_iso_charging_status
             \/ handle_iso_metering_receipt \/ handle_iso_welding_detection
             \/ \E pause \in BOOLEAN : handle_iso_session_stop(pause)
    BY <2>5 DEF handle_iso_current_demand, handle_iso_charging_status,
       handle_iso_metering_receipt, handle_iso_welding_detection, handle_iso_session_stop,
       SessionStopEvent, Reply, ContractSelected
  <2>6. CASE \/ \E progress \in ChargeProgress : handle_iso_power_delivery(progress)
             \/ PowerDeliveryGoesOn
    BY <2>1, <2>6 DEF handle_iso_power_delivery, PowerDeliveryGoesOn
  <2>7. CASE \E option \in PaymentOptions : handle_iso_payment_service_selection(option)
    BY <2>7 DEF handle_iso_payment_service_selection, OverTls
  <2> QED
    BY <1>3, <2>2, <2>3, <2>4, <2>5, <2>6, <2>7 DEF Request
<1>4. CASE Command
  <2>1. ASSUME NEW options \in SUBSET PaymentOptions, handle_session_setup(options)
        PROVE  (OverTls => OverTls') /\ ContractSelected
    BY <2>1 DEF handle_session_setup, replyVars, config, InSession, ContractSelected, OverTls
  <2>2. \/ UNCHANGED <<config, replyVars, is_tls_connection, offer_replaced>>
        \/ \E options \in SUBSET PaymentOptions : handle_session_setup(options)
    BY <1>4 DEF Command, handle_authorization_response, RejectAuthorization,
       handle_cable_check_finished, handle_ac_contactor_closed, StopHlc, EmergencyShutdown,
       handle_dlink_ready, paymentVars
  <2> QED
    BY <1>1, <2>1, <2>2
<1>5. CASE UNCHANGED vars
  BY <1>1, <1>5 DEF vars, paymentVars
<1> QED
  BY <1>2, <1>3, <1>4, <1>5 DEF Next

\* When failed responses end the connection, a contract is selected over TLS only
\* (ContractSelectedOverTls): the selection is served in one state, which service
\* discovery leads to, and which keeps the offer.
THEOREM ContractsOverTls == Spec => []ContractSelectedOverTls
<1>1. Init => Ordered /\ ContractOnOffer /\ ContractSelectedOverTls
  BY DEF Init, Ordered, PhasesInOrder, StateInTable, ContractOnOffer, Strict, InSession,
         ContractSelectedOverTls
<1>2. ContractSelectedOverTls <=> (ContractSelected => OverTls)
  BY DEF ContractSelectedOverTls, ContractSelected, OverTls
<1>3. TypeOK /\ Ordered /\ ContractOnOffer /\ ContractSelectedOverTls /\ [Next]_vars
      => ContractSelectedOverTls'
  <2> SUFFICES ASSUME TypeOK, Ordered, ContractOnOffer, ContractSelectedOverTls, [Next]_vars,
                      ContractSelected'
               PROVE  OverTls'
    BY DEF ContractSelectedOverTls, ContractSelected, OverTls
  <2> QED
    BY <1>2, SelectContract, ContractSelectedStep
<1> QED
  BY <1>1, <1>3, OrderedStep, ContractOnOfferStep, TypeCorrect, PTL DEF Spec

-----------------------------------------------------------------------------
(***************************************************************************)
(* Grants rest on what holds now                                           *)
(***************************************************************************)
\* With DC, a finished cable check ended well in this session and since the last
\* renegotiation.
IsolationKept == is_dc_charger /\ isolation_finished => isolation_checked

\* The requests that the two properties are not about
OtherRequests == Messages \ {"CableCheck", "PowerDelivery"}

\* A step that replies to CableCheck or PowerDelivery is one of three handlers.  The others
\* reply to something else, or leave the state of the message sequence alone, or end the
\* session.
LEMMA WhoReplies ==
  ASSUME [Next]_vars
  PROVE  \/ last_v2g_msg' \in OtherRequests
         \/ UNCHANGED <<state, last_v2g_msg>>
         \/ handle_iso_cable_check
         \/ \E progress \in ChargeProgress : handle_iso_power_delivery(progress)
         \/ PowerDeliveryGoesOn
<1>1. CASE Connect \/ EndSession
  BY <1>1 DEF Connect, EndSession, v2g_ctx_init_charging_state, OtherRequests, Messages
<1>2. CASE Request
  BY <1>2 DEF Request, Reply, handle_iso_session_setup, handle_iso_service_discovery,
     handle_iso_service_detail, handle_iso_payment_service_selection, handle_iso_payment_details,
     handle_iso_certificate_update, handle_iso_certificate_installation,
     CertificateInstallationEnds, handle_iso_authorization, InvalidSignature, AnswerAuthorization,
     handle_iso_charge_parameter_discovery, handle_iso_pre_charge, WaitForContactor,
     ContactorWaitEnds, handle_iso_current_demand, handle_iso_charging_status,
     handle_iso_metering_receipt, handle_iso_welding_detection, handle_iso_session_stop,
     OtherRequests, Messages
<1>3. CASE Command
  BY <1>3 DEF Command, handle_session_setup, handle_authorization_response, RejectAuthorization,
     handle_cable_check_finished, handle_ac_contactor_closed, StopHlc, EmergencyShutdown,
     handle_dlink_ready, replyVars
<1>4. CASE UNCHANGED vars
  BY <1>4 DEF vars, replyVars
<1> QED
  BY <1>1, <1>2, <1>3, <1>4 DEF Next

LEMMA IsolationStep == TypeOK /\ IsolationKept /\ [Next]_vars => IsolationKept'
<1> SUFFICES ASSUME TypeOK, IsolationKept, [Next]_vars PROVE IsolationKept'
  OBVIOUS
<1>1. UNCHANGED is_dc_charger
  BY DEF Next, vars, config, Connect, EndSession, Request, Command, handle_iso_session_setup,
     handle_iso_service_discovery, handle_iso_service_detail,
     handle_iso_payment_service_selection, handle_iso_payment_details,
     handle_iso_certificate_update, handle_iso_certificate_installation,
     CertificateInstallationEnds, handle_iso_authorization, handle_iso_charge_parameter_discovery,
     handle_iso_cable_check, handle_iso_pre_charge, handle_iso_power_delivery, PowerDelivery,
     WaitForContactor, ContactorWaitEnds, PowerDeliveryGoesOn, handle_iso_current_demand,
     handle_iso_charging_status,
     handle_iso_metering_receipt, handle_iso_welding_detection, handle_iso_session_stop,
     handle_session_setup, handle_authorization_response, RejectAuthorization,
     handle_cable_check_finished, handle_ac_contactor_closed, StopHlc, EmergencyShutdown,
     handle_dlink_ready
<1>2. ASSUME UNCHANGED <<isolation_finished, isolation_checked>> PROVE IsolationKept'
  BY <1>1, <1>2 DEF IsolationKept
<1>3. CASE EndSession
  BY <1>3, Zenon DEF EndSession, v2g_ctx_init_charging_values, IsolationKept
<1>4. ASSUME NEW progress, NEW codes, PowerDelivery(progress, codes) PROVE IsolationKept'
  <2>1. PICK v : Renegotiate(v) \/ StartCharging(v) \/ EndCharging(progress, v)
    BY <1>4 DEF PowerDelivery
  <2>2. CASE Renegotiate(v)
    BY <1>1, <2>2, Zenon DEF Renegotiate, IsolationKept
  <2>3. CASE StartCharging(v) \/ EndCharging(progress, v)
    BY <1>2, <2>3 DEF StartCharging, EndCharging
  <2> QED
    BY <2>1, <2>2, <2>3
<1>5. CASE Request
  BY <1>2, <1>4, <1>5 DEF Request, energyVars, handle_iso_session_setup,
     handle_iso_service_discovery, handle_iso_service_detail,
     handle_iso_payment_service_selection, handle_iso_payment_details,
     handle_iso_certificate_update, handle_iso_certificate_installation,
     CertificateInstallationEnds, handle_iso_authorization, handle_iso_charge_parameter_discovery,
     handle_iso_cable_check, handle_iso_pre_charge, handle_iso_power_delivery,
     WaitForContactor, ContactorWaitEnds, PowerDeliveryGoesOn, handle_iso_current_demand,
     handle_iso_charging_status,
     handle_iso_metering_receipt, handle_iso_welding_detection, handle_iso_session_stop
<1>6. CASE Command
  <2>1. ASSUME NEW status \in BOOLEAN, handle_cable_check_finished(status) PROVE IsolationKept'
    BY <2>1, Zenon DEF handle_cable_check_finished, IsolationKept
  <2> QED
    BY <1>2, <1>6, <2>1 DEF Command, energyVars, handle_session_setup,
       handle_authorization_response, RejectAuthorization, handle_ac_contactor_closed, StopHlc,
       EmergencyShutdown, handle_dlink_ready
<1>7. CASE Connect \/ UNCHANGED vars
  BY <1>2, <1>7 DEF Connect, vars, energyVars
<1> QED
  BY <1>3, <1>5, <1>6, <1>7 DEF Next

\* A good response in a session that goes on was validated from a good code.
LEMMA GoodFromGood ==
  ASSUME NEW request, NEW code, NEW v \in iso_validate_response_code(request, code),
         v.code = "OK", v.event = "NO_EVENT"
  PROVE  code = "OK" /\ ~Aborting /\ ~is_connection_terminated
<1>1. CASE is_connection_terminated
  BY <1>1 DEF iso_validate_response_code
<1>2. CASE ~is_connection_terminated
  <2>1. PICK valid \in iso_validate_state(request), known \in BOOLEAN :
           LET failed == \/ code = "FAILED" \/ Aborting \/ ~valid
                         \/ request # "SessionSetup" /\ ~known
           IN  v.code = IF failed THEN "FAILED" ELSE code
    BY <1>2 DEF iso_validate_response_code
  <2> QED
    BY <1>2, <2>1
<1> QED
  BY <1>1, <1>2

\* PowerDelivery starts a charge with AC only by StartCharging.
LEMMA StartsCharging ==
  ASSUME NEW progress \in ChargeProgress, NEW codes, PowerDelivery(progress, codes),
         ~is_dc_charger, state' = Ac.CHARGINGSTATUS, session' = "open", response' = "OK"
  PROVE  progress = "Start" /\ \E code \in codes : code = "OK" /\ ~Aborting /\ ~is_connection_terminated
<1>0. PICK code \in codes : \E v \in iso_validate_response_code("PowerDelivery", code) :
         \/ Renegotiate(v)
         \/ progress = "Start" /\ StartCharging(v)
         \/ EndCharging(progress, v)
  BY DEF PowerDelivery
<1>1. PICK v \in iso_validate_response_code("PowerDelivery", code) :
         \/ Renegotiate(v)
         \/ progress = "Start" /\ StartCharging(v)
         \/ EndCharging(progress, v)
  BY <1>0
<1>2. progress = "Start" /\ StartCharging(v)
  BY <1>1, AcStates, DcStates DEF Renegotiate, EndCharging, Reply
<1>3. v.code = "OK" /\ v.event = "NO_EVENT"
  BY <1>2 DEF StartCharging, Reply
<1> QED
  BY <1>2, <1>3, GoodFromGood

\* An abort that ended the wait for the contactor is still there, or has been withdrawn.
AbortStays == contactor_wait = "aborted" => Aborting \/ is_connection_terminated

LEMMA AbortStaysStep == TypeOK /\ AbortStays /\ [Next]_vars => AbortStays'
<1> SUFFICES ASSUME TypeOK, AbortStays, [Next]_vars, contactor_wait' = "aborted"
             PROVE  Aborting' \/ is_connection_terminated'
  BY DEF AbortStays
<1>1. ASSUME UNCHANGED <<contactor_wait, stop_hlc, intl_emergency_shutdown>>,
             is_connection_terminated => is_connection_terminated'
      PROVE  Aborting' \/ is_connection_terminated'
  BY <1>1 DEF AbortStays, Aborting
<1>2. CASE Connect \/ EndSession
  <2>1. contactor_wait' = "none"
    BY <1>2 DEF Connect, EndSession, energyVars, TypeOK
  <2> QED
    BY <2>1
<1>3. CASE CertificateInstallationEnds
  <2>1. contactor_wait' = "none"
    BY <1>3 DEF CertificateInstallationEnds, energyVars, TypeOK
  <2> QED
    BY <2>1
<1>4. CASE ContactorWaitEnds
  <2>1. UNCHANGED <<stop_hlc, intl_emergency_shutdown, is_connection_terminated>>
        /\ (Aborting \/ is_connection_terminated)
    BY <1>4 DEF ContactorWaitEnds, WaitEnds, abortVars
  <2> QED
    BY <2>1 DEF Aborting
<1>5. ASSUME NEW progress, NEW codes, PowerDelivery(progress, codes) PROVE FALSE
  BY <1>5 DEF PowerDelivery
<1>6. CASE Request /\ ~CertificateInstallationEnds /\ ~ContactorWaitEnds
  <2>1. UNCHANGED <<contactor_wait, stop_hlc, intl_emergency_shutdown, is_connection_terminated>>
    BY <1>5, <1>6 DEF Request, energyVars, abortVars, handle_iso_session_setup,
       handle_iso_service_discovery, handle_iso_service_detail,
       handle_iso_payment_service_selection, handle_iso_payment_details,
       handle_iso_certificate_update, handle_iso_certificate_installation,
       handle_iso_authorization, handle_iso_charge_parameter_discovery, handle_iso_cable_check,
       handle_iso_pre_charge, handle_iso_power_delivery, WaitForContactor, PowerDeliveryGoesOn,
       handle_iso_current_demand, handle_iso_charging_status, handle_iso_metering_receipt,
       handle_iso_welding_detection, handle_iso_session_stop
  <2> QED
    BY <1>1, <2>1
<1>7. CASE Command
  <2>1. ASSUME NEW stop \in BOOLEAN, StopHlc(stop)
        PROVE  Aborting' \/ is_connection_terminated'
    BY <2>1 DEF StopHlc, AbortStays, Aborting, TypeOK
  <2>2. CASE EmergencyShutdown \/ handle_dlink_ready
    BY <2>2 DEF EmergencyShutdown, handle_dlink_ready, Aborting
  <2>3. CASE ~EmergencyShutdown /\ ~handle_dlink_ready /\ ~\E stop \in BOOLEAN : StopHlc(stop)
    <3>1. UNCHANGED <<contactor_wait, stop_hlc, intl_emergency_shutdown, is_connection_terminated>>
      BY <1>7, <2>3 DEF Command, energyVars, abortVars, handle_session_setup,
         handle_authorization_response, RejectAuthorization, handle_cable_check_finished,
         handle_ac_contactor_closed
    <3> QED
      BY <1>1, <3>1
  <2> QED
    BY <2>1, <2>2, <2>3
<1>8. CASE UNCHANGED vars
  BY <1>1, <1>8 DEF vars, energyVars, abortVars
<1> QED
  BY <1>2, <1>3, <1>4, <1>6, <1>7, <1>8 DEF Next

\* GrantsAreCurrent: whatever comes late, is refused or renegotiated, external payment is
\* authorized by an answer given since it was selected, a DC vehicle passes the cable check
\* only on a result of this session and of the parameters in force, and an AC vehicle
\* charges only after the contactor was found closed, whatever ended the wait for it and
\* whichever flags have changed between the wait and the validation of the response, but
\* for a stop that ended the wait and was withdrawn before the validation.
THEOREM GrantsRestOnNow == Spec => GrantsAreCurrent
<1> DEFINE CableStep == /\ is_dc_charger /\ last_v2g_msg' = "CableCheck"
                        /\ state # Dc.PRECHARGE /\ state' = Dc.PRECHARGE
                        => isolation_checked
           ContactorStep == /\ ~is_dc_charger /\ last_v2g_msg' = "PowerDelivery"
                            /\ last_v2g_msg # "PowerDelivery"
                            /\ state' = Ac.CHARGINGSTATUS /\ session' = "open" /\ response' = "OK"
                            => IF session = "open" THEN contactor_is_closed
                               ELSE contactor_wait \in {"closed", "withdrawn"}
<1>1. Init => IsolationKept /\ AbortStays
  BY Zenon DEF Init, IsolationKept, AbortStays
<1>2. IsolationKept /\ [Next]_vars => CableStep
  <2> SUFFICES ASSUME IsolationKept, [Next]_vars, is_dc_charger, last_v2g_msg' = "CableCheck",
                      state # Dc.PRECHARGE, state' = Dc.PRECHARGE
               PROVE  isolation_checked
    OBVIOUS
  <2>1. handle_iso_cable_check
    BY WhoReplies DEF OtherRequests, handle_iso_power_delivery, PowerDeliveryGoesOn, PowerDelivery,
       Renegotiate, StartCharging, EndCharging, Reply
  <2>2. isolation_finished
    <3>1. state' = IF isolation_finished THEN Dc.PRECHARGE ELSE Dc.CABLECHECK
      BY <2>1, Zenon DEF handle_iso_cable_check, Reply
    <3>2. Dc.PRECHARGE # Dc.CABLECHECK
      BY DcStates
    <3> QED
      BY <3>1, <3>2, Zenon
  <2> QED
    BY <2>2, Zenon DEF IsolationKept
<1>3. TypeOK /\ AbortStays /\ [Next]_vars => ContactorStep
  <2> SUFFICES ASSUME TypeOK, AbortStays, [Next]_vars,
                      ~is_dc_charger, last_v2g_msg' = "PowerDelivery",
                      last_v2g_msg # "PowerDelivery", state' = Ac.CHARGINGSTATUS,
                      session' = "open", response' = "OK"
               PROVE  IF session = "open" THEN contactor_is_closed
                      ELSE contactor_wait \in {"closed", "withdrawn"}
    OBVIOUS
  <2>1. \/ \E progress \in ChargeProgress : handle_iso_power_delivery(progress)
        \/ PowerDeliveryGoesOn
    BY WhoReplies DEF OtherRequests, handle_iso_cable_check, Reply
  <2>2. ASSUME NEW progress \in ChargeProgress, handle_iso_power_delivery(progress)
        PROVE  session = "open" /\ contactor_is_closed
    <3>1. progress = "Start"
      BY <2>2, StartsCharging DEF handle_iso_power_delivery
    <3> QED
      BY <2>2, <3>1 DEF handle_iso_power_delivery, ContactorNeeded
  <2>3. CASE PowerDeliveryGoesOn
    <3>1. PowerDelivery("Start", ContactorCodes) /\ "Start" \in ChargeProgress
      BY <2>3 DEF PowerDeliveryGoesOn, ChargeProgress
    <3>2. "OK" \in ContactorCodes /\ ~Aborting /\ ~is_connection_terminated
      BY <3>1, StartsCharging
    <3>3. contactor_wait # "timeout" /\ contactor_wait # "aborted"
      BY <3>2 DEF ContactorCodes, AbortStays
    <3> QED
      BY <2>3, <3>3 DEF PowerDeliveryGoesOn, TypeOK
  <2> QED
    BY <2>1, <2>2, <2>3
<1>4. Spec => [](TypeOK /\ IsolationKept /\ AbortStays)
  BY <1>1, IsolationStep, AbortStaysStep, TypeCorrect, PTL DEF Spec
<1>5. TypeOK /\ IsolationKept /\ AbortStays /\ [Next]_vars
      => [CableStep]_vars /\ [ContactorStep]_vars
  BY <1>2, <1>3
<1> QED
  BY <1>4, <1>5, AuthorizationOfThisSession, PTL
     DEF Spec, GrantsAreCurrent, CableCheckIsCurrent, ContactorBeforeCharge

-----------------------------------------------------------------------------
(***************************************************************************)
(* The base server of the test cases                                       *)
(***************************************************************************)
\* Every request that the table of DC chargers allows is in order for the test cases, too.
LEMMA AllowedIsInOrder ==
  ASSUME TypeOK, WithinTests, InSession, NEW request \in Messages,
         TRUE \in iso_validate_state(request)
  PROVE  Tested!InOrder(V2gMsg[request])
<1>1. request \in iso_dc_states[state + 1]
  <2>1. StateTable = iso_dc_states /\ state < Len(StateTable)
    <3>1. StateTable = iso_dc_states
      BY DEF StateTable, WithinTests
    <3>2. state < 15
      BY DEF TypeOK
    <3> QED
      BY <3>1, <3>2, Tables
  <2>2. iso_validate_state(request) = {(request \in iso_dc_states[state + 1])}
    BY <2>1 DEF iso_validate_state
  <2> QED
    BY <2>2, Zenon
<1>2. state \in 0..14 \ {3, 12}
  BY DcStates DEF TypeOK, WithinTests
<1>3. StateOf = V2gMsg[Expected[state + 1]]
  BY DEF StateOf, InSession
<1> USE <1>1, <1>2, <1>3 DEF Tested!InOrder, Tested!Msg, V2gMsg, Expected
<1>4. CASE state \in 0..2
  BY <1>4 DEF iso_dc_states
<1>5. CASE state \in 4..6
  BY <1>5 DEF iso_dc_states
<1>6. CASE state \in 7..9
  BY <1>6 DEF iso_dc_states
<1>7. CASE state \in 10..14
  BY <1>7 DEF iso_dc_states
<1> QED
  BY <1>4, <1>5, <1>6, <1>7

\* Every way to answer a request is one of the test cases' base server.
LEMMA AnswerIsKnown ==
  ASSUME TypeOK, WithinTests, InSession,
         NEW request \in Messages, NEW code \in {"OK", "FAILED"},
         NEW v \in iso_validate_response_code(request, code)
  PROVE  \E w \in Tested!validate_response_code(V2gMsg[request]) : w.event = v.event
<1> DEFINE m == V2gMsg[request]
           Event(ok) == CASE is_connection_terminated -> "TERMINATE_CONNECTION"
                          [] ~is_connection_terminated /\ ~ok
                             /\ terminate_connection_on_failed_response -> "SEND_AND_TERMINATE"
                          [] OTHER -> "NO_EVENT"
           w(ok) == [ok |-> ok, event |-> Event(ok)]
<1>1. w(FALSE) \in Tested!validate_response_code(m)
  BY DEF Tested!validate_response_code
<1>2. CASE is_connection_terminated
  <2>1. v.event = "TERMINATE_CONNECTION"
    BY <1>2 DEF iso_validate_response_code
  <2> QED
    BY <1>1, <1>2, <2>1
<1>3. CASE ~is_connection_terminated
  <2>1. PICK valid \in iso_validate_state(request), known \in BOOLEAN :
            LET failed == \/ code = "FAILED" \/ Aborting \/ ~valid
                          \/ request # "SessionSetup" /\ ~known
            IN  v = [code  |-> IF failed THEN "FAILED" ELSE code,
                     event |-> IF failed /\ terminate_connection_on_failed_response
                               THEN "SEND_AND_TERMINATE" ELSE "NO_EVENT"]
    BY <1>3 DEF iso_validate_response_code
  <2> DEFINE failed == \/ code = "FAILED" \/ Aborting \/ ~valid
                       \/ request # "SessionSetup" /\ ~known
  <2>2. v.event = IF failed /\ terminate_connection_on_failed_response
                  THEN "SEND_AND_TERMINATE" ELSE "NO_EVENT"
    BY <2>1
  <2>3. CASE failed
    BY <1>1, <1>3, <2>2, <2>3
  <2>4. CASE ~failed
    <3>1. TRUE \in iso_validate_state(request)
      BY <2>1, <2>4 DEF iso_validate_state
    <3>2. Tested!InOrder(m)
      BY <3>1, AllowedIsInOrder
    <3>3. w(TRUE) \in Tested!validate_response_code(m)
      BY <3>2 DEF Tested!validate_response_code
    <3>4. v.event = "NO_EVENT"
      BY <2>2, <2>4
    <3> QED
      BY <1>3, <3>3, <3>4
  <2> QED
    BY <2>3, <2>4
<1> QED
  BY <1>2, <1>3

\* A step of this server does not touch what belongs to a test.
LEMMA UntestedUnchanged ==
  ASSUME UNCHANGED <<config, is_connection_terminated>>
  PROVE  Tested!Talks /\ UNCHANGED <<Tested!linkVars, Tested!testVars, Tested!config>>
<1>1. Tested!Talks
  <2>1. NotTested.talked = FALSE /\ NotTested.last = 0
    BY DEF NotTested
  <2>2. NotTested \in [last : Nat, talked : BOOLEAN, stopped : Nat]
    BY DEF NotTested
  <2>3. (NotTested.talked \/ NotTested.last > 0) = FALSE
    BY <2>1
  <2>4. NotTested = [NotTested EXCEPT !.talked = FALSE]
    BY <2>1, <2>2
  <2>5. NotTested' = NotTested
    BY DEF NotTested
  <2> QED
    BY <2>3, <2>4, <2>5 DEF Tested!Talks
<1>2. UNCHANGED <<Tested!linkVars, Tested!testVars, Tested!config>>
  BY DEF Tested!linkVars, Tested!testVars, Tested!config, NotTested, config
<1> QED
  BY <1>1, <1>2

\* The next state is one which the test cases reckon with.
Follows(request, next) ==
  /\ request \in Messages \ {"Unknown", "PaymentDetails", "CertificateUpdate", "ChargingStatus",
                             "MeteringReceipt", "SessionStop"}
  /\ next \in 0..14
  /\ V2gMsg[Expected[next + 1]] \in Tested!NextStates(V2gMsg[request])

\* The states that the handlers set on DC chargers, with external payment
LEMMA NextFollows ==
  /\ Follows("SessionSetup", Dc.SERVICEDISCOVERY)
  /\ Follows("ServiceDiscovery", Dc.SVCDETAIL_PAYMENTSVCSEL)
  /\ Follows("ServiceDetail", Dc.SVCDETAIL_PAYMENTSVCSEL)
  /\ Follows("PaymentServiceSelection", Dc.AUTHORIZATION)
  /\ Follows("CertificateInstallation", Dc.PAYMENTDETAILS)
  /\ Follows("Authorization", Dc.AUTHORIZATION)
  /\ Follows("Authorization", Dc.CHARGEPARAMETERDISCOVERY)
  /\ Follows("ChargeParameterDiscovery", Dc.CHARGEPARAMETERDISCOVERY)
  /\ Follows("ChargeParameterDiscovery", Dc.CABLECHECK)
  /\ Follows("CableCheck", Dc.CABLECHECK)
  /\ Follows("CableCheck", Dc.PRECHARGE)
  /\ Follows("PreCharge", Dc.PRECHARGE_POWERDELIVERY)
  /\ Follows("PowerDelivery", Dc.WELDINGDETECTION_SESSIONSTOP)
  /\ Follows("CurrentDemand", Dc.CURRENTDEMAND_POWERDELIVERY)
  /\ Follows("WeldingDetection", Dc.WELDINGDETECTION_SESSIONSTOP)
  /\ last_v2g_msg \in Messages \ {"CurrentDemand"}
     => Follows("PowerDelivery", Dc.CURRENTDEMAND)
  /\ last_v2g_msg = "CurrentDemand" => Follows("PowerDelivery", Dc.CHARGEPARAMETERDISCOVERY)
BY DEF Follows, Messages, Dc, V2gMsg, Expected, Tested!NextStates, Tested!Msg

\* What a handler must show: that its next state is one which the test cases reckon with.
LEMMA ServedAsExpected ==
  ASSUME TypeOK, WithinTests, InSession, UNCHANGED <<config, is_connection_terminated>>,
         NEW request, NEW code \in {"OK", "FAILED"}, NEW next, Follows(request, next),
         NEW v \in iso_validate_response_code(request, code), NEW sent, sent.event = v.event,
         Reply(request, sent, next)
  PROVE  ServedByBase
<1> USE DEF Follows
<1> DEFINE m == V2gMsg[request]
<1>1. m \in {1, 2, 3, 4, 6, 7, 10, 12, 13, 14, 15, 16}
  BY DEF V2gMsg, Messages
<1>2. m \in Tested!Requests
  <2>1. {1, 2, 3, 4, 6, 7, 10, 12, 13, 14, 15, 16} \subseteq Tested!Requests
    BY DEF Tested!Requests, Tested!Msg
  <2> QED
    BY <1>1, <2>1
<1>3. ~Tested!Ignored(m)
  BY <1>1 DEF Tested!Ignored, Tested!Msg
<1>4. PICK w \in Tested!validate_response_code(m) : w.event = v.event
  BY AnswerIsKnown
<1>5. Tested!Reply(m, w.event, V2gMsg[Expected[next + 1]])
  <2>1. v.event \in {"NO_EVENT", "SEND_AND_TERMINATE", "TERMINATE_CONNECTION"}
    BY ValidatedType DEF Results
  <2>2. SessionOf[session'] = IF v.event \in {"SEND_AND_TERMINATE", "TERMINATE_CONNECTION"}
                              THEN "closing" ELSE "open"
    BY <2>1 DEF Reply, SessionOf
  <2>3. V2gMsg[last_v2g_msg'] = m /\ state' = next /\ v.event # "IGNORE_MSG"
    BY <2>1 DEF Reply
  <2>4. StateOf' = V2gMsg[Expected[next + 1]]
    BY <2>3 DEF Reply, StateOf
  <2> QED
    BY <1>4, <2>2, <2>3, <2>4 DEF Tested!Reply
<1>6. Tested!Talks /\ UNCHANGED <<Tested!linkVars, Tested!testVars, Tested!config>>
  BY UntestedUnchanged
<1>7. Tested!BaseHandles(m)
  BY <1>3, <1>4, <1>5, <1>6 DEF Tested!BaseHandles
<1>8. m # V2gMsg.SessionStop
  BY <1>1 DEF V2gMsg
<1>9. m = V2gMsg[last_v2g_msg']
  BY DEF Reply
<1> QED
  BY <1>2, <1>6, <1>7, <1>8, <1>9 DEF ServedByBase

\* After the response to SessionStop the connection ends, for the test cases, too.
LEMMA StopIsServed ==
  ASSUME TypeOK, NEW pause \in BOOLEAN, handle_iso_session_stop(pause)
  PROVE  ServedByBase
<1>1. session = "open" /\ session' = "ending" /\ last_v2g_msg' = "SessionStop"
  BY DEF handle_iso_session_stop, SessionStopEvent, Reply
<1>2. UNCHANGED <<config, is_connection_terminated>>
  BY DEF handle_iso_session_stop, abortVars
<1>3. V2gMsg.SessionStop = 17 /\ 17 \in Tested!Requests /\ V2gMsg[last_v2g_msg'] = 17
  BY <1>1 DEF V2gMsg, Tested!Requests, Tested!Msg
<1>4. Tested!Reply(Tested!Msg.SESSION_STOP, "SEND_AND_TERMINATE", Tested!Msg.UNKNOWN)
  BY <1>1 DEF Tested!Reply, Tested!Msg, V2gMsg, StateOf, SessionOf
<1>5. NotTested' = [NotTested EXCEPT !.stopped = 0]
  <2>1. NotTested \in [last : Nat, talked : BOOLEAN, stopped : Nat] /\ NotTested.stopped = 0
    BY DEF NotTested
  <2>2. NotTested' = NotTested
    BY DEF NotTested
  <2> QED
    BY <2>1, <2>2
<1>6. UNCHANGED <<Tested!linkVars, Tested!config>>
  BY <1>2 DEF Tested!linkVars, Tested!config, config
<1>7. Tested!HandleSessionStop(FALSE)
  BY <1>4, <1>5, <1>6 DEF Tested!HandleSessionStop, NotTested
<1> QED
  BY <1>1, <1>3, <1>6, <1>7 DEF ServedByBase, InSession

\* A charge starts, is negotiated anew or ends as the test cases expect.
LEMMA PowerDeliveryIsServed ==
  ASSUME TypeOK, WithinTests, InSession,
         NEW progress \in ChargeProgress, NEW codes \in SUBSET {"OK", "FAILED"},
         PowerDelivery(progress, codes)
  PROVE  ServedByBase
<1>1. UNCHANGED <<config, is_connection_terminated>>
  BY DEF PowerDelivery, abortVars
<1>2. PICK code \in codes :
          \E v \in iso_validate_response_code("PowerDelivery", code) :
             \/ AfterCharging /\ Renegotiate(v)
             \/ ~AfterCharging /\ StartCharging(v)
             \/ EndCharging(progress, v)
  BY DEF PowerDelivery
<1>3. PICK v \in iso_validate_response_code("PowerDelivery", code) :
             \/ AfterCharging /\ Renegotiate(v)
             \/ ~AfterCharging /\ StartCharging(v)
             \/ EndCharging(progress, v)
  BY <1>2
<1>4. CASE AfterCharging /\ Renegotiate(v)
  <2>1. Reply("PowerDelivery", v, Dc.CHARGEPARAMETERDISCOVERY)
    BY <1>4 DEF Renegotiate
  <2>2. last_v2g_msg = "CurrentDemand"
    BY <1>4 DEF AfterCharging, WithinTests
  <2>3. Follows("PowerDelivery", Dc.CHARGEPARAMETERDISCOVERY)
    BY <2>2, NextFollows
  <2> QED
    BY <1>1, <2>1, <2>3, ServedAsExpected
<1>5. CASE ~AfterCharging /\ StartCharging(v)
  <2>1. Reply("PowerDelivery", v, Dc.CURRENTDEMAND)
    BY <1>5 DEF StartCharging, WithinTests
  <2>2. Follows("PowerDelivery", Dc.CURRENTDEMAND)
    BY <1>5, NextFollows DEF AfterCharging, TypeOK
  <2> QED
    BY <1>1, <2>1, <2>2, ServedAsExpected
<1>6. CASE EndCharging(progress, v)
  <2> DEFINE sent == [v EXCEPT !.code = IF progress = "Stop" THEN v.code ELSE "FAILED"]
  <2>1. Reply("PowerDelivery", sent, Dc.WELDINGDETECTION_SESSIONSTOP)
    BY <1>6 DEF EndCharging, WithinTests
  <2>2. sent.event = v.event
    BY ValidatedType DEF Results
  <2>3. Follows("PowerDelivery", Dc.WELDINGDETECTION_SESSIONSTOP)
    BY NextFollows
  <2> HIDE DEF sent
  <2> QED
    BY <1>1, <2>1, <2>2, <2>3, ServedAsExpected
<1> QED
  BY <1>3, <1>4, <1>5, <1>6

\* What the test cases see of a step that changes none of this: nothing.
Unseen ==
  /\ UNCHANGED <<config, is_connection_terminated, state, last_v2g_msg>>
  /\ \/ UNCHANGED session
     \/ session = "open" /\ session' \in {"installing", "closing"}
     \/ session = "closing" /\ session' = "delivering"

\* An installation of certificates ends as the test cases expect.
LEMMA InstallationIsServed ==
  ASSUME TypeOK, WithinTests, CertificateInstallationEnds
  PROVE  ServedByBase
<1>1. InSession /\ UNCHANGED <<config, is_connection_terminated>>
  BY DEF CertificateInstallationEnds, InSession
<1>2. CASE Reply("CertificateInstallation", [code |-> "OK", event |-> "NO_EVENT"], Dc.PAYMENTDETAILS)
  <2>1. session' = "open" /\ last_v2g_msg' = "CertificateInstallation" /\ state' = 4
    BY <1>2, DcStates DEF Reply
  <2>2. Tested!SentAsItIs(10)
    BY <2>1 DEF Tested!SentAsItIs, Tested!Reply, Tested!Msg, V2gMsg, Expected, StateOf, SessionOf
  <2>3. ~Tested!Ignored(10)
    BY DEF Tested!Ignored, Tested!Msg
  <2>4. Tested!BaseHandles(10)
    BY <1>1, <2>2, <2>3, UntestedUnchanged DEF Tested!BaseHandles
  <2>5. 10 \in Tested!Requests /\ 10 # V2gMsg.SessionStop /\ V2gMsg[last_v2g_msg'] = 10
    BY <2>1 DEF Tested!Requests, Tested!Msg, V2gMsg
  <2> QED
    BY <1>1, <2>4, <2>5, UntestedUnchanged DEF ServedByBase
<1>3. ASSUME NEW code \in {"OK", "FAILED"},
             NEW v \in iso_validate_response_code("CertificateInstallation", code),
             Reply("CertificateInstallation", v, Dc.PAYMENTDETAILS)
      PROVE  ServedByBase
  BY <1>1, <1>3, NextFollows, ServedAsExpected
<1>4. CASE Reply("CertificateInstallation",
                 IF is_connection_terminated
                 THEN [code |-> "FAILED", event |-> "TERMINATE_CONNECTION"]
                 ELSE [code  |-> "FAILED",
                       event |-> IF terminate_connection_on_failed_response
                                 THEN "SEND_AND_TERMINATE" ELSE "NO_EVENT"], Dc.PAYMENTDETAILS)
  <2> DEFINE sent == IF is_connection_terminated
                     THEN [code |-> "FAILED", event |-> "TERMINATE_CONNECTION"]
                     ELSE [code  |-> "FAILED",
                           event |-> IF terminate_connection_on_failed_response
                                     THEN "SEND_AND_TERMINATE" ELSE "NO_EVENT"]
  <2>1. \E valid : valid \in iso_validate_state("CertificateInstallation")
    <3> DEFINE allowed == "CertificateInstallation" \in StateTable[state + 1]
    <3>1. iso_validate_state("CertificateInstallation")
          = IF state < Len(StateTable) THEN {allowed} ELSE BOOLEAN
      BY Zenon DEF iso_validate_state
    <3> HIDE DEF allowed
    <3> QED
      BY <3>1
  <2>2. PICK valid : valid \in iso_validate_state("CertificateInstallation")
    BY <2>1
  <2>3. sent \in iso_validate_response_code("CertificateInstallation", "FAILED")
    <3>1. CASE is_connection_terminated
      <4>1. iso_validate_response_code("CertificateInstallation", "FAILED")
            = {[code |-> "FAILED", event |-> "TERMINATE_CONNECTION"]}
        BY <3>1 DEF iso_validate_response_code
      <4> QED
        BY <3>1, <4>1
    <3>2. CASE ~is_connection_terminated
      <4>1. \E ok \in iso_validate_state("CertificateInstallation"), known \in BOOLEAN :
                LET failed == \/ "FAILED" = "FAILED" \/ Aborting \/ ~ok
                              \/ "CertificateInstallation" # "SessionSetup" /\ ~known
                IN  sent = [code  |-> IF failed THEN "FAILED" ELSE "FAILED",
                            event |-> IF failed /\ terminate_connection_on_failed_response
                                      THEN "SEND_AND_TERMINATE" ELSE "NO_EVENT"]
        BY <2>2, <3>2
      <4> HIDE DEF sent
      <4> QED
        BY <3>2, <4>1 DEF iso_validate_response_code
    <3> QED
      BY <3>1, <3>2
  <2>4. Reply("CertificateInstallation", sent, Dc.PAYMENTDETAILS)
    BY <1>4
  <2> HIDE DEF sent
  <2> QED
    BY <1>1, <1>3, <2>3, <2>4
<1> QED
  BY <1>2, <1>3, <1>4 DEF CertificateInstallationEnds

\* A request is served as the test cases expect, or has not been answered yet.
LEMMA RequestIsServed ==
  ASSUME TypeOK, WithinTests, Request, WithinTests'
  PROVE  ServedByBase \/ Unseen
<1> USE DEF config, abortVars
<1>1. CASE handle_iso_session_setup
  BY <1>1, NextFollows, ServedAsExpected DEF handle_iso_session_setup, InSession
<1>2. CASE handle_iso_service_discovery
  BY <1>2, NextFollows, ServedAsExpected DEF handle_iso_service_discovery, InSession
<1>3. CASE handle_iso_service_detail
  BY <1>3, NextFollows, ServedAsExpected DEF handle_iso_service_detail, InSession
<1>4. ASSUME NEW option \in PaymentOptions, handle_iso_payment_service_selection(option)
      PROVE  ServedByBase
  <2>1. option # "Contract"
    BY <1>4 DEF handle_iso_payment_service_selection, WithinTests
  <2>2. PICK code \in {"OK", "FAILED"} :
            \E v \in iso_validate_response_code("PaymentServiceSelection", code) :
                Reply("PaymentServiceSelection", v, Dc.AUTHORIZATION)
    BY <1>4, <2>1 DEF handle_iso_payment_service_selection, SelectionCodes
  <2>3. InSession /\ UNCHANGED <<config, is_connection_terminated>>
    BY <1>4 DEF handle_iso_payment_service_selection, InSession
  <2> QED
    BY <2>2, <2>3, NextFollows, ServedAsExpected
<1>5. ~handle_iso_payment_details /\ ~handle_iso_certificate_update
      /\ ~handle_iso_charging_status /\ ~handle_iso_metering_receipt
  BY DEF handle_iso_payment_details, handle_iso_certificate_update, handle_iso_charging_status,
         handle_iso_metering_receipt, Reply, WithinTests
<1>6. CASE handle_iso_certificate_installation
  BY <1>6, NextFollows, ServedAsExpected
     DEF handle_iso_certificate_installation, InSession, Unseen
<1>7. CASE CertificateInstallationEnds
  BY <1>7, InstallationIsServed
<1>8. CASE handle_iso_authorization
  <2>1. PICK code \in {"OK", "FAILED"} :
            \E v \in iso_validate_response_code("Authorization", code) :
                Reply("Authorization", v, AuthorizationNext(auth_finished))
    BY <1>8 DEF handle_iso_authorization, InvalidSignature, AnswerAuthorization,
                AuthorizationCodes, WithinTests
  <2>2. InSession /\ UNCHANGED <<config, is_connection_terminated>>
    BY <1>8 DEF handle_iso_authorization, InSession
  <2>3. Follows("Authorization", AuthorizationNext(auth_finished))
    BY NextFollows DEF AuthorizationNext
  <2> QED
    BY <2>1, <2>2, <2>3, ServedAsExpected
<1>9. CASE handle_iso_charge_parameter_discovery
  <2>1. PICK code \in {"OK", "FAILED"}, next \in {Dc.CHARGEPARAMETERDISCOVERY, Dc.CABLECHECK} :
            \E v \in iso_validate_response_code("ChargeParameterDiscovery", code) :
                Reply("ChargeParameterDiscovery", v, next)
    BY <1>9 DEF handle_iso_charge_parameter_discovery, WithinTests
  <2>2. InSession /\ UNCHANGED <<config, is_connection_terminated>>
    BY <1>9 DEF handle_iso_charge_parameter_discovery, InSession
  <2> QED
    BY <2>1, <2>2, NextFollows, ServedAsExpected
<1>10. CASE handle_iso_cable_check
  BY <1>10, NextFollows, ServedAsExpected DEF handle_iso_cable_check, InSession
<1>11. CASE handle_iso_pre_charge
  BY <1>11, NextFollows, ServedAsExpected DEF handle_iso_pre_charge, InSession
<1>12. ASSUME NEW progress \in ChargeProgress, handle_iso_power_delivery(progress)
       PROVE  ServedByBase
  BY <1>12, PowerDeliveryIsServed DEF handle_iso_power_delivery, InSession
<1>13. ~WaitForContactor
  BY DEF WaitForContactor, ContactorNeeded, WithinTests
<1>14. CASE ContactorWaitEnds \/ PowerDeliveryGoesOn
  BY <1>14, PowerDeliveryIsServed DEF ContactorWaitEnds, PowerDeliveryGoesOn, ContactorCodes,
     ChargeProgress, InSession, Unseen
<1>15. CASE handle_iso_current_demand
  <2>1. PICK v \in iso_validate_response_code("CurrentDemand", "OK") :
            Reply("CurrentDemand", v, Dc.CURRENTDEMAND_POWERDELIVERY)
    BY <1>15 DEF handle_iso_current_demand, ReceiptRequired, WithinTests
  <2>2. InSession /\ UNCHANGED <<config, is_connection_terminated>>
    BY <1>15 DEF handle_iso_current_demand, InSession
  <2> QED
    BY <2>1, <2>2, NextFollows, ServedAsExpected
<1>16. CASE handle_iso_welding_detection
  BY <1>16, NextFollows, ServedAsExpected DEF handle_iso_welding_detection, InSession
<1>17. ASSUME NEW pause \in BOOLEAN, handle_iso_session_stop(pause) PROVE ServedByBase
  BY <1>17, StopIsServed
<1> QED
  BY <1>1, <1>2, <1>3, <1>4, <1>5, <1>6, <1>7, <1>8, <1>9, <1>10, <1>11, <1>12, <1>13, <1>14,
     <1>15, <1>16, <1>17 DEF Request

\* Each step is one that the test cases reckon with, or none that they see.
LEMMA NextIsServed ==
  ASSUME TypeOK, [Next]_vars
  PROVE  [WithinTests /\ WithinTests'
          => SessionStarts \/ SessionEnds \/ ServedByBase \/ Tested!DlinkTerminated]_(Tested!vars)
<1> USE DEF config, abortVars, replyVars
<1> SUFFICES ASSUME WithinTests, WithinTests'
             PROVE  \/ SessionStarts \/ SessionEnds \/ ServedByBase \/ Tested!DlinkTerminated
                    \/ UNCHANGED Tested!vars
  OBVIOUS
<1>1. ASSUME Unseen PROVE UNCHANGED Tested!vars
  <2>1. SessionOf[session'] = SessionOf[session] /\ StateOf' = StateOf
    BY <1>1 DEF Unseen, SessionOf, StateOf
  <2> QED
    BY <1>1, <2>1
       DEF Unseen, Tested!vars, Tested!config, Tested!linkVars, Tested!replyVars, Tested!bspVars,
           Tested!testVars, NotTested
<1>2. CASE Connect
  BY <1>2, DcStates DEF Connect, SessionStarts, v2g_ctx_init_charging_state
<1>3. CASE EndSession
  BY <1>3 DEF EndSession, SessionEnds
<1>4. CASE Request
  BY <1>1, <1>4, RequestIsServed
<1>5. ASSUME NEW options, handle_session_setup(options) PROVE Unseen
  BY <1>5 DEF handle_session_setup, Unseen
<1>6. ASSUME NEW status, handle_authorization_response(status) PROVE Unseen
  BY <1>6 DEF handle_authorization_response, Unseen
<1>7. CASE RejectAuthorization \/ EmergencyShutdown
  BY <1>1, <1>7 DEF RejectAuthorization, EmergencyShutdown, Unseen
<1>8. ASSUME NEW status,
             \/ handle_cable_check_finished(status) \/ handle_ac_contactor_closed(status)
             \/ StopHlc(status)
      PROVE  Unseen
  BY <1>8 DEF handle_cable_check_finished, handle_ac_contactor_closed, StopHlc, Unseen
<1>9. CASE handle_dlink_ready
  <2>1. UNCHANGED <<session, state, last_v2g_msg, config>> /\ is_connection_terminated' = TRUE
        /\ ~is_connection_terminated /\ SessionOf[session] = "open"
    BY <1>9 DEF handle_dlink_ready, NoAbort, InSession, SessionOf
  <2>2. StateOf' = StateOf
    BY <2>1 DEF StateOf
  <2>3. Tested!DlinkTerminated
    BY <2>1, <2>2
       DEF Tested!DlinkTerminated, Tested!config, Tested!replyVars, Tested!bspVars,
           Tested!testVars, NotTested
  <2> QED
    BY <2>3
<1>10. CASE UNCHANGED vars
  BY <1>1, <1>10 DEF vars, Unseen
<1> QED
  BY <1>1, <1>2, <1>3, <1>4, <1>5, <1>6, <1>7, <1>8, <1>9, <1>10 DEF Next, Command

\* The base server that the models of the test cases reduce this one to allows all that it
\* does for a DC charger and external payment: each request that the table lets through is
\* in order there, each response ends the session there as it does here, and the next
\* request that a handler expects is one of those that the test cases reckon with.
THEOREM BaseServerImplemented == Spec => ImplementsBaseServer
<1>1. TypeOK /\ [Next]_vars
      => [WithinTests /\ WithinTests'
          => SessionStarts \/ SessionEnds \/ ServedByBase \/ Tested!DlinkTerminated]_(Tested!vars)
  BY NextIsServed
<1> QED
  BY <1>1, TypeCorrect, PTL DEF Spec, ImplementsBaseServer
=============================================================================
