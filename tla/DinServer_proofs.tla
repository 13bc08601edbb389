--------------------------- MODULE DinServer_proofs ---------------------------
(***************************************************************************)
(* Theorems of DinServer, for a configuration that ends the connection on  *)
(* failed responses and for one that does not, with or without EIM.        *)
(*                                                                         *)
(* The heart of it is Accepted: a reply that lets the connection go on is  *)
(* one to a request that the table allows, without an abort.  The table    *)
(* then names the states it came from (Allowed).                           *)
(***************************************************************************)
EXTENDS DinServer, TLAPS

-----------------------------------------------------------------------------
(***************************************************************************)
(* The validation of responses, and the table                              *)
(***************************************************************************)
NoAbort == ~Aborting /\ ~is_connection_terminated

\* When failed responses end the connection, it goes on only after a request in order,
\* answered well, and not during an abort.
LEMMA Accepted ==
    ASSUME TypeOK, terminate_connection_on_failed_response,
           NEW request \in Messages, NEW code \in {"OK", "FAILED"},
           NEW v \in din_validate_response_code(request, code), v.event = "NO_EVENT"
    PROVE  Passed(v) /\ NoAbort /\ din_validate_state(request)
  <1> USE DEF din_validate_response_code
  <1>1. ~is_connection_terminated
    BY DEF TypeOK
  <1>2. PICK known \in BOOLEAN :
            LET failed == \/ code = "FAILED" \/ Aborting \/ ~din_validate_state(request)
                          \/ request # "SessionSetup" /\ ~known
            IN  v = [code  |-> IF failed THEN "FAILED" ELSE code,
                     event |-> IF failed /\ terminate_connection_on_failed_response
                               THEN "SEND_AND_TERMINATE" ELSE "NO_EVENT"]
    BY <1>1
  <1> DEFINE failed == \/ code = "FAILED" \/ Aborting \/ ~din_validate_state(request)
                       \/ request # "SessionSetup" /\ ~known
  <1>3. ~failed
    BY <1>2
  <1>4. v = [code |-> "OK", event |-> "NO_EVENT"]
    BY <1>2, <1>3
  <1>5. QED
    BY <1>1, <1>3, <1>4 DEF Passed, NoAbort

\* What a response is
LEMMA Responses ==
    ASSUME NEW request \in Messages, NEW code \in {"OK", "FAILED"},
           NEW v \in din_validate_response_code(request, code)
    PROVE  v \in [code : {"OK", "FAILED"},
                  event : {"NO_EVENT", "SEND_AND_TERMINATE", "TERMINATE_CONNECTION"}]
  BY DEF din_validate_response_code

\* The states in which the table allows a request
LEMMA Allowed ==
    ASSUME TypeOK
    PROVE  /\ din_validate_state("SessionSetup") => state = 0
           /\ din_validate_state("ServiceDiscovery") => state = 1
           /\ din_validate_state("PaymentServiceSelection") => state = 2
           /\ din_validate_state("Authorization") => state = 3
           /\ din_validate_state("ChargeParameterDiscovery") => state = 4
           /\ din_validate_state("CableCheck") => state = 5
           /\ din_validate_state("PreCharge") => state \in {6, 7}
           /\ din_validate_state("PowerDelivery") => state \in {7, 9}
           /\ din_validate_state("CurrentDemand") => state \in {8, 9}
           /\ din_validate_state("WeldingDetection") => state = 10
  BY DEF TypeOK, din_validate_state, din_states

-----------------------------------------------------------------------------
(***************************************************************************)
(* Types                                                                   *)
(***************************************************************************)
\* A reply leaves the variables of the session in their ranges.
LEMMA ReplyTyping ==
    ASSUME NEW request \in Messages, NEW v, NEW next \in 0..12, Reply(request, v, next)
    PROVE  /\ session' \in {"open", "ending"}
           /\ last_v2g_msg' \in Messages
           /\ state' \in 0..12
  BY DEF Reply

\* So does a step that ends a session, or starts one.
LEMMA SessionTyping ==
    ASSUME TypeOK, Connect \/ EndSession
    PROVE  TypeOK'
  <1>1. Din.SESSIONSETUP \in 0..12 /\ "Unknown" \in Messages
    BY DEF Din, Messages
  <1>2. CASE Connect
    BY <1>1, <1>2 DEF TypeOK, Connect, v2g_ctx_init_charging_state, config, evseVars
  <1>3. CASE EndSession
    BY <1>1, <1>3 DEF TypeOK, EndSession, v2g_ctx_init_charging_state,
                      v2g_ctx_init_charging_values, config
  <1>4. QED
    BY <1>2, <1>3

LEMMA CommandTyping ==
    ASSUME TypeOK, Command
    PROVE  TypeOK'
  <1> USE DEF TypeOK, config, replyVars, abortVars
  <1>1. ASSUME NEW accepted \in BOOLEAN, handle_authorization_response(accepted) PROVE TypeOK'
    BY <1>1 DEF handle_authorization_response, Reports
  <1>2. ASSUME NEW status \in BOOLEAN, handle_cable_check_finished(status) PROVE TypeOK'
    BY <1>2 DEF handle_cable_check_finished, Report, Reports
  <1>3. ASSUME NEW good \in BOOLEAN, handle_update_isolation_status(good) PROVE TypeOK'
    BY <1>3 DEF handle_update_isolation_status, Report, Reports
  <1>4. ASSUME NEW stop \in BOOLEAN, StopHlc(stop) PROVE TypeOK'
    <2>1. aborts' \subseteq {"stop", "emergency", "dlink"}
      BY <1>4 DEF StopHlc
    <2>2. QED
      BY <1>4, <2>1 DEF StopHlc, evseVars
  <1>5. CASE EmergencyShutdown
    BY <1>5 DEF EmergencyShutdown, evseVars
  <1>6. CASE handle_dlink_ready
    BY <1>6 DEF handle_dlink_ready, evseVars
  <1>7. QED
    BY <1>1, <1>2, <1>3, <1>4, <1>5, <1>6 DEF Command

LEMMA RequestTyping ==
    ASSUME TypeOK, Request
    PROVE  TypeOK'
  <1>1. {"SessionSetup", "ServiceDiscovery", "PaymentServiceSelection", "Authorization",
         "ChargeParameterDiscovery", "CableCheck", "PreCharge", "PowerDelivery",
         "CurrentDemand", "WeldingDetection", "SessionStop"} \subseteq Messages
    BY DEF Messages
  <1>2. {Din[s] : s \in DOMAIN Din} \subseteq 0..12
    BY DEF Din
  <1> USE <1>1 DEF TypeOK, config, abortVars, evseVars, Reply, Grant, Din, Phases
  <1>3. CASE handle_din_session_setup
    BY <1>3 DEF handle_din_session_setup
  <1>4. CASE handle_din_service_discovery
    BY <1>4 DEF handle_din_service_discovery
  <1>5. CASE handle_din_service_payment_selection
    BY <1>5 DEF handle_din_service_payment_selection
  <1>6. CASE handle_din_contract_authentication
    BY <1>6 DEF handle_din_contract_authentication
  <1>7. CASE handle_din_charge_parameter
    BY <1>7 DEF handle_din_charge_parameter
  <1>8. CASE handle_din_cable_check
    BY <1>8 DEF handle_din_cable_check
  <1>9. CASE handle_din_pre_charge
    BY <1>9 DEF handle_din_pre_charge
  <1>10. ASSUME NEW ready \in BOOLEAN, handle_din_power_delivery(ready) PROVE TypeOK'
    <2>1. is_charging' \in BOOLEAN
      BY <1>10, Zenon DEF handle_din_power_delivery
    <2>2. PICK v : StartCharging(v) \/ EndCharging(ready, v)
      BY <1>10 DEF handle_din_power_delivery
    <2>3. CASE StartCharging(v)
      BY <1>10, <2>1, <2>3 DEF StartCharging, handle_din_power_delivery
    <2>4. CASE EndCharging(ready, v)
      <3>1. granted' \subseteq Phases
        BY <2>4 DEF EndCharging
      <3>2. session' \in {"open", "ending"} /\ last_v2g_msg' \in Messages /\ state' \in 0..12
        BY <2>4 DEF EndCharging
      <3>3. QED
        BY <1>10, <2>1, <3>1, <3>2 DEF handle_din_power_delivery
    <2>5. QED
      BY <2>2, <2>3, <2>4
  <1>11. CASE handle_din_current_demand
    BY <1>11 DEF handle_din_current_demand
  <1>12. CASE handle_din_welding_detection
    BY <1>12 DEF handle_din_welding_detection
  <1>13. CASE handle_din_session_stop
    BY <1>13 DEF handle_din_session_stop
  <1>14. CASE IgnoreRequest
    BY <1>14 DEF IgnoreRequest, vars, replyVars
  <1>15. QED
    BY <1>3, <1>4, <1>5, <1>6, <1>7, <1>8, <1>9, <1>10, <1>11, <1>12, <1>13, <1>14 DEF Request

\* TypeOK: a session's state stays in the table, and every flag and history in its range
\* (the v2g_context that the DIN server and the commands share).
THEOREM TypeCorrect == Spec => []TypeOK
  <1>1. Init => TypeOK
    <2>1. Din.SESSIONSETUP \in 0..12 /\ "Unknown" \in Messages
      BY DEF Din, Messages
    <2>2. QED
      BY <2>1 DEF Init, TypeOK
  <1>2. TypeOK /\ [Next]_vars => TypeOK'
    <2>1. TypeOK /\ UNCHANGED vars => TypeOK'
      BY DEF TypeOK, vars, config, abortVars, replyVars, evseVars
    <2>2. QED
      BY <2>1, SessionTyping, CommandTyping, RequestTyping DEF Next
  <1>3. QED
    BY <1>1, <1>2, PTL DEF Spec

-----------------------------------------------------------------------------
(***************************************************************************)
(* The order of the phases                                                 *)
(***************************************************************************)
\* What is granted is forgotten when the session ends.
NothingBetweenSessions == session = "none" => granted = {}

\* PhasesInOrder and ChargeEndsForGood depend on each other only through the table; they are
\* inductive together with the emptiness between sessions.
Order == TypeOK /\ NothingBetweenSessions /\ PhasesInOrder /\ ChargeEndsForGood

\* The prerequisites of a state, one by one
Complete(s, g) ==
    /\ s \in 4..10 => "authorized" \in g
    /\ s \in 5..10 => "parameters" \in g
    /\ s \in 6..10 => "isolated" \in g
    /\ s \in 7..10 => "precharged" \in g
    /\ s \in 8..9  => "powered" \in g

LEMMA Needed ==
    ASSUME NEW s \in 0..12, NEW g
    PROVE  Prerequisites[s] \subseteq g <=> Complete(s, g)
  BY DEF Prerequisites, Complete, Din

\* What the order demands of the next state, given that the session still goes on
LEMMA OrderAfter ==
    ASSUME TypeOK', session' \in {"open", "ending"},
           Strict' => /\ Complete(state', granted')
                      /\ "ended" \in granted' => state' >= 10
    PROVE  Order'
  <1>1. PhasesInOrder'
    BY Needed DEF PhasesInOrder, TypeOK
  <1>2. ChargeEndsForGood'
    BY DEF ChargeEndsForGood, Din
  <1>3. QED
    BY <1>1, <1>2 DEF Order, NothingBetweenSessions

\* What it says of the present one
LEMMA OrderBefore ==
    ASSUME Order, Strict
    PROVE  /\ Complete(state, granted)
           /\ "ended" \in granted => state >= 10
  BY Needed DEF Order, PhasesInOrder, ChargeEndsForGood, TypeOK, Din

\* A request is answered, well or not, next is expected, and more is granted if that passes.
Answer(request, next, more) ==
    \E code \in {"OK", "FAILED"} : \E v \in din_validate_response_code(request, code) :
        /\ Reply(request, v, next)
        /\ terminate_connection_on_failed_response /\ Passed(v)
           => granted' = granted \union more

\* When the connection goes on, the request was one that the table allows in this state:
\* what was granted by then, and more, has to suffice for the next one.
LEMMA Answered ==
    ASSUME Order, TypeOK', session = "open", UNCHANGED config,
           NEW request \in Messages, NEW next \in 0..12, NEW more, Answer(request, next, more),
           /\ din_validate_state(request) /\ Complete(state, granted)
           /\ "ended" \in granted => state >= 10
           => /\ Complete(next, granted \union more)
              /\ "ended" \in granted \union more => next >= 10
    PROVE  Order'
  <1>1. PICK code \in {"OK", "FAILED"} : \E v \in din_validate_response_code(request, code) :
            /\ Reply(request, v, next)
            /\ terminate_connection_on_failed_response /\ Passed(v)
               => granted' = granted \union more
    BY DEF Answer
  <1>2. PICK v \in din_validate_response_code(request, code) :
            /\ Reply(request, v, next)
            /\ terminate_connection_on_failed_response /\ Passed(v)
               => granted' = granted \union more
    BY <1>1
  <1>3. state' = next /\ session' \in {"open", "ending"}
    BY <1>2 DEF Reply
  <1>4. ASSUME Strict' PROVE /\ Complete(state', granted')
                             /\ "ended" \in granted' => state' >= 10
    <2>1. terminate_connection_on_failed_response /\ Strict
      BY <1>4 DEF Strict, config
    <2>2. v.event = "NO_EVENT"
      BY <1>2, <1>4 DEF Strict, Reply
    <2>3. Passed(v) /\ din_validate_state(request)
      BY <2>1, <2>2, Accepted DEF Order
    <2>4. QED
      BY <1>2, <1>3, <2>1, <2>3, OrderBefore
  <1>5. QED
    BY <1>3, <1>4, OrderAfter

LEMMA RequestOrder ==
    ASSUME Order, Request
    PROVE  Order'
  <1>1. TypeOK /\ TypeOK'
    BY RequestTyping DEF Order
  <1>2. session = "open" /\ UNCHANGED config
    BY DEF Request, handle_din_session_setup, handle_din_service_discovery,
         handle_din_service_payment_selection, handle_din_contract_authentication,
         handle_din_charge_parameter, handle_din_cable_check, handle_din_pre_charge,
         handle_din_power_delivery, handle_din_current_demand, handle_din_welding_detection,
         handle_din_session_stop, IgnoreRequest, vars
  <1> USE <1>1, <1>2
  <1>3. CASE handle_din_session_setup
    <2>1. Answer("SessionSetup", Din.SERVICEDISCOVERY, {})
      BY <1>3 DEF handle_din_session_setup, Answer
    <2>2. QED
      BY <2>1, Answered, Allowed DEF Complete, Din, Messages
  <1>4. CASE handle_din_service_discovery
    <2>1. Answer("ServiceDiscovery", Din.PAYMENTSERVICESELECTION, {})
      BY <1>4 DEF handle_din_service_discovery, Answer
    <2>2. QED
      BY <2>1, Answered, Allowed DEF Complete, Din, Messages
  <1>5. CASE handle_din_service_payment_selection
    <2>1. Answer("PaymentServiceSelection", Din.AUTHORIZATION, {})
      BY <1>5 DEF handle_din_service_payment_selection, Answer
    <2>2. QED
      BY <2>1, Answered, Allowed DEF Complete, Din, Messages
  <1>6. CASE handle_din_contract_authentication
    <2>1. CASE auth_finished
      <3>1. Answer("Authorization", Din.CHARGEPARAMETERDISCOVERY, {"authorized"})
        BY <1>6, <2>1 DEF handle_din_contract_authentication, Answer, Grant
      <3>2. QED
        BY <3>1, Answered, Allowed DEF Complete, Din, Messages
    <2>2. CASE ~auth_finished
      <3>1. Answer("Authorization", Din.AUTHORIZATION, {})
        BY <1>6, <2>2 DEF handle_din_contract_authentication, Answer, Grant
      <3>2. QED
        BY <3>1, Answered, Allowed DEF Complete, Din, Messages
    <2>3. QED
      BY <2>1, <2>2
  <1>7. CASE handle_din_charge_parameter
    <2>1. Answer("ChargeParameterDiscovery", Din.CABLECHECK, {"parameters"})
      BY <1>7 DEF handle_din_charge_parameter, Answer, Grant
    <2>2. QED
      BY <2>1, Answered, Allowed DEF Complete, Din, Messages
  <1>8. CASE handle_din_cable_check
    <2>1. CASE CableCheckGood
      <3>1. Answer("CableCheck", Din.PRECHARGE, {"isolated"})
        BY <1>8, <2>1 DEF handle_din_cable_check, Answer, Grant
      <3>2. QED
        BY <3>1, Answered, Allowed DEF Complete, Din, Messages
    <2>2. CASE ~CableCheckGood
      <3>1. Answer("CableCheck", Din.CABLECHECK, {})
        BY <1>8, <2>2 DEF handle_din_cable_check, Answer, Grant
      <3>2. QED
        BY <3>1, Answered, Allowed DEF Complete, Din, Messages
    <2>3. QED
      BY <2>1, <2>2
  <1>9. CASE handle_din_pre_charge
    <2>1. Answer("PreCharge", Din.PRECHARGE_POWERDELIVERY, {"precharged"})
      BY <1>9 DEF handle_din_pre_charge, Answer, Grant
    <2>2. QED
      BY <2>1, Answered, Allowed DEF Complete, Din, Messages
  <1>10. CASE handle_din_current_demand
    <2>1. Answer("CurrentDemand", Din.CURRENTDEMAND_POWERDELIVERY, {})
      BY <1>10 DEF handle_din_current_demand, Answer
    <2>2. QED
      BY <2>1, Answered, Allowed DEF Complete, Din, Messages
  <1>11. CASE handle_din_welding_detection
    <2>1. Answer("WeldingDetection", Din.WELDINGDETECTION_SESSIONSTOP, {})
      BY <1>11 DEF handle_din_welding_detection, Answer
    <2>2. QED
      BY <2>1, Answered, Allowed DEF Complete, Din, Messages
  <1>12. ASSUME NEW ready \in BOOLEAN, handle_din_power_delivery(ready) PROVE Order'
    <2>1. PICK code \in {"OK", "FAILED"} :
            \E v \in din_validate_response_code("PowerDelivery", code) :
                StartCharging(v) \/ EndCharging(ready, v)
      BY <1>12 DEF handle_din_power_delivery
    <2>2. PICK v \in din_validate_response_code("PowerDelivery", code) :
                StartCharging(v) \/ EndCharging(ready, v)
      BY <2>1
    <2>3. CASE StartCharging(v)
      <3>1. Answer("PowerDelivery", Din.CURRENTDEMAND, {"powered"})
        BY <2>3 DEF StartCharging, Answer, Grant
      <3>2. QED
        BY <3>1, Answered, Allowed DEF Complete, Din, Messages
    <2>4. CASE EndCharging(ready, v) /\ ready
      <3>1. session' = "ending"
        BY <2>4 DEF EndCharging, Reply
      <3>2. QED
        BY <3>1, OrderAfter DEF Strict
    <2>5. CASE EndCharging(ready, v) /\ ~ready
      <3>1. Answer("PowerDelivery", Din.WELDINGDETECTION_SESSIONSTOP, {"ended"})
        BY <2>5 DEF EndCharging, Answer
      <3>2. QED
        BY <3>1, Answered, Allowed DEF Complete, Din, Messages
    <2>6. QED
      BY <2>2, <2>3, <2>4, <2>5
  <1>13. CASE handle_din_session_stop
    <2>1. session' = "ending"
      BY <1>13 DEF handle_din_session_stop, Reply
    <2>2. QED
      BY <2>1, OrderAfter DEF Strict
  <1>14. CASE IgnoreRequest
    BY <1>14 DEF IgnoreRequest, vars, replyVars, config, Order, NothingBetweenSessions,
                 PhasesInOrder, ChargeEndsForGood, Strict
  <1>15. QED
    BY <1>3, <1>4, <1>5, <1>6, <1>7, <1>8, <1>9, <1>10, <1>11, <1>12, <1>13, <1>14 DEF Request

LEMMA NextOrder == Order /\ [Next]_vars => Order'
  <1> SUFFICES ASSUME Order, [Next]_vars PROVE Order'
    OBVIOUS
  <1> USE DEF Order
  <1>1. CASE Connect
    <2>1. TypeOK' /\ session' = "open" /\ state' = 0 /\ granted' = {}
      BY <1>1, SessionTyping DEF Connect, v2g_ctx_init_charging_state, Din, NothingBetweenSessions
    <2>2. QED
      BY <2>1, OrderAfter DEF Complete
  <1>2. CASE EndSession
    <2>1. TypeOK' /\ session' = "none" /\ granted' = {}
      BY <1>2, SessionTyping DEF EndSession
    <2>2. QED
      BY <2>1 DEF NothingBetweenSessions, PhasesInOrder, ChargeEndsForGood, Strict
  <1>3. CASE Request
    BY <1>3, RequestOrder
  <1>4. CASE Command
    <2>1. UNCHANGED <<config, session, state, granted>>
      BY <1>4 DEF Command, handle_authorization_response, handle_cable_check_finished,
                  handle_update_isolation_status, StopHlc, EmergencyShutdown,
                  handle_dlink_ready, replyVars, config
    <2>2. QED
      BY <1>4, <2>1, CommandTyping DEF config, NothingBetweenSessions, PhasesInOrder,
         ChargeEndsForGood, Strict
  <1>5. CASE UNCHANGED vars
    BY <1>5 DEF vars, config, abortVars, replyVars, evseVars, TypeOK, NothingBetweenSessions,
                PhasesInOrder, ChargeEndsForGood, Strict
  <1>6. QED
    BY <1>1, <1>2, <1>3, <1>4, <1>5 DEF Next

LEMMA OrderKept == Spec => []Order
  <1>1. Init => Order
    <2>1. TypeOK /\ session = "none" /\ granted = {} /\ Init => Order
      BY DEF Order, NothingBetweenSessions, PhasesInOrder, ChargeEndsForGood, Strict
    <2>2. Din.SESSIONSETUP \in 0..12 /\ "Unknown" \in Messages
      BY DEF Din, Messages
    <2>3. QED
      BY <2>1, <2>2 DEF Init, TypeOK
  <1>2. QED
    BY <1>1, NextOrder, PTL DEF Spec

\* PhasesInOrder: whatever a vehicle sends, a state of the message sequence is reached with
\* all earlier phases granted, although the handlers set ctx->state when they refuse, too.
THEOREM PhasesAreInOrder == Spec => []PhasesInOrder
  <1>1. Order => PhasesInOrder
    BY DEF Order
  <1>2. QED
    BY <1>1, OrderKept, PTL

\* ChargeEndsForGood: power_delivery, last_v2g_msg and the table together let no charge be
\* taken up again in a session.
THEOREM NoSecondCharge == Spec => []ChargeEndsForGood
  <1>1. Order => ChargeEndsForGood
    BY DEF Order
  <1>2. QED
    BY <1>1, OrderKept, PTL

\* MessagesInOrder: both together.
THEOREM MessagesAreInOrder == Spec => []MessagesInOrder
  <1>1. Order => MessagesInOrder
    BY DEF Order, MessagesInOrder
  <1>2. QED
    BY <1>1, OrderKept, PTL

-----------------------------------------------------------------------------
(***************************************************************************)
(* Aborts and reports                                                      *)
(***************************************************************************)
\* A reply that does not end the session of an aborted connection: there is none.
LEMMA NoAnswerInAbort ==
    ASSUME TypeOK, Strict, ~NoAbort, session' = "open", Request
    PROVE  UNCHANGED <<state, last_v2g_msg, granted>>
  <1>1. ASSUME NEW request \in Messages, NEW code \in {"OK", "FAILED"},
               NEW v \in din_validate_response_code(request, code), NEW next \in 0..12,
               Reply(request, v, next)
        PROVE  FALSE
    <2>1. v.event = "NO_EVENT"
      BY <1>1 DEF Reply
    <2>2. QED
      BY <1>1, <2>1, Accepted DEF Strict
  <1> USE DEF Din, Messages
  <1>2. CASE handle_din_session_setup
    BY <1>1, <1>2 DEF handle_din_session_setup
  <1>3. CASE handle_din_service_discovery
    BY <1>1, <1>3 DEF handle_din_service_discovery
  <1>4. CASE handle_din_service_payment_selection
    BY <1>1, <1>4 DEF handle_din_service_payment_selection
  <1>5. CASE handle_din_contract_authentication
    BY <1>1, <1>5 DEF handle_din_contract_authentication
  <1>6. CASE handle_din_charge_parameter
    BY <1>1, <1>6 DEF handle_din_charge_parameter
  <1>7. CASE handle_din_cable_check
    BY <1>1, <1>7 DEF handle_din_cable_check
  <1>8. CASE handle_din_pre_charge
    BY <1>1, <1>8 DEF handle_din_pre_charge
  <1>9. CASE handle_din_current_demand
    BY <1>1, <1>9 DEF handle_din_current_demand
  <1>10. CASE handle_din_welding_detection
    BY <1>1, <1>10 DEF handle_din_welding_detection
  <1>11. ASSUME NEW ready \in BOOLEAN, handle_din_power_delivery(ready) PROVE FALSE
    BY <1>1, <1>11 DEF handle_din_power_delivery, StartCharging, EndCharging, Reply
  <1>12. CASE handle_din_session_stop
    BY <1>12 DEF handle_din_session_stop, Reply
  <1>13. CASE IgnoreRequest
    BY <1>13 DEF IgnoreRequest, vars, replyVars
  <1>14. QED
    BY <1>2, <1>3, <1>4, <1>5, <1>6, <1>7, <1>8, <1>9, <1>10, <1>11, <1>12, <1>13 DEF Request

\* What has asked for the end of the session is still to be seen in the flags.
AbortsKept ==
    /\ "stop" \in aborts => stop_hlc
    /\ "emergency" \in aborts => intl_emergency_shutdown
    /\ "dlink" \in aborts => is_connection_terminated

LEMMA NextAborts == TypeOK /\ AbortsKept /\ [Next]_vars => AbortsKept'
  <1> SUFFICES ASSUME TypeOK, AbortsKept, [Next]_vars PROVE AbortsKept'
    OBVIOUS
  <1> USE DEF AbortsKept
  <1>1. ASSUME UNCHANGED abortVars PROVE AbortsKept'
    BY <1>1 DEF abortVars
  <1>2. CASE Connect \/ EndSession
    BY <1>2 DEF Connect, EndSession, v2g_ctx_init_charging_state
  <1>3. CASE Request
    <2>1. UNCHANGED abortVars
      BY <1>3 DEF Request, handle_din_session_setup, handle_din_service_discovery,
         handle_din_service_payment_selection, handle_din_contract_authentication,
         handle_din_charge_parameter, handle_din_cable_check, handle_din_pre_charge,
         handle_din_power_delivery, handle_din_current_demand, handle_din_welding_detection,
         handle_din_session_stop, IgnoreRequest, vars
    <2>2. QED
      BY <1>1, <2>1
  <1>4. ASSUME NEW stop \in BOOLEAN, StopHlc(stop) PROVE AbortsKept'
    BY <1>4 DEF StopHlc
  <1>5. CASE EmergencyShutdown
    BY <1>5 DEF EmergencyShutdown
  <1>6. CASE handle_dlink_ready
    BY <1>6 DEF handle_dlink_ready
  <1>7. CASE Command /\ UNCHANGED abortVars
    BY <1>1, <1>7
  <1>8. CASE Command
    BY <1>4, <1>5, <1>6, <1>7, <1>8 DEF Command, handle_authorization_response,
       handle_cable_check_finished, handle_update_isolation_status
  <1>9. QED
    BY <1>1, <1>2, <1>3, <1>8 DEF Next, vars

\* AbortEndsSession: once a stop, an emergency shutdown or the end of the data link has asked
\* for the end of the session, and is not a stop that has been withdrawn, no request is
\* answered but one that ends the session, whatever else is set or withdrawn meanwhile.
THEOREM AbortsEndSessions == Spec => AbortEndsSession
  <1>1. Init => AbortsKept
    BY DEF Init, AbortsKept
  <1>2. TypeOK /\ AbortsKept /\ [Next]_vars
        => [/\ Strict /\ aborts # {} /\ session' = "open"
            => UNCHANGED <<state, last_v2g_msg, granted>>]_vars
    <2> SUFFICES ASSUME TypeOK, AbortsKept, Next, Strict, aborts # {}, session' = "open"
                 PROVE  UNCHANGED <<state, last_v2g_msg, granted>>
      OBVIOUS
    <2>1. ~NoAbort
      BY DEF AbortsKept, NoAbort, Aborting, TypeOK
    <2>2. CASE Connect \/ EndSession
      BY <2>2 DEF Connect, EndSession, Strict
    <2>3. CASE Request
      BY <2>1, <2>3, NoAnswerInAbort
    <2>4. CASE Command
      BY <2>4 DEF Command, handle_authorization_response, handle_cable_check_finished,
                  handle_update_isolation_status, StopHlc, EmergencyShutdown,
                  handle_dlink_ready, replyVars
    <2>5. QED
      BY <2>2, <2>3, <2>4 DEF Next
  <1>3. QED
    BY <1>1, <1>2, NextAborts, TypeCorrect, PTL DEF Spec, AbortEndsSession

\* The flags that the grants look at say what has been reported in this session.
ReportsKept ==
    /\ auth_finished /\ iso_selected_payment_option = "ExternalPayment" => "accepted" \in reported
    /\ isolation_finished => "checked" \in reported
    /\ isolation_valid => "valid" \in reported

LEMMA NextReports == TypeOK /\ ReportsKept /\ [Next]_vars => ReportsKept'
  <1> SUFFICES ASSUME TypeOK, ReportsKept, [Next]_vars PROVE ReportsKept'
    OBVIOUS
  <1> USE DEF ReportsKept, config, evseVars
  <1>1. CASE Connect \/ EndSession
    <2>1. Connect => UNCHANGED <<config, evseVars>>
      BY DEF Connect
    <2>2. EndSession => ~auth_finished' /\ ~isolation_finished' /\ ~isolation_valid'
      BY DEF EndSession, v2g_ctx_init_charging_values
    <2>3. QED
      BY <1>1, <2>1, <2>2
  <1>2. CASE Request
    <2>1. UNCHANGED <<config, evseVars>>
      BY <1>2 DEF Request, handle_din_session_setup, handle_din_service_discovery,
         handle_din_service_payment_selection, handle_din_contract_authentication,
         handle_din_charge_parameter, handle_din_cable_check, handle_din_pre_charge,
         handle_din_power_delivery, handle_din_current_demand, handle_din_welding_detection,
         handle_din_session_stop, IgnoreRequest, vars
    <2>2. QED
      BY <2>1
  <1>3. ASSUME NEW accepted \in BOOLEAN, handle_authorization_response(accepted)
        PROVE  ReportsKept'
    <2>1. accepted \/ iso_selected_payment_option' # "ExternalPayment"
      BY <1>3 DEF handle_authorization_response
    <2>2. reported \subseteq reported' /\ (accepted => "accepted" \in reported')
      BY <1>3 DEF handle_authorization_response
    <2>3. UNCHANGED <<isolation_finished, isolation_valid>>
      BY <1>3 DEF handle_authorization_response
    <2>4. QED
      BY <2>1, <2>2, <2>3
  <1>4. ASSUME NEW status \in BOOLEAN, handle_cable_check_finished(status) PROVE ReportsKept'
    BY <1>4 DEF handle_cable_check_finished, Report
  <1>5. ASSUME NEW good \in BOOLEAN, handle_update_isolation_status(good) PROVE ReportsKept'
    BY <1>5 DEF handle_update_isolation_status, Report
  <1>6. CASE \/ \E stop \in BOOLEAN : StopHlc(stop)
             \/ EmergencyShutdown \/ handle_dlink_ready \/ UNCHANGED vars
    BY <1>6 DEF StopHlc, EmergencyShutdown, handle_dlink_ready, vars
  <1>7. QED
    BY <1>1, <1>2, <1>3, <1>4, <1>5, <1>6 DEF Next, Command

\* GrantsRestOnReports: handle_authorization_response, handle_cable_check_finished and
\* handle_update_isolation_status write at any time, the end of a session resets what they
\* wrote; no grant rests on what was reported before.
THEOREM GrantsAreFounded == Spec => GrantsRestOnReports
  <1>1. Init => ReportsKept
    BY DEF Init, ReportsKept
  <1>2. TypeOK /\ ReportsKept /\ [Next]_vars
        => [/\ /\ "authorized" \in granted' \ granted
               /\ iso_selected_payment_option = "ExternalPayment"
               => "accepted" \in reported
            /\ /\ last_v2g_msg' = "CableCheck" /\ session' # "none"
               /\ state # Din.PRECHARGE /\ state' = Din.PRECHARGE
               => {"checked", "valid"} \subseteq reported]_vars
    <2> SUFFICES ASSUME TypeOK, ReportsKept, Next
                 PROVE  /\ /\ "authorized" \in granted' \ granted
                           /\ iso_selected_payment_option = "ExternalPayment"
                           => "accepted" \in reported
                        /\ /\ last_v2g_msg' = "CableCheck" /\ session' # "none"
                           /\ state # Din.PRECHARGE /\ state' = Din.PRECHARGE
                           => {"checked", "valid"} \subseteq reported
      OBVIOUS
    <2>1. CASE Connect \/ EndSession
      BY <2>1 DEF Connect, EndSession, v2g_ctx_init_charging_state
    <2>2. CASE Command
      BY <2>2 DEF Command, handle_authorization_response, handle_cable_check_finished,
                  handle_update_isolation_status, StopHlc, EmergencyShutdown,
                  handle_dlink_ready, replyVars
    <2>3. CASE handle_din_contract_authentication
      BY <2>3 DEF handle_din_contract_authentication, Reply, Grant, ReportsKept
    <2>4. CASE handle_din_cable_check
      BY <2>4 DEF handle_din_cable_check, CableCheckGood, Reply, Grant, ReportsKept, Din
    <2>5. CASE \/ handle_din_session_setup \/ handle_din_service_discovery
               \/ handle_din_service_payment_selection \/ handle_din_current_demand
               \/ handle_din_welding_detection \/ handle_din_session_stop
      BY <2>5 DEF handle_din_session_setup, handle_din_service_discovery,
         handle_din_service_payment_selection, handle_din_current_demand,
         handle_din_welding_detection, handle_din_session_stop, Reply
    <2>6. CASE \/ handle_din_charge_parameter \/ handle_din_pre_charge
               \/ \E ready \in BOOLEAN : handle_din_power_delivery(ready)
      BY <2>6 DEF handle_din_charge_parameter, handle_din_pre_charge,
         handle_din_power_delivery, StartCharging, EndCharging, Reply, Grant
    <2>7. CASE IgnoreRequest
      BY <2>7 DEF IgnoreRequest, vars, replyVars
    <2>8. QED
      BY <2>1, <2>2, <2>3, <2>4, <2>5, <2>6, <2>7 DEF Next, Request
  <1>3. QED
    BY <1>1, <1>2, NextReports, TypeCorrect, PTL DEF Spec, GrantsRestOnReports

-----------------------------------------------------------------------------
(***************************************************************************)
(* The base server of the test cases                                       *)
(***************************************************************************)
\* Every request that the table allows is in order for the test cases, too.
LEMMA AllowedIsInOrder ==
    ASSUME TypeOK, NEW request \in Messages, din_validate_state(request)
    PROVE  Tested!InOrder(V2gMsg[request])
  <1> USE DEF Tested!InOrder, Tested!Msg, V2gMsg, Expected
  <1>1. CASE request \in {"SessionSetup", "ServiceDiscovery", "PaymentServiceSelection",
                          "Authorization", "ChargeParameterDiscovery", "CableCheck"}
    BY <1>1, Allowed
  <1>2. CASE request = "PreCharge"
    BY <1>2, Allowed
  <1>3. CASE request = "PowerDelivery"
    BY <1>3, Allowed
  <1>4. CASE request = "CurrentDemand"
    BY <1>4, Allowed
  <1>5. CASE request = "WeldingDetection"
    BY <1>5, Allowed
  <1>6. CASE request = "SessionStop"
    <2>1. state \in {1, 2, 3, 4, 5, 6, 7, 10, 11}
      BY <1>6 DEF TypeOK, din_validate_state, din_states
    <2>2. V2gMsg[Expected[state + 1]] \in {2, 4, 6, 7, 12, 13, 14, 16, 17}
      BY <2>1
    <2>3. QED
      BY <1>6, <2>2
  <1>7. request # "Unknown"
    BY DEF TypeOK, din_validate_state, din_states
  <1>8. QED
    BY <1>1, <1>2, <1>3, <1>4, <1>5, <1>6, <1>7 DEF Messages

\* Every way to answer a request is one of the test cases' base server.
LEMMA AnswerIsKnown ==
    ASSUME TypeOK, NEW request \in Messages, NEW code \in {"OK", "FAILED"},
           NEW v \in din_validate_response_code(request, code)
    PROVE  \E w \in Tested!validate_response_code(V2gMsg[request]) : w.event = v.event
  <1> DEFINE m == V2gMsg[request]
             Event(ok) == CASE is_connection_terminated -> "TERMINATE_CONNECTION"
                            [] ~is_connection_terminated /\ ~ok
                               /\ terminate_connection_on_failed_response -> "SEND_AND_TERMINATE"
                            [] OTHER -> "NO_EVENT"
             w(ok) == [ok |-> ok, event |-> Event(ok)]
  <1>1. w(FALSE) \in Tested!validate_response_code(m)
    BY DEF Tested!validate_response_code
  <1>2. CASE is_connection_terminated
    <2>1. v.event = "TERMINATE_CONNECTION"
      BY <1>2 DEF din_validate_response_code
    <2>2. QED
      BY <1>1, <1>2, <2>1
  <1>3. CASE ~is_connection_terminated
    <2>1. PICK known \in BOOLEAN :
              LET failed == \/ code = "FAILED" \/ Aborting \/ ~din_validate_state(request)
                            \/ request # "SessionSetup" /\ ~known
              IN  v = [code  |-> IF failed THEN "FAILED" ELSE code,
                       event |-> IF failed /\ terminate_connection_on_failed_response
                                 THEN "SEND_AND_TERMINATE" ELSE "NO_EVENT"]
      BY <1>3 DEF din_validate_response_code
    <2> DEFINE failed == \/ code = "FAILED" \/ Aborting \/ ~din_validate_state(request)
                         \/ request # "SessionSetup" /\ ~known
    <2>2. v.event = IF failed /\ terminate_connection_on_failed_response
                    THEN "SEND_AND_TERMINATE" ELSE "NO_EVENT"
      BY <2>1
    <2>3. CASE failed
      BY <1>1, <1>3, <2>2, <2>3
    <2>4. CASE ~failed
      <3>1. Tested!InOrder(m)
        BY <2>4, AllowedIsInOrder
      <3>2. w(TRUE) \in Tested!validate_response_code(m)
        BY <3>1 DEF Tested!validate_response_code
      <3>3. v.event = "NO_EVENT"
        BY <2>2, <2>4
      <3>4. QED
        BY <1>3, <3>2, <3>3
    <2>5. QED
      BY <2>3, <2>4
  <1>4. QED
    BY <1>2, <1>3

\* A step of this server does not touch what belongs to a test.
LEMMA UntestedUnchanged ==
    ASSUME UNCHANGED <<config, is_connection_terminated>>
    PROVE  Tested!Talks /\ UNCHANGED <<Tested!linkVars, Tested!testVars, Tested!config>>
  <1>1. Tested!Talks
    <2>1. NotTested.talked = FALSE /\ NotTested.last = 0
      BY DEF NotTested
    <2>2. NotTested \in [last : Nat, talked : BOOLEAN, stopped : Nat]
      BY DEF NotTested
    <2>3. (NotTested.talked \/ NotTested.last > 0) = FALSE
      BY <2>1
    <2>4. NotTested = [NotTested EXCEPT !.talked = FALSE]
      BY <2>1, <2>2
    <2>5. NotTested' = NotTested
      BY DEF NotTested
    <2>6. QED
      BY <2>3, <2>4, <2>5 DEF Tested!Talks
  <1>2. UNCHANGED <<Tested!linkVars, Tested!testVars, Tested!config>>
    BY DEF Tested!linkVars, Tested!testVars, Tested!config, NotTested, config
  <1>3. QED
    BY <1>1, <1>2

\* The next state is one which the test cases reckon with.
Follows(request, next) ==
    /\ request \in Messages \ {"Unknown", "SessionStop"} /\ next \in 0..12
    /\ V2gMsg[Expected[next + 1]] \in Tested!NextStates(V2gMsg[request])

\* The states that the handlers set
LEMMA NextFollows ==
    /\ Follows("SessionSetup", Din.SERVICEDISCOVERY)
    /\ Follows("ServiceDiscovery", Din.PAYMENTSERVICESELECTION)
    /\ Follows("PaymentServiceSelection", Din.AUTHORIZATION)
    /\ Follows("Authorization", Din.AUTHORIZATION)
    /\ Follows("Authorization", Din.CHARGEPARAMETERDISCOVERY)
    /\ Follows("ChargeParameterDiscovery", Din.CABLECHECK)
    /\ Follows("CableCheck", Din.CABLECHECK)
    /\ Follows("CableCheck", Din.PRECHARGE)
    /\ Follows("PreCharge", Din.PRECHARGE_POWERDELIVERY)
    /\ Follows("PowerDelivery", Din.WELDINGDETECTION_SESSIONSTOP)
    /\ Follows("CurrentDemand", Din.CURRENTDEMAND_POWERDELIVERY)
    /\ Follows("WeldingDetection", Din.WELDINGDETECTION_SESSIONSTOP)
    /\ last_v2g_msg \in Messages \ {"CurrentDemand"}
       => Follows("PowerDelivery", Din.CURRENTDEMAND)
  BY DEF Follows, Messages, Din, V2gMsg, Expected, Tested!NextStates, Tested!Msg

\* What a handler must show: that its next state is one which the test cases reckon with.
LEMMA ServedAsExpected ==
    ASSUME TypeOK, session = "open", UNCHANGED <<config, is_connection_terminated>>,
           NEW request, NEW code \in {"OK", "FAILED"}, NEW next, Follows(request, next),
           NEW v \in din_validate_response_code(request, code), Reply(request, v, next)
    PROVE  ServedByBase
  <1> USE DEF Follows
  <1> DEFINE m == V2gMsg[request]
  <1>1. m \in {1, 2, 4, 6, 7, 12, 13, 14, 15, 16}
    BY DEF V2gMsg, Messages
  <1>2. m \in Tested!Requests
    <2>1. {1, 2, 4, 6, 7, 12, 13, 14, 15, 16} \subseteq Tested!Requests
      BY DEF Tested!Requests, Tested!Msg
    <2>2. QED
      BY <1>1, <2>1
  <1>3. ~Tested!Ignored(m)
    BY <1>1 DEF Tested!Ignored, Tested!Msg
  <1>4. PICK w \in Tested!validate_response_code(m) : w.event = v.event
    BY AnswerIsKnown
  <1>5. Tested!Reply(m, w.event, V2gMsg[Expected[next + 1]])
    <2>1. v.event \in {"NO_EVENT", "SEND_AND_TERMINATE", "TERMINATE_CONNECTION"}
      BY Responses
    <2>2. SessionOf[session'] = IF v.event \in {"SEND_AND_TERMINATE", "TERMINATE_CONNECTION"}
                                THEN "closing" ELSE "open"
      BY <2>1 DEF Reply, SessionOf
    <2>3. V2gMsg[last_v2g_msg'] = m /\ state' = next /\ v.event # "IGNORE_MSG"
      BY <2>1 DEF Reply
    <2>4. QED
      BY <1>4, <2>2, <2>3 DEF Tested!Reply
  <1>6. Tested!Talks /\ UNCHANGED <<Tested!linkVars, Tested!testVars, Tested!config>>
    BY UntestedUnchanged
  <1>7. Tested!BaseHandles(m)
    BY <1>3, <1>4, <1>5, <1>6 DEF Tested!BaseHandles
  <1>8. m # V2gMsg.SessionStop
    BY <1>1 DEF V2gMsg
  <1>9. QED
    BY <1>2, <1>6, <1>7, <1>8 DEF ServedByBase

\* After the response to SessionStop the connection ends, for the test cases, too.
LEMMA StopIsServed ==
    ASSUME TypeOK, handle_din_session_stop
    PROVE  ServedByBase
  <1> USE DEF Reply
  <1>1. PICK v \in din_validate_response_code("SessionStop", "OK") :
            Reply("SessionStop", [v EXCEPT !.event = "SEND_AND_TERMINATE"],
                  Din.TERMINATED_SESSION)
    BY DEF handle_din_session_stop
  <1>2. "SessionStop" \in Messages
    BY DEF Messages
  <1>3. [v EXCEPT !.event = "SEND_AND_TERMINATE"].event = "SEND_AND_TERMINATE"
    BY <1>2, Responses
  <1>4. session' = "ending" /\ last_v2g_msg' = "SessionStop" /\ state' = 12
    BY <1>1, <1>3 DEF Din
  <1>5. V2gMsg.SessionStop = 17 /\ 17 \in Tested!Requests
    BY DEF V2gMsg, Tested!Requests, Tested!Msg
  <1>6. Tested!Reply(Tested!Msg.SESSION_STOP, "SEND_AND_TERMINATE", Tested!Msg.UNKNOWN)
    BY <1>4 DEF Tested!Reply, Tested!Msg, V2gMsg, Expected, SessionOf
  <1>7. NotTested' = [NotTested EXCEPT !.stopped = 0]
    <2>1. NotTested \in [last : Nat, talked : BOOLEAN, stopped : Nat] /\ NotTested.stopped = 0
      BY DEF NotTested
    <2>2. NotTested' = NotTested
      BY DEF NotTested
    <2>3. QED
      BY <2>1, <2>2
  <1>8. UNCHANGED <<Tested!linkVars, Tested!config>>
    BY DEF Tested!linkVars, Tested!config, handle_din_session_stop, config, abortVars
  <1>9. Tested!HandleSessionStop(FALSE)
    BY <1>6, <1>7, <1>8 DEF Tested!HandleSessionStop, NotTested
  <1>10. QED
    BY <1>5, <1>8, <1>9 DEF ServedByBase, handle_din_session_stop

\* A charge that is asked for once more ends the session, for the test cases, too.
LEMMA PowerDeliveryIsServed ==
    ASSUME TypeOK, NEW ready \in BOOLEAN, handle_din_power_delivery(ready)
    PROVE  ServedByBase
  <1>1. UNCHANGED <<config, is_connection_terminated>> /\ session = "open"
    BY DEF handle_din_power_delivery, abortVars
  <1>2. PICK code \in {"OK", "FAILED"} :
            \E v \in din_validate_response_code("PowerDelivery", code) :
                IF ready /\ last_v2g_msg # "CurrentDemand" THEN StartCharging(v)
                                                           ELSE EndCharging(ready, v)
    BY DEF handle_din_power_delivery
  <1>3. PICK v \in din_validate_response_code("PowerDelivery", code) :
            IF ready /\ last_v2g_msg # "CurrentDemand" THEN StartCharging(v)
                                                       ELSE EndCharging(ready, v)
    BY <1>2
  <1>4. CASE ready /\ last_v2g_msg # "CurrentDemand"
    <2>1. Reply("PowerDelivery", v, Din.CURRENTDEMAND)
      BY <1>3, <1>4 DEF StartCharging
    <2>2. Follows("PowerDelivery", Din.CURRENTDEMAND)
      BY <1>4, NextFollows DEF TypeOK
    <2>3. QED
      BY <1>1, <2>1, <2>2, ServedAsExpected
  <1>5. CASE ~ready
    <2>1. Reply("PowerDelivery", v, Din.WELDINGDETECTION_SESSIONSTOP)
      BY <1>3, <1>5 DEF EndCharging
    <2>2. QED
      BY <1>1, <2>1, NextFollows, ServedAsExpected
  <1>6. CASE ready /\ last_v2g_msg = "CurrentDemand"
    <2>1. Reply("PowerDelivery", [code |-> "FAILED", event |-> "SEND_AND_TERMINATE"],
                Din.WELDINGDETECTION_SESSIONSTOP)
      BY <1>3, <1>6 DEF EndCharging
    <2>2. session' = "ending" /\ last_v2g_msg' = "PowerDelivery" /\ state' = 10
      BY <2>1 DEF Reply, Din
    <2>3. Tested!Reply(14, "SEND_AND_TERMINATE", Tested!Msg.WELDING_DETECTION)
      BY <2>2 DEF Tested!Reply, Tested!Msg, V2gMsg, Expected, SessionOf
    <2>4. Tested!ChargesAgain(14) /\ ~Tested!Ignored(14)
      BY <1>6 DEF Tested!ChargesAgain, Tested!Ignored, Tested!Msg, V2gMsg
    <2>5. Tested!BaseHandles(14)
      BY <1>1, <2>3, <2>4, UntestedUnchanged DEF Tested!BaseHandles
    <2>6. 14 \in Tested!Requests /\ 14 # V2gMsg.SessionStop
      BY DEF Tested!Requests, Tested!Msg, V2gMsg
    <2>7. QED
      BY <1>1, <2>5, <2>6, UntestedUnchanged DEF ServedByBase
  <1>7. QED
    BY <1>4, <1>5, <1>6

\* A request is served as the test cases expect, or ignored.
LEMMA RequestIsServed ==
    ASSUME TypeOK, Request
    PROVE  ServedByBase \/ UNCHANGED vars
  <1> USE DEF config, abortVars
  <1>2. CASE handle_din_session_setup
    BY <1>2, NextFollows, ServedAsExpected DEF handle_din_session_setup
  <1>3. CASE handle_din_service_discovery
    BY <1>3, NextFollows, ServedAsExpected DEF handle_din_service_discovery
  <1>4. CASE handle_din_service_payment_selection
    BY <1>4, NextFollows, ServedAsExpected DEF handle_din_service_payment_selection
  <1>5. CASE handle_din_contract_authentication
    BY <1>5, NextFollows, ServedAsExpected DEF handle_din_contract_authentication
  <1>6. CASE handle_din_charge_parameter
    BY <1>6, NextFollows, ServedAsExpected DEF handle_din_charge_parameter
  <1>7. CASE handle_din_cable_check
    BY <1>7, NextFollows, ServedAsExpected DEF handle_din_cable_check
  <1>8. CASE handle_din_pre_charge
    BY <1>8, NextFollows, ServedAsExpected DEF handle_din_pre_charge
  <1>9. ASSUME NEW ready \in BOOLEAN, handle_din_power_delivery(ready) PROVE ServedByBase
    BY <1>9, PowerDeliveryIsServed
  <1>10. CASE handle_din_current_demand
    BY <1>10, NextFollows, ServedAsExpected DEF handle_din_current_demand
  <1>11. CASE handle_din_welding_detection
    BY <1>11, NextFollows, ServedAsExpected DEF handle_din_welding_detection
  <1>12. CASE handle_din_session_stop
    BY <1>12, StopIsServed
  <1>13. CASE IgnoreRequest
    BY <1>13 DEF IgnoreRequest
  <1>14. QED
    BY Request, <1>2, <1>3, <1>4, <1>5, <1>6, <1>7, <1>8, <1>9, <1>10, <1>11, <1>12, <1>13
       DEF Request

\* Each step is one that the test cases reckon with, or none that they see.
LEMMA NextIsServed ==
    ASSUME TypeOK, [Next]_vars
    PROVE  [SessionStarts \/ SessionEnds \/ ServedByBase
            \/ Tested!DlinkTerminated]_(Tested!vars)
  <1> DEFINE Unseen == UNCHANGED <<config, is_connection_terminated, replyVars>>
  <1>1. ASSUME Unseen PROVE UNCHANGED Tested!vars
    BY <1>1 DEF Tested!vars, Tested!config, Tested!linkVars, Tested!replyVars, Tested!bspVars,
                Tested!testVars, config, replyVars, NotTested
  <1>2. CASE Connect
    BY <1>2 DEF Connect, SessionStarts, v2g_ctx_init_charging_state, Din
  <1>3. CASE EndSession
    BY <1>3 DEF EndSession, SessionEnds
  <1>4. CASE Request
    <2>1. UNCHANGED vars => Unseen
      BY DEF vars, abortVars
    <2>2. QED
      BY <1>1, <1>4, <2>1, RequestIsServed
  <1>5. ASSUME NEW accepted \in BOOLEAN, handle_authorization_response(accepted) PROVE Unseen
    BY <1>5 DEF handle_authorization_response, abortVars
  <1>6. ASSUME NEW status \in BOOLEAN, handle_cable_check_finished(status) PROVE Unseen
    BY <1>6 DEF handle_cable_check_finished, abortVars
  <1>7. ASSUME NEW good \in BOOLEAN, handle_update_isolation_status(good) PROVE Unseen
    BY <1>7 DEF handle_update_isolation_status, abortVars
  <1>8. CASE (\E stop \in BOOLEAN : StopHlc(stop)) \/ EmergencyShutdown
    BY <1>1, <1>8 DEF StopHlc, EmergencyShutdown
  <1>9. CASE handle_dlink_ready
    <2>1. CASE is_connection_terminated
      BY <1>1, <1>9, <2>1 DEF handle_dlink_ready, TypeOK
    <2>2. CASE ~is_connection_terminated
      BY <1>9, <2>2
         DEF handle_dlink_ready, Tested!DlinkTerminated, Tested!config, Tested!replyVars,
             Tested!bspVars, Tested!testVars, config, replyVars, NotTested, SessionOf
    <2>3. QED
      BY <2>1, <2>2
  <1>10. CASE UNCHANGED vars
    BY <1>1, <1>10 DEF vars, abortVars
  <1>11. QED
    BY <1>1, <1>2, <1>3, <1>4, <1>5, <1>6, <1>7, <1>8, <1>9, <1>10 DEF Next, Command

\* The base server that the models of the test cases reduce this one to allows all that it
\* does: each request that the table lets through is in order there, each response ends the
\* session there as it does here, and the next request that a handler expects is one of
\* those that the test cases reckon with.
THEOREM BaseServerImplemented == Spec => ImplementsBaseServer
  <1>1. TypeOK /\ [Next]_vars
        => [SessionStarts \/ SessionEnds \/ ServedByBase
            \/ Tested!DlinkTerminated]_(Tested!vars)
    BY NextIsServed
  <1>2. QED
    BY <1>1, TypeCorrect, PTL DEF Spec, ImplementsBaseServer
=============================================================================
