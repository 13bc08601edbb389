---------------------------- MODULE StateFTests -----------------------------
(***************************************************************************)
(* The test cases in which the charger signals control pilot state F, the  *)
(* error state, while it answers a request as usual: the vehicle has to    *)
(* close the connection in time.  The control pilot's state B does not     *)
(* matter here.                                                            *)
(***************************************************************************)
EXTENDS TestSession

\* The base server handles the request; if that goes well, state F is signalled, which is
\* the moment the vehicle is judged from.  "stopped": the session is stopped meanwhile, the
\* response fails.  "missed": state F is not confirmed, or was there already.  failed: what
\* an earlier request of the kind has left.
SignalStateF(request, results, failed) ==
    /\ \E v \in validate_response_code(request), next \in NextStates(request), result \in results :
          LET good  == Succeeds(v) /\ result = "signalled"
              event == CASE ~Succeeds(v) -> v.event
                         [] Succeeds(v) /\ result = "missed" -> "SEND_AND_TERMINATE"
                         [] Succeeds(v) /\ result = "stopped"
                            /\ terminate_connection_on_failed_response -> "SEND_AND_TERMINATE"
                         [] OTHER -> "NO_EVENT"
          IN  /\ Reply(request, event, next)
              /\ base' = [base EXCEPT !.received = TRUE,
                              !.res_time = IF Succeeds(v) /\ result # "missed" THEN clock ELSE @,
                              !.failed = failed \/ ~Succeeds(v) \/ result = "stopped"]
              /\ force_next_connection_req_res' \in
                    (IF Succeeds(v) THEN {TRUE} ELSE {force_next_connection_req_res})
                    \union (IF Succeeds(v) /\ result = "missed"
                            THEN {force_next_connection_req_res} ELSE {})
              /\ seen' = [seen EXCEPT !.first = IF good THEN clock ELSE @,
                                      !.last = IF good THEN clock ELSE @,
                                      !.talked = @ \/ seen.last > 0]
    /\ UNCHANGED <<is_connection_terminated, outcome, clock>>

\* While the F time is younger than a timeout; its age is taken the wrong way round, so
\* that it always is.
NotExpired == base.res_time > 0 => base.res_time - clock <= TcpTimeout

StateFVerdict ==
    Verdict(base.received /\ ~base.failed /\ (base.extra \/ base.res_time > 0),
            ~base.extra /\ clock - base.res_time <= TcpTimeout)

-----------------------------------------------------------------------------
(***************************************************************************)
(* chn_session_setup_007: state F before SessionSetupRes                   *)
(***************************************************************************)
session_setup_007_verdict == StateFVerdict

session_setup_007_din_accepts == {m \in Requests : m < Msg.POWER_DELIVERY /\ NotExpired}

session_setup_007_din_session_setup ==
    SignalStateF(Msg.SESSION_SETUP, {"signalled", "stopped"}, base.failed)

session_setup_007_iso_accepts == {m \in Requests : m < Msg.POWER_DELIVERY /\ NotExpired}

session_setup_007_iso_session_setup ==
    SignalStateF(Msg.SESSION_SETUP, {"signalled", "stopped"}, base.failed)

\* SessionStop is not accepted.
session_setup_007 ==
    /\ test = "session_setup_007"
    /\ \/ /\ protocol = "DIN"
          /\ TestServer(session_setup_007_din_accepts, Msg.SESSION_SETUP,
                        session_setup_007_din_session_setup, FALSE)
       \/ /\ protocol = "ISO"
          /\ TestServer(session_setup_007_iso_accepts, Msg.SESSION_SETUP,
                        session_setup_007_iso_session_setup, FALSE)

-----------------------------------------------------------------------------
(***************************************************************************)
(* chn_service_detail_payment_selection_012: state F before the response   *)
(* to PaymentServiceSelection, if the board support module confirms it     *)
(***************************************************************************)
service_detail_payment_selection_012_verdict ==
    Verdict(base.received /\ ~base.failed /\ base.res_time > 0,
            /\ ~base.extra /\ clock - base.res_time <= TcpTimeout
            /\ outcome # "PassCriteriaNotMet")

service_detail_payment_selection_012_din_accepts ==
    {m \in Requests : m < Msg.POWER_DELIVERY /\ NotExpired}

service_detail_payment_selection_012_din_service_payment_selection ==
    SignalStateF(Msg.PAYMENT_SERVICE_SELECTION, {"signalled", "stopped", "missed"}, base.failed)

service_detail_payment_selection_012_iso_accepts ==
    {m \in Requests : m < Msg.POWER_DELIVERY /\ NotExpired}

service_detail_payment_selection_012_iso_payment_service_selection ==
    SignalStateF(Msg.PAYMENT_SERVICE_SELECTION, {"signalled", "stopped", "missed"}, base.failed)

service_detail_payment_selection_012 ==
    /\ test = "service_detail_payment_selection_012"
    /\ \/ /\ protocol = "DIN"
          /\ TestServer(service_detail_payment_selection_012_din_accepts,
                        Msg.PAYMENT_SERVICE_SELECTION,
                        service_detail_payment_selection_012_din_service_payment_selection, FALSE)
       \/ /\ protocol = "ISO"
          /\ TestServer(service_detail_payment_selection_012_iso_accepts,
                        Msg.PAYMENT_SERVICE_SELECTION,
                        service_detail_payment_selection_012_iso_payment_service_selection, FALSE)

-----------------------------------------------------------------------------
(***************************************************************************)
(* chn_current_demand_007: state F before CurrentDemandRes.  Afterwards    *)
(* every request is accepted, and a repeated one is judged anew.           *)
(***************************************************************************)
current_demand_007_verdict == StateFVerdict

current_demand_007_din_accepts ==
    {m \in Requests : \/ m <= Msg.CURRENT_DEMAND /\ ~base.received
                      \/ base.res_time > 0 /\ NotExpired}

current_demand_007_din_current_demand ==
    SignalStateF(Msg.CURRENT_DEMAND, {"signalled", "stopped"}, FALSE)

current_demand_007_iso_accepts ==
    {m \in Requests : \/ m <= Msg.CURRENT_DEMAND /\ ~base.received
                      \/ base.res_time > 0 /\ NotExpired}

current_demand_007_iso_current_demand ==
    SignalStateF(Msg.CURRENT_DEMAND, {"signalled", "stopped"}, FALSE)

current_demand_007 ==
    /\ test = "current_demand_007"
    /\ \/ /\ protocol = "DIN"
          /\ TestServer(current_demand_007_din_accepts, Msg.CURRENT_DEMAND,
                        current_demand_007_din_current_demand, HandleSessionStop(FALSE))
       \/ /\ protocol = "ISO"
          /\ TestServer(current_demand_007_iso_accepts, Msg.CURRENT_DEMAND,
                        current_demand_007_iso_current_demand, HandleSessionStop(FALSE))
=============================================================================
