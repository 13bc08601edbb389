---------------------------- MODULE WeldingTest -----------------------------
(***************************************************************************)
(* chn_welding_session_stop_001: the server follows the protocol.  A       *)
(* vehicle that charges for too long is asked to stop, then stopped.  When *)
(* it has stopped, it has to enter state B, to send SessionStop, and then  *)
(* to close the connection, which the server leaves to it.                 *)
(***************************************************************************)
EXTENDS TestSession

CONSTANTS
    ChargingTimeout,        \* MAXIMUM_CHARGING_DURATION
    StopChargingTimeout     \* MAXIMUM_STOP_CHARGING_DURATION

ASSUME ChargingAssumption == {ChargingTimeout, StopChargingTimeout} \subseteq Nat \ {0}

\* The results of validation once the vehicle has been stopped, or not.  Every failed
\* response is remembered.
ResultsOf(request, forced) ==
    {v \in validate_response_code(request) : v.ok => ~forced \/ is_connection_terminated}

Noted(v) == [base EXCEPT !.failed = @ \/ ~v.ok]

\* A request that the base server handles
Handles(request, next_states) ==
    /\ \/ \E v \in ResultsOf(request, base.aborted), next \in next_states :
              Reply(request, v.event, next) /\ base' = Noted(v)
       \/ SentAsItIs(request) /\ UNCHANGED base
    /\ UNCHANGED <<linkVars, outcome, clock, seen>>

\* The vehicle has stopped charging: a response that is sent, even a failed one, is the
\* moment from which it is judged.
StopsCharging ==
    /\ StampsAreEarlier
    /\ \E v \in ResultsOf(Msg.POWER_DELIVERY, base.aborted) :
          /\ Reply(Msg.POWER_DELIVERY, v.event, Msg.WELDING_DETECTION)
          /\ IF v.event = "NO_EVENT"
             THEN /\ base' = [Noted(v) EXCEPT !.res_time = clock,
                                              !.validate = @ \/ cp_state # "B"]
                  /\ seen' = ResponseSent(seen.first, clock)
             ELSE base' = Noted(v) /\ UNCHANGED seen
    /\ UNCHANGED <<linkVars, outcome, clock>>

-----------------------------------------------------------------------------
welding_session_stop_001_takes_b_time == base.validate

\* received is not used: the vehicle has charged when first_time is set.
welding_session_stop_001_verdict ==
    Verdict(base.first_time > 0 /\ ~base.aborted /\ base.res_time > 0,
            /\ ~StateBMissed(base.res_time, base.res_time + StateBTimeout)
            /\ ~base.failed
            /\ base.stop_res_time > 0 /\ clock - base.stop_res_time <= TcpTimeout
            /\ outcome = "PreconditionsNotMet")

\* update_charging_timers, and the base handler
welding_session_stop_001_current_demand ==
    LET start   == IF base.first_time = 0 THEN clock ELSE base.first_time
        aborted == base.aborted \/ clock - start >= ChargingTimeout + StopChargingTimeout
    IN  /\ \E v \in ResultsOf(Msg.CURRENT_DEMAND, aborted) :
              /\ Reply(Msg.CURRENT_DEMAND, v.event, Msg.CURRENT_DEMAND)
              /\ base' = [Noted(v) EXCEPT !.first_time = start, !.aborted = aborted]
        /\ seen' = [seen EXCEPT !.first = IF @ = 0 THEN clock ELSE @]
        /\ UNCHANGED <<linkVars, outcome, clock>>

welding_session_stop_001_din_power_delivery ==
    \/ StopsCharging
    \/ Handles(Msg.POWER_DELIVERY, NextStates(Msg.POWER_DELIVERY) \ {Msg.WELDING_DETECTION})
    \/ /\ ChargesAgain(Msg.POWER_DELIVERY)
       /\ Reply(Msg.POWER_DELIVERY, "SEND_AND_TERMINATE", Msg.WELDING_DETECTION)
       /\ base' \in {base, [base EXCEPT !.failed = TRUE]}
       /\ UNCHANGED <<linkVars, outcome, clock, seen>>

welding_session_stop_001_iso_power_delivery ==
    StopsCharging \/ Handles(Msg.POWER_DELIVERY, NextStates(Msg.POWER_DELIVERY))

\* The response to SessionStop; a good one leaves the connection to the vehicle.
SessionStopAnswered(v, good, next) ==
    /\ Reply(Msg.SESSION_STOP, IF good THEN "NO_EVENT" ELSE "SEND_AND_TERMINATE", next)
    /\ base' = [Noted(v) EXCEPT !.stop_res_time = clock]
    /\ seen' = [seen EXCEPT !.stopped = clock]
    /\ UNCHANGED <<linkVars, outcome, clock>>

welding_session_stop_001_din_session_stop ==
    \E v \in ResultsOf(Msg.SESSION_STOP, base.aborted) :
        SessionStopAnswered(v, v.ok, Msg.UNKNOWN)

\* A pause is allowed after charging only.  The refusal comes after the validation, so that
\* it is not remembered as a failed response.
welding_session_stop_001_iso_session_stop ==
    \E v \in ResultsOf(Msg.SESSION_STOP, base.aborted) :
        \/ SessionStopAnswered(v, v.ok, Msg.UNKNOWN)
        \/ /\ last_v2g_msg \in {Msg.POWER_DELIVERY, Msg.WELDING_DETECTION}
           /\ SessionStopAnswered(v, v.ok, Msg.SESSION_SETUP)
        \/ /\ last_v2g_msg \notin {Msg.POWER_DELIVERY, Msg.WELDING_DETECTION}
           /\ SessionStopAnswered(v, FALSE, Msg.UNKNOWN)

\* Bound: what the vehicle sends after SessionStop, to resume a pause or to go on.
SentToWelding == IF base.stop_res_time = 0 THEN Requests
        ELSE {Msg.SESSION_SETUP, Msg.SERVICE_DISCOVERY, Msg.POWER_DELIVERY, Msg.SESSION_STOP}

\* Bound: no more requests after a failed response, which the verdict remembers.
welding_session_stop_001 ==
    /\ test = "welding_session_stop_001"
    /\ session = "open" /\ clock < MaxTime /\ ~base.failed
    /\ \E m \in SentToWelding :
          CASE m = Msg.CURRENT_DEMAND -> welding_session_stop_001_current_demand
            [] m = Msg.POWER_DELIVERY /\ protocol = "DIN" ->
                  welding_session_stop_001_din_power_delivery
            [] m = Msg.POWER_DELIVERY /\ protocol = "ISO" ->
                  welding_session_stop_001_iso_power_delivery
            [] m = Msg.SESSION_STOP /\ protocol = "DIN" ->
                  welding_session_stop_001_din_session_stop
            [] m = Msg.SESSION_STOP /\ protocol = "ISO" ->
                  welding_session_stop_001_iso_session_stop
            [] Ignored(m) -> UNCHANGED <<linkVars, replyVars, testVars, clock, seen>>
            [] OTHER -> Handles(m, NextStates(m))
    /\ UNCHANGED <<config, bspVars>>
=============================================================================
