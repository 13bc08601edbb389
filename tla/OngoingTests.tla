---------------------------- MODULE OngoingTests ----------------------------
(***************************************************************************)
(* The test cases in which the server never finishes: the vehicle has to   *)
(* repeat its request until a timer of its own expires, and then to enter  *)
(* state B and to close the connection in time.  A vehicle that never      *)
(* gives up is stopped by the server.                                      *)
(*                                                                         *)
(* Requests and responses of one request have the same time.  The system   *)
(* clock is Epoch ahead of the monotonic clock, which chn_authorization_009*)
(* uses as well.  Bound: no more requests after one that has failed, which *)
(* the verdict remembers (~base.failed).                                   *)
(***************************************************************************)
EXTENDS TestSession

CONSTANT Epoch

ASSUME EpochAssumption == Epoch \in Nat /\ Epoch > MaxTime + StateBTimeout

\* handle_request lets these through, before and after the first request of the test.
GoodCase(last) == {m \in Requests : m <= last} \union {Msg.SESSION_STOP}

\* mutant: counted from the last response
running_forever_SinceLast(first_time) ==
    clock - base.res_time > OngoingTimeout + TcpTimeout

\* Nobody can doubt any more that the vehicle's timer has expired.
running_forever(first_time) == clock - first_time > OngoingTimeout + TcpTimeout

\* The vehicle gave up when its timer expired: its last request came in time, and the
\* next one, as late after the last response as any, would not have.
GaveUpInTime ==
    LET elapsed == base.req_time - base.first_time
    IN  elapsed <= OngoingTimeout /\ OngoingTimeout <= elapsed + base.sequence_time

\* The test has counted the vehicle's time from here, and seen its last request and the
\* response to it.
Measured == base.first_time > 0 /\ base.req_time > 0 /\ base.res_time > 0

LongerOf(a, b) == IF a < b THEN b ELSE a

\* The request is repeated: the first one, or the first one after another request, starts
\* the timer.  The longest time between a response and the next request is kept; last_time
\* is the request that it is taken from.
Repeated(request, last_time) ==
    [base EXCEPT !.received = TRUE,
                 !.first_time = IF last_v2g_msg = request THEN @ ELSE clock,
                 !.sequence_time = IF base.res_time > 0
                                   THEN LongerOf(@, last_time - base.res_time) ELSE @,
                 !.req_time = clock]

\* The response to it.  good: the vehicle was asked to go on, or would have been; forever: it
\* is told that it has failed, instead; starts: the vehicle's timer runs at the latest now;
\* validate: whether state B is still to be entered.
Answered(request, event, next, repeated, good, forever, starts, validate) ==
    LET replied == event \in {"NO_EVENT", "SEND_AND_TERMINATE"}
    IN  /\ StampsAreEarlier
        /\ Reply(request, event, next)
        /\ base' = [repeated EXCEPT !.aborted = @ \/ forever,
                                    !.failed = @ \/ ~good,
                                    !.res_time = IF replied THEN clock ELSE @,
                                    !.validate = IF replied THEN validate ELSE @]
        /\ seen' = IF good /\ ~forever
                   THEN ResponseSent(IF seen.first = 0 /\ starts THEN clock ELSE seen.first, clock)
                   ELSE seen
        /\ UNCHANGED <<linkVars, outcome, clock>>

\* After too long a time the response is a failure, whatever the configuration, and the end.
Answer(request, v, next, repeated, validate) ==
    LET forever == Succeeds(v) /\ running_forever(repeated.first_time)
    IN  Answered(request, IF forever THEN "SEND_AND_TERMINATE" ELSE v.event, next, repeated,
                 Succeeds(v), forever, TRUE, validate)

-----------------------------------------------------------------------------
(***************************************************************************)
(* chn_authorization_009: Authorization is never finished.  DIN 70121 only *)
(***************************************************************************)
authorization_009_takes_b_time == base.validate

\* The session's times are taken from the system clock, the others are monotonic.
system_time(time) == IF time = 0 THEN 0 ELSE Epoch + time

authorization_009_StateBMissed ==
    /\ base.validate
    /\ LET b_time == system_time(base.b_time)
       IN  b_time < base.res_time \/ b_time - base.res_time > StateBTimeout

\* After SessionStop the time to close is taken from an epoch to a monotonic time.
authorization_009_CloseLate ==
    clock - (IF base.stop_res_time > 0 THEN system_time(base.stop_res_time)
                                       ELSE base.res_time) > TcpTimeout

authorization_009_verdict ==
    Verdict(/\ base.received /\ ~base.failed
            /\ base.extra \/ base.aborted \/ Measured,
            /\ ~base.extra /\ ~base.aborted /\ GaveUpInTime
            /\ ~authorization_009_StateBMissed
            /\ ~StopLate(base.res_time) /\ ~authorization_009_CloseLate
            /\ outcome = "PreconditionsNotMet")

authorization_009_accepts == GoodCase(Msg.AUTHORIZATION)

\* The base handler is not called; state B is to be validated once it was missing.
authorization_009_contract_authentication ==
    \E v \in validate_response_code(Msg.AUTHORIZATION) :
        Answer(Msg.AUTHORIZATION, v, Msg.AUTHORIZATION, Repeated(Msg.AUTHORIZATION, clock),
               base.validate \/ cp_state # "B")

authorization_009_session_stop == HandleSessionStop(base.received)

authorization_009 ==
    /\ test = "authorization_009" /\ protocol = "DIN" /\ ~base.failed
    /\ TestServer(authorization_009_accepts, Msg.AUTHORIZATION,
                  authorization_009_contract_authentication, authorization_009_session_stop)

-----------------------------------------------------------------------------
(***************************************************************************)
(* chn_precharge_006: the voltage is never reached.  The time between a    *)
(* response and the next request is taken from the request before it, so   *)
(* that it is never positive.                                              *)
(***************************************************************************)
precharge_006_takes_b_time == base.validate

\* SessionStop is timed even when PreCharge was not reached.
precharge_006_verdict ==
    Verdict(/\ base.received /\ ~base.failed
            /\ base.extra \/ base.aborted \/ Measured,
            /\ ~base.extra /\ ~base.aborted /\ GaveUpInTime
            /\ ~StateBMissed(base.res_time, base.res_time + StateBTimeout)
            /\ base.stop_res_time - base.res_time <= TcpTimeout
            /\ clock - LongerOf(base.stop_res_time, base.res_time) <= TcpTimeout
            /\ outcome = "PreconditionsNotMet")

precharge_006_din_accepts == GoodCase(Msg.PRE_CHARGE)

precharge_006_din_pre_charge ==
    \E v \in validate_response_code(Msg.PRE_CHARGE) :
        Answer(Msg.PRE_CHARGE, v, Msg.POWER_DELIVERY, Repeated(Msg.PRE_CHARGE, base.req_time),
               cp_state # "B")

precharge_006_din_session_stop == HandleSessionStop(TRUE)

precharge_006_iso_accepts == GoodCase(Msg.PRE_CHARGE)

precharge_006_iso_pre_charge ==
    \E v \in validate_response_code(Msg.PRE_CHARGE) :
        Answer(Msg.PRE_CHARGE, v, Msg.POWER_DELIVERY, Repeated(Msg.PRE_CHARGE, base.req_time),
               cp_state # "B")

precharge_006_iso_session_stop == HandleSessionStop(TRUE)

precharge_006 ==
    /\ test = "precharge_006" /\ ~base.failed
    /\ \/ /\ protocol = "DIN"
          /\ TestServer(precharge_006_din_accepts, Msg.PRE_CHARGE,
                        precharge_006_din_pre_charge, precharge_006_din_session_stop)
       \/ /\ protocol = "ISO"
          /\ TestServer(precharge_006_iso_accepts, Msg.PRE_CHARGE,
                        precharge_006_iso_pre_charge, precharge_006_iso_session_stop)

-----------------------------------------------------------------------------
(***************************************************************************)
(* chn_cable_check_006: the cable check is never finished.  The vehicle's  *)
(* timer starts between the response to ChargeParameterDiscovery and the   *)
(* second CableCheck.                                                      *)
(***************************************************************************)
cable_check_006_takes_b_time == base.validate

EarlierOf(a, b) == IF a < b THEN a ELSE b

\* The time of state B has no lower bound.
cable_check_006_StateBMissed ==
    /\ base.validate
    /\ \/ base.b_time = 0
       \/ EarlierOf(base.b_time, base.res_time + base.sequence_time) + StateBTimeout < base.b_time

cable_check_006_CloseLate ==
    LET from == IF base.stop_req_time > 0 /\ base.stop_res_time > 0
                THEN base.stop_res_time ELSE base.req_time
    IN  clock - EarlierOf(clock, from + base.sequence_time) > TcpTimeout

cable_check_006_verdict ==
    Verdict(/\ base.received /\ ~base.failed
            /\ base.extra \/ base.aborted \/ (Measured /\ base.earliest > 0),
            /\ ~base.extra /\ ~base.aborted
            /\ base.earliest + OngoingTimeout <= base.res_time + base.sequence_time
            /\ base.req_time - base.last_sequence <= base.first_time + OngoingTimeout
            /\ ~cable_check_006_StateBMissed
            /\ base.stop_req_time > 0 =>
                  base.stop_req_time
                  <= EarlierOf(clock, base.req_time + base.sequence_time) + TcpTimeout
            /\ ~cable_check_006_CloseLate
            /\ outcome # "PassCriteriaNotMet")

cable_check_006_accepts == GoodCase(Msg.CABLE_CHECK)

\* It ends the session, the outcome is left to the verdict.
cable_check_006_unexpected_request ==
    /\ session' = "closing"
    /\ base' = [base EXCEPT !.extra = TRUE]
    /\ Talks
    /\ UNCHANGED <<linkVars, state, last_v2g_msg, outcome, clock>>

\* handle_din_charge_parameter, handle_iso_charge_parameter_discovery
cable_check_006_charge_parameter ==
    /\ \E v \in validate_response_code(Msg.CHARGE_PARAMETER_DISCOVERY),
          next \in NextStates(Msg.CHARGE_PARAMETER_DISCOVERY) :
          /\ Reply(Msg.CHARGE_PARAMETER_DISCOVERY, v.event, next)
          /\ base' = IF v.event = "NO_EVENT" /\ next = Msg.CABLE_CHECK
                     THEN [base EXCEPT !.earliest = clock] ELSE base
    /\ Talks
    /\ UNCHANGED <<linkVars, outcome, clock>>

cable_check_006_repeated ==
    LET sequence == IF base.res_time > 0 THEN clock - base.res_time ELSE base.last_sequence
        again    == last_v2g_msg = Msg.CABLE_CHECK
    IN  [base EXCEPT !.received = @ \/ ~again,
                     !.first_time = IF again /\ @ = 0 THEN clock ELSE @,
                     !.last_sequence = sequence,
                     !.sequence_time = LongerOf(@, sequence),
                     !.req_time = clock]

\* A response whose status is not as expected is no success either.  The vehicle is told of
\* a failure before its session is ended, one request later.
cable_check_006_cable_check ==
    \E v \in validate_response_code(Msg.CABLE_CHECK), next \in NextStates(Msg.CABLE_CHECK),
      expected \in BOOLEAN :
        LET repeated == cable_check_006_repeated
            good     == Succeeds(v) /\ expected
            forever  == good /\ running_forever(LongerOf(repeated.earliest, repeated.first_time))
        IN  Answered(Msg.CABLE_CHECK,
                     IF forever /\ base.aborted THEN "SEND_AND_TERMINATE" ELSE v.event,
                     IF good THEN Msg.CABLE_CHECK ELSE next,
                     repeated, good, forever, last_v2g_msg = Msg.CABLE_CHECK, cp_state # "B")

cable_check_006_session_stop == HandleSessionStop(base.received)

\* Bound: what the vehicle sends once the cable check is ongoing.  Other requests before
\* CableCheck would be answered with a failure, out of order, and CertificateInstallation like
\* them unless a failed response ends the session.
cable_check_006_sent ==
    IF seen.last = 0 THEN Requests
    ELSE {Msg.CABLE_CHECK, Msg.POWER_DELIVERY, Msg.SESSION_STOP}
         \union (IF terminate_connection_on_failed_response THEN {Msg.CERTIFICATE_INSTALLATION}
                 ELSE {})

cable_check_006 ==
    /\ test = "cable_check_006" /\ ~base.failed
    /\ session = "open" /\ clock < MaxTime
    /\ \E m \in cable_check_006_sent :
          IF m \notin cable_check_006_accepts THEN cable_check_006_unexpected_request
          ELSE CASE m = Msg.CABLE_CHECK                -> cable_check_006_cable_check
                 [] m = Msg.CHARGE_PARAMETER_DISCOVERY -> cable_check_006_charge_parameter
                 [] m = Msg.SESSION_STOP               -> cable_check_006_session_stop
                 [] OTHER                              -> BaseHandles(m)
    /\ UNCHANGED <<config, bspVars>>
=============================================================================
