---------------------------- MODULE SmartCharging ---------------------------
(***************************************************************************)
(* The test cases chx_smart_charging_scheduling_001 to 003: the server     *)
(* overwrites the charging schedule with one of three entries, judges the  *)
(* power that the vehicle asks for in each CurrentDemand, and asks it to   *)
(* stop when it has charged for long enough to have followed two of them.  *)
(*                                                                         *)
(* The session is taken from ChargeParameterDiscovery on; before that the  *)
(* tests leave everything to the base server.  Time passes once there is a *)
(* schedule, or the vehicle charges.                                       *)
(***************************************************************************)
EXTENDS TestSession, Sequences

CONSTANTS
    SetupTime,          \* MAX_SETUP_TIME
    GracePeriod,        \* V2G_TEST_SCHEDULE_ENTRY_GRACE_PERIOD
    MinTimeInEntry,     \* MIN_TIME_IN_ENTRY
    EntryDuration,      \* SCHEDULE_ENTRY_DURATION
    StopTimeout,        \* the 10 s of stop_charging
    Epoch,              \* getmonotonictime() when the session begins
    MaxPowers           \* bound: the power limits in W that a vehicle names

ASSUME ScheduleAssumption ==
    /\ {SetupTime, GracePeriod, MinTimeInEntry, EntryDuration, StopTimeout, Epoch}
       \subseteq Nat \ {0}
    /\ MaxPowers \subseteq Nat

VARIABLE stop_hlc

smartVars == <<vars, stop_hlc>>

\* SCHEDULE_ENTRY_START_0 and so on, and TARGET_CHARGING_DURATION
Start(entry) ==
    CASE entry = 0 -> 0
      [] entry = 1 -> SetupTime + GracePeriod + MinTimeInEntry
      [] entry = 2 -> SetupTime + GracePeriod + MinTimeInEntry
                      + GracePeriod + MinTimeInEntry + GracePeriod

TargetDuration == Start(1) + GracePeriod + MinTimeInEntry

\* An entry has begun before the time for which the one before it is allowed is over.
ASSUME DurationAssumption ==
    \A entry \in {1, 2} : Start(entry) <= Start(entry - 1) + EntryDuration + GracePeriod

\* The time since one that may never have been taken
Elapsed(since) == IF since = 0 THEN Epoch + clock ELSE clock - since

\* std::ceil(maximum_power * percent)
Percent(percent, maximum) == (percent * maximum + 99) \div 100

\* set_maximum_scheduled_power of the three tests.  With ISO 15118-2 the power that the
\* vehicle supports does not matter.
set_maximum_scheduled_power(maximum) ==
    CASE test = "smart_charging_001" /\ protocol = "DIN" ->
            <<Percent(10, maximum), Percent(40, maximum), Percent(60, maximum)>>
      [] test = "smart_charging_002" /\ protocol = "DIN" ->
            <<Percent(10, maximum), 0, Percent(60, maximum)>>
      [] test = "smart_charging_003" /\ protocol = "DIN" ->
            <<0, Percent(40, maximum), Percent(60, maximum)>>
      [] test = "smart_charging_001" /\ protocol = "ISO" -> <<1800, 1400, 1600>>
      [] test = "smart_charging_002" /\ protocol = "ISO" -> <<1500, 0, 1400>>
      [] test = "smart_charging_003" /\ protocol = "ISO" -> <<0, 1500, 1400>>

\* The PMax of an entry, -1 where there is none
PMax(entry) == IF entry \in 0..2 THEN base.maximum_scheduled_power[entry + 1] ELSE -1

NewSchedule == [schedule_start_time |-> 0, charging_start_time |-> 0,
                maximum_scheduled_power |-> <<0, 0, 0>>,
                ev_exceeded_scheduled_pmax |-> FALSE, ev_requested_nonzero_power |-> FALSE,
                stopping_charging_session |-> FALSE, gracefully_stopped_session |-> FALSE,
                stop_time |-> 0]

\* What the vehicle really saw and did: the last schedule that it was sent, and when; when it
\* began to charge, whether it charged for long enough since then, and since the schedule,
\* drew power, drew more than any entry in force or any within a grace period allows, was
\* refused something, got a schedule when it had begun to charge, and stopped the session,
\* and when it did so or disconnected.
NothingSeen == [schedule |-> <<0, 0, 0>>, scheduled |-> 0, started |-> 0, charged |-> FALSE,
                second_entry |-> FALSE, drew |-> FALSE, over |-> FALSE, beyond_grace |-> FALSE,
                refused |-> FALSE, renegotiated |-> FALSE, ended |-> FALSE, stopped |-> 0]

SmartInit ==
    /\ test \in {"smart_charging_001", "smart_charging_002", "smart_charging_003"}
    /\ protocol \in {"DIN", "ISO"} /\ terminate_connection_on_failed_response \in BOOLEAN
    /\ session = "open" /\ state = Msg.CHARGE_PARAMETER_DISCOVERY
    /\ last_v2g_msg = Msg.AUTHORIZATION
    /\ is_connection_terminated = FALSE /\ force_next_connection_req_res = FALSE
    /\ pilot = "C" /\ on_its_way = 0 /\ cp_state = "C" /\ bsp_event = 0 /\ stop_hlc = FALSE
    /\ outcome = "PreconditionsNotMet" /\ base = NewSchedule
    /\ clock = 1 /\ seen = NothingSeen

-----------------------------------------------------------------------------
(***************************************************************************)
(* The handlers: the base server's, and what the test does when it is done *)
(***************************************************************************)
\* Once stop_hlc is set, every response fails.
Results(m) == {v \in validate_response_code(m) : v.ok => ~stop_hlc \/ is_connection_terminated}

Answer(m, v, next) ==
    /\ Reply(m, v.event, next)
    /\ UNCHANGED <<linkVars, outcome, clock, stop_hlc>>

Refused(v) == [seen EXCEPT !.refused = @ \/ ~v.ok]

\* The vehicle is sent a schedule.
Scheduled(powers) ==
    [seen EXCEPT !.schedule = powers, !.scheduled = clock, !.renegotiated = seen.started > 0]

\* mutant: the schedule is timed once, as the charge is
ChargeParameterDiscovery_TimedOnce ==
    \E v \in Results(Msg.CHARGE_PARAMETER_DISCOVERY),
       next \in NextStates(Msg.CHARGE_PARAMETER_DISCOVERY), maximum \in MaxPowers :
       LET powers == set_maximum_scheduled_power(maximum)
       IN  /\ Answer(Msg.CHARGE_PARAMETER_DISCOVERY, v, next)
           /\ IF Succeeds(v) /\ next # Msg.CHARGE_PARAMETER_DISCOVERY
              THEN /\ base' = [base EXCEPT !.schedule_start_time = IF @ = 0 THEN clock ELSE @,
                                           !.maximum_scheduled_power = powers]
                   /\ seen' = Scheduled(powers)
              ELSE UNCHANGED base /\ seen' = Refused(v)

\* A good response in which the charge parameters are finished carries the schedule, also
\* when the vehicle charges: it has renegotiated, with ISO 15118-2, or has sent an earlier
\* request out of order, whose failed response did not end the connection.
ChargeParameterDiscovery ==
    \E v \in Results(Msg.CHARGE_PARAMETER_DISCOVERY),
       next \in NextStates(Msg.CHARGE_PARAMETER_DISCOVERY), maximum \in MaxPowers :
       LET powers == set_maximum_scheduled_power(maximum)
       IN  /\ Answer(Msg.CHARGE_PARAMETER_DISCOVERY, v, next)
           /\ IF Succeeds(v) /\ next # Msg.CHARGE_PARAMETER_DISCOVERY
              THEN /\ base' = [base EXCEPT !.schedule_start_time = clock,
                                           !.maximum_scheduled_power = powers]
                   /\ seen' = Scheduled(powers)
              ELSE UNCHANGED base /\ seen' = Refused(v)

\* mutant: charging is timed anew after each renegotiation
PowerDelivery_TimedAnew ==
    \/ \E v \in Results(Msg.POWER_DELIVERY), next \in NextStates(Msg.POWER_DELIVERY) :
          LET starts == Succeeds(v) /\ next = Msg.CURRENT_DEMAND
          IN  /\ Answer(Msg.POWER_DELIVERY, v, next)
              /\ base' = [base EXCEPT !.charging_start_time = IF starts THEN clock ELSE @]
              /\ seen' = [Refused(v) EXCEPT !.started = IF starts /\ @ = 0 THEN clock ELSE @]
    \/ /\ ChargesAgain(Msg.POWER_DELIVERY)
       /\ Answer(Msg.POWER_DELIVERY, [event |-> "SEND_AND_TERMINATE"], Msg.WELDING_DETECTION)
       /\ UNCHANGED <<base, seen>>

\* Charging starts once; it goes on while the vehicle renegotiates.
PowerDelivery ==
    \/ \E v \in Results(Msg.POWER_DELIVERY), next \in NextStates(Msg.POWER_DELIVERY) :
          LET starts == Succeeds(v) /\ next = Msg.CURRENT_DEMAND
          IN  /\ Answer(Msg.POWER_DELIVERY, v, next)
              /\ base' = [base EXCEPT !.charging_start_time =
                                          IF starts /\ @ = 0 THEN clock ELSE @]
              /\ seen' = [Refused(v) EXCEPT !.started = IF starts /\ @ = 0 THEN clock ELSE @]
    \/ /\ ChargesAgain(Msg.POWER_DELIVERY)
       /\ Answer(Msg.POWER_DELIVERY, [event |-> "SEND_AND_TERMINATE"], Msg.WELDING_DETECTION)
       /\ UNCHANGED <<base, seen>>

\* The entry of the schedule, 3 when it is over
Entry(elapsed) == CASE elapsed < Start(1)                                   -> 0
                    [] elapsed >= Start(1) /\ elapsed < Start(2)            -> 1
                    [] elapsed >= Start(2) /\ elapsed <= Start(2) + EntryDuration -> 2
                    [] OTHER                                                -> 3

\* More than the entry allows, and the last one, which is granted a whole EntryDuration
\* and the grace period from its start, and the next one shortly before it begins
ExceedsSchedule(power) ==
    LET elapsed == Elapsed(base.schedule_start_time)
        entry   == Entry(elapsed)
    IN  /\ power > PMax(entry)
        /\ ~(/\ entry \in {1, 2} /\ power <= PMax(entry - 1)
             /\ elapsed <= Start(entry - 1) + EntryDuration + GracePeriod)
        /\ ~(/\ entry \in {0, 1} /\ power <= PMax(entry + 1)
             /\ elapsed >= Start(entry + 1) - GracePeriod)

\* The entries of the vehicle's schedule that are in force now, give or take a slack
InForce(slack) ==
    LET elapsed == Elapsed(seen.scheduled)
    IN  {entry \in 0..2 :
            /\ Start(entry) - slack <= elapsed
            /\ elapsed <= slack + (IF entry < 2 THEN Start(entry + 1)
                                               ELSE Start(2) + EntryDuration)}

Exceeds(power, entries) == \A entry \in entries : power > seen.schedule[entry + 1]

\* The second entry has lasted for the time that a vehicle should spend in it.
InSecondEntry ==
    Elapsed(seen.scheduled) >= Start(1) + GracePeriod + MinTimeInEntry

\* Bound: the power that the vehicle asks for is that of an entry, a bit more, or none.
Powers == UNION {{0, 2, PMax(entry), PMax(entry) + 1} : entry \in 0..2}

\* The vehicle is judged, and asked to stop, in each good response.
CurrentDemand ==
    \E v \in Results(Msg.CURRENT_DEMAND), power \in Powers :
       /\ Answer(Msg.CURRENT_DEMAND, v, Msg.CURRENT_DEMAND)
       /\ IF Succeeds(v)
          THEN LET exceeded == base.ev_exceeded_scheduled_pmax \/ ExceedsSchedule(power)
                   stops    == exceeded \/ TargetDuration < Elapsed(base.charging_start_time)
                   asked    == stops /\ ~base.stopping_charging_session
               IN  /\ base' = [base EXCEPT !.ev_exceeded_scheduled_pmax = exceeded,
                                           !.ev_requested_nonzero_power = @ \/ power > 1,
                                           !.stopping_charging_session = @ \/ stops,
                                           !.stop_time = IF asked THEN clock ELSE @]
                   /\ seen' = [seen EXCEPT
                                   !.charged = @ \/ clock > seen.started + TargetDuration,
                                   !.second_entry = @ \/ InSecondEntry,
                                   !.drew = @ \/ power > 1,
                                   !.over = @ \/ Exceeds(power, InForce(0)),
                                   !.beyond_grace = @ \/ Exceeds(power, InForce(GracePeriod))]
          ELSE UNCHANGED base /\ seen' = Refused(v)

\* The session ends well when SessionStop is answered with OK.  ISO 15118-2 refuses a pause
\* before charging.
SessionStop ==
    \E v \in Results(Msg.SESSION_STOP) :
       /\ Answer(Msg.SESSION_STOP, [event |-> "SEND_AND_TERMINATE"], Msg.UNKNOWN)
       /\ base' = [base EXCEPT !.gracefully_stopped_session = @ \/ v.ok]
       /\ seen' = [Refused(v) EXCEPT !.stopped = clock, !.ended = TRUE]

\* A request that the tests leave to the base server
BaseServerHandles(m) ==
    \E v \in Results(m), next \in NextStates(m) :
        Answer(m, v, next) /\ UNCHANGED base /\ seen' = Refused(v)

\* The handlers that the tests override, once for each protocol
handle_din_charge_parameter           == protocol = "DIN" /\ ChargeParameterDiscovery
handle_iso_charge_parameter_discovery == protocol = "ISO" /\ ChargeParameterDiscovery
handle_din_power_delivery == protocol = "DIN" /\ PowerDelivery
handle_iso_power_delivery == protocol = "ISO" /\ PowerDelivery
handle_din_current_demand == protocol = "DIN" /\ CurrentDemand
handle_iso_current_demand == protocol = "ISO" /\ CurrentDemand
handle_din_session_stop   == protocol = "DIN" /\ SessionStop
handle_iso_session_stop   == protocol = "ISO" /\ SessionStop

\* Bound: of what is left to the base server, only Authorization is sent out of order.
HandleSmartRequest ==
    /\ session = "open" /\ clock < MaxTime
    /\ \/ \E m \in {Msg.AUTHORIZATION, Msg.CABLE_CHECK, Msg.PRE_CHARGE, Msg.WELDING_DETECTION} :
             (m # Msg.AUTHORIZATION => InOrder(m)) /\ BaseServerHandles(m)
       \/ handle_din_charge_parameter \/ handle_iso_charge_parameter_discovery
       \/ handle_din_power_delivery \/ handle_iso_power_delivery
       \/ handle_din_current_demand \/ handle_iso_current_demand
       \/ handle_din_session_stop \/ handle_iso_session_stop
    /\ UNCHANGED <<config, bspVars>>

-----------------------------------------------------------------------------
\* on_test_finished
SmartVerdict ==
    Verdict(base.schedule_start_time > 0 /\ base.charging_start_time > 0,
            /\ ~base.ev_exceeded_scheduled_pmax /\ base.ev_requested_nonzero_power
            /\ base.stopping_charging_session /\ base.gracefully_stopped_session)

\* The thread of stop_charging has waited for long enough, and the connection is not
\* terminated.
StopTimedOut ==
    /\ base.stopping_charging_session /\ ~stop_hlc /\ ~is_connection_terminated
    /\ clock - base.stop_time >= StopTimeout

ForcefullyStopCharging ==
    /\ session = "open" /\ StopTimedOut
    /\ stop_hlc' = TRUE
    /\ UNCHANGED vars

\* Time passes once there is something to time, and not while that thread is due.  Bound:
\* nor once a vehicle that asked for too much has been stopped.
SmartTick ==
    /\ session = "open" /\ MayRead /\ clock < MaxTime /\ ~StopTimedOut
    /\ ~(stop_hlc /\ base.ev_exceeded_scheduled_pmax)
    /\ base.schedule_start_time > 0 \/ base.charging_start_time > 0
    /\ clock' = clock + 1
    /\ UNCHANGED <<config, linkVars, replyVars, bspVars, testVars, seen, stop_hlc>>

\* Bound: before the vehicle is asked to stop, the data link goes as VehicleCloses has it.
SmartNext ==
    \/ HandleSmartRequest \/ ForcefullyStopCharging \/ SmartTick
    \/ /\ \/ VehicleCloses \/ ReadFails \/ ConnectionClose(SmartVerdict)
          \/ base.stopping_charging_session /\ DlinkTerminated
       /\ UNCHANGED stop_hlc

SmartSpec == SmartInit /\ [][SmartNext]_smartVars

-----------------------------------------------------------------------------
(***************************************************************************)
(* Properties                                                              *)
(***************************************************************************)
Times == 0..MaxTime

TypeOK ==
    /\ session \in {"open", "closing", "closed"} /\ state \in {Msg[m] : m \in DOMAIN Msg}
    /\ last_v2g_msg \in Requests /\ stop_hlc \in BOOLEAN /\ clock \in Times
    /\ base \in [schedule_start_time : Times, charging_start_time : Times,
                 maximum_scheduled_power : Seq(Nat), ev_exceeded_scheduled_pmax : BOOLEAN,
                 ev_requested_nonzero_power : BOOLEAN, stopping_charging_session : BOOLEAN,
                 gracefully_stopped_session : BOOLEAN, stop_time : Times]
    /\ seen \in [schedule : Seq(Nat), scheduled : Times, started : Times, charged : BOOLEAN,
                 second_entry : BOOLEAN, drew : BOOLEAN, over : BOOLEAN,
                 beyond_grace : BOOLEAN, refused : BOOLEAN, renegotiated : BOOLEAN,
                 ended : BOOLEAN, stopped : Times]

Judged(verdict) == session = "closed" /\ outcome = verdict

\* A vehicle fails only for what it has done: it exceeded the entry in force, never drew
\* power, did not charge for long enough, was refused something, or disconnected.  It may
\* renegotiate, and need not know when exactly the server's entries begin.
ScheduleFailIsDeserved ==
    Judged("PassCriteriaNotMet")
    => seen.over \/ ~seen.drew \/ ~seen.charged \/ seen.refused \/ ~seen.ended

\* The tests in whose schedules no entry is below the one before it
Rising == protocol = "DIN" /\ test # "smart_charging_002"

\* There, a vehicle that passes has always kept to an entry in force of the last schedule that
\* it was sent, give or take the grace period, however many it was sent while it charged.
RisingScheduleIsFollowed ==
    Judged("PassCriteriaMet") /\ Rising => ~seen.beyond_grace

\* A vehicle that passes has charged for the whole time since it began, however often it
\* renegotiated, and under the second entry, past the grace period and for long enough,
\* unless it was sent a new schedule after it began.  One that charged although it had been
\* refused something is left out.
PassIsLongEnough ==
    Judged("PassCriteriaMet") /\ ~seen.refused
    => seen.charged /\ (seen.second_entry \/ seen.renegotiated)

\* A vehicle passes only for what it has done, however it spaces its requests, waits,
\* renegotiates, or is refused something.
PassIsEarned == RisingScheduleIsFollowed /\ PassIsLongEnough
=============================================================================
