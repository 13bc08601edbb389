------------------------ MODULE SmartCharging_proofs ------------------------
(***************************************************************************)
(* Theorems of SmartCharging, for any durations in which an entry begins   *)
(* before the one before it is no longer allowed, and any power limits.    *)
(*                                                                         *)
(* The handler judges a power by a nest of conditions on the time since    *)
(* the schedule; the first lemmas relate it to the entries that are in     *)
(* force.  What the test has noted is then related to what the vehicle     *)
(* did, and the verdict, which nothing follows, is read from it.           *)
(***************************************************************************)
EXTENDS SmartCharging, TLAPS

-----------------------------------------------------------------------------
(***************************************************************************)
(* Messages                                                                *)
(***************************************************************************)
Ids == {Msg[m] : m \in DOMAIN Msg}

Handled == {Msg.AUTHORIZATION, Msg.CHARGE_PARAMETER_DISCOVERY, Msg.CABLE_CHECK,
            Msg.PRE_CHARGE, Msg.POWER_DELIVERY, Msg.CURRENT_DEMAND, Msg.WELDING_DETECTION}

LEMMA Numbers ==
    /\ Msg.SESSION_SETUP = 1 /\ Msg.SERVICE_DETAIL = 3 /\ Msg.PAYMENT_SERVICE_SELECTION = 4
    /\ Msg.AUTHORIZATION = 6 /\ Msg.CHARGE_PARAMETER_DISCOVERY = 7
    /\ Msg.CABLE_CHECK = 12 /\ Msg.PRE_CHARGE = 13 /\ Msg.POWER_DELIVERY = 14
    /\ Msg.CURRENT_DEMAND = 15 /\ Msg.WELDING_DETECTION = 16 /\ Msg.SESSION_STOP = 17
    /\ Msg.UNKNOWN = 18
  BY DEF Msg

LEMMA IdNumbers == Ids = {0, 1, 2, 3, 4, 5, 6, 7, 9, 10, 12, 13, 14, 15, 16, 17, 18}
  BY DEF Ids, Msg

LEMMA RequestNumbers == Requests = {1, 2, 3, 4, 6, 7, 10, 12, 13, 14, 15, 16, 17, 18}
  BY DEF Requests, Msg

\* Only PowerDelivery leads to CurrentDemand, and CurrentDemand itself.
LEMMA NextStatesAreIds ==
    ASSUME NEW m \in Handled
    PROVE  /\ m \in Requests /\ NextStates(m) \subseteq Ids
           /\ Msg.CURRENT_DEMAND \in NextStates(m) =>
                 m \in {Msg.POWER_DELIVERY, Msg.CURRENT_DEMAND}
  BY Numbers, IdNumbers, RequestNumbers DEF Handled, NextStates

Events == {"NO_EVENT", "SEND_AND_TERMINATE", "TERMINATE_CONNECTION"}

\* A response succeeds only for a request in order; where it does not, and the session goes
\* on, the vehicle was refused something.
LEMMA Responses ==
    ASSUME NEW m, NEW v \in Results(m)
    PROVE  /\ v \in [ok : BOOLEAN, event : Events]
           /\ Succeeds(v) => InOrder(m)
           /\ v.event = "NO_EVENT" /\ ~Succeeds(v) => ~v.ok
  <1>1. PICK ok \in BOOLEAN :
          /\ ok => InOrder(m) \/ is_connection_terminated
          /\ v = [ok    |-> ok,
                  event |-> CASE is_connection_terminated -> "TERMINATE_CONNECTION"
                              [] ~is_connection_terminated /\ ~ok
                                 /\ terminate_connection_on_failed_response -> "SEND_AND_TERMINATE"
                              [] OTHER -> "NO_EVENT"]
    BY DEF Results, validate_response_code
  <1>2. v.ok = ok
    BY <1>1
  <1>3. CASE is_connection_terminated
    BY <1>1, <1>2, <1>3 DEF Events, Succeeds
  <1>4. CASE ~is_connection_terminated /\ ~ok /\ terminate_connection_on_failed_response
    BY <1>1, <1>2, <1>4 DEF Events, Succeeds
  <1>5. CASE ~is_connection_terminated /\ (ok \/ ~terminate_connection_on_failed_response)
    BY <1>1, <1>2, <1>5 DEF Events, Succeeds
  <1>6. QED
    BY <1>3, <1>4, <1>5

-----------------------------------------------------------------------------
(***************************************************************************)
(* The schedule                                                            *)
(***************************************************************************)
TestNames == {"smart_charging_001", "smart_charging_002", "smart_charging_003"}

\* The type invariant, with what TypeOK does not say: what is constant, that a schedule has
\* three entries, that no time is in the future, and that the schedule in the server is the
\* one that the vehicle was sent.
Types ==
    /\ TypeOK
    /\ test \in TestNames /\ protocol \in {"DIN", "ISO"}
    /\ is_connection_terminated \in BOOLEAN
    /\ terminate_connection_on_failed_response \in BOOLEAN
    /\ base.maximum_scheduled_power \in [1..3 -> Nat]
    /\ clock > 0 /\ base.schedule_start_time <= clock /\ seen.started <= clock
    /\ seen.schedule = base.maximum_scheduled_power
    /\ seen.scheduled = base.schedule_start_time

LEMMA Starts ==
    /\ Start(0) = 0 /\ Start(1) \in Nat /\ Start(2) \in Nat
    /\ Start(1) + GracePeriod < Start(2) /\ GracePeriod < Start(1)
    /\ Start(1) <= EntryDuration + GracePeriod
    /\ Start(2) <= Start(1) + EntryDuration + GracePeriod
    /\ TargetDuration = Start(1) + GracePeriod + MinTimeInEntry /\ TargetDuration \in Nat
    /\ GracePeriod \in Nat /\ EntryDuration \in Nat /\ MinTimeInEntry \in Nat
  <1>1. {SetupTime, GracePeriod, MinTimeInEntry, EntryDuration} \subseteq Nat \ {0}
    BY ScheduleAssumption
  <1>2. /\ Start(0) = 0 /\ Start(1) = SetupTime + GracePeriod + MinTimeInEntry
        /\ Start(2) = SetupTime + GracePeriod + MinTimeInEntry
                      + GracePeriod + MinTimeInEntry + GracePeriod
    BY DEF Start
  <1>3. /\ Start(1) <= Start(0) + EntryDuration + GracePeriod
        /\ Start(2) <= Start(1) + EntryDuration + GracePeriod
    BY DurationAssumption
  <1>4. QED
    BY <1>1, <1>2, <1>3 DEF TargetDuration

LEMMA ElapsedIsNat ==
    ASSUME Types, NEW since \in Times, since <= clock
    PROVE  Elapsed(since) \in Nat /\ (Elapsed(since) = clock - since \/ since = 0)
  <1>1. clock \in Nat /\ since \in Nat /\ Epoch \in Nat
    BY ScheduleAssumption, TimeAssumption DEF Types, TypeOK, Times
  <1>2. QED
    BY <1>1 DEF Elapsed

LEMMA PowersAreNat ==
    ASSUME Types
    PROVE  /\ PMax(0) \in Nat /\ PMax(1) \in Nat /\ PMax(2) \in Nat /\ PMax(3) = -1
           /\ Powers \subseteq Nat
  <1>1. /\ base.maximum_scheduled_power[1] \in Nat /\ base.maximum_scheduled_power[2] \in Nat
        /\ base.maximum_scheduled_power[3] \in Nat
    BY DEF Types
  <1>2. /\ PMax(0) = base.maximum_scheduled_power[1] /\ PMax(1) = base.maximum_scheduled_power[2]
        /\ PMax(2) = base.maximum_scheduled_power[3] /\ PMax(3) = -1
    BY DEF PMax
  <1>3. \A entry \in 0..2 : PMax(entry) \in Nat
    BY <1>1, <1>2
  <1>4. Powers \subseteq Nat
    BY <1>3 DEF Powers
  <1>5. QED
    BY <1>1, <1>2, <1>4

LEMMA EntryCases ==
    ASSUME NEW elapsed \in Nat
    PROVE  /\ Entry(elapsed) \in 0..3
           /\ Entry(elapsed) = 0 => elapsed < Start(1)
           /\ Entry(elapsed) = 1 => Start(1) <= elapsed /\ elapsed < Start(2)
           /\ Entry(elapsed) = 2 => Start(2) <= elapsed /\ elapsed <= Start(2) + EntryDuration
           /\ Entry(elapsed) = 3 => elapsed > Start(2) + EntryDuration
  <1>1. CASE elapsed < Start(1)
    <2>1. Entry(elapsed) = 0
      BY <1>1, Starts DEF Entry
    <2>2. QED
      BY <1>1, <2>1
  <1>2. CASE elapsed >= Start(1) /\ elapsed < Start(2)
    <2>1. Entry(elapsed) = 1
      BY <1>2, Starts DEF Entry
    <2>2. QED
      BY <1>2, <2>1
  <1>3. CASE elapsed >= Start(2) /\ elapsed <= Start(2) + EntryDuration
    <2>1. Entry(elapsed) = 2
      BY <1>3, Starts DEF Entry
    <2>2. QED
      BY <1>3, <2>1
  <1>4. CASE elapsed > Start(2) + EntryDuration
    <2>1. Entry(elapsed) = 3
      BY <1>4, Starts DEF Entry
    <2>2. QED
      BY <1>4, <2>1
  <1>5. QED
    BY <1>1, <1>2, <1>3, <1>4, Starts

\* The time since the schedule
SinceSchedule == Elapsed(base.schedule_start_time)

LEMMA SinceScheduleIsNat ==
    ASSUME Types
    PROVE  SinceSchedule \in Nat
  <1>1. base.schedule_start_time \in Times /\ base.schedule_start_time <= clock
    BY DEF Types, TypeOK
  <1>2. QED
    BY <1>1, ElapsedIsNat DEF SinceSchedule

LEMMA InForceCases ==
    ASSUME Types, NEW slack \in Nat
    PROVE  /\ InForce(slack) \subseteq {0, 1, 2}
           /\ 0 \in InForce(slack) <=> SinceSchedule <= slack + Start(1)
           /\ 1 \in InForce(slack) <=> /\ Start(1) - slack <= SinceSchedule
                                     /\ SinceSchedule <= slack + Start(2)
           /\ 2 \in InForce(slack) <=> /\ Start(2) - slack <= SinceSchedule
                                     /\ SinceSchedule <= slack + (Start(2) + EntryDuration)
  <1>1. InForce(slack) = {entry \in 0..2 :
            /\ Start(entry) - slack <= SinceSchedule
            /\ SinceSchedule <= slack + (IF entry < 2 THEN Start(entry + 1)
                                                     ELSE Start(2) + EntryDuration)}
    BY DEF InForce, SinceSchedule, Types
  <1>2. 0 - slack <= SinceSchedule
    BY SinceScheduleIsNat
  <1>3. 0 + 1 = 1 /\ 1 + 1 = 2 /\ 0..2 = {0, 1, 2} /\ 0 < 2 /\ 1 < 2 /\ ~(2 < 2)
    OBVIOUS
  <1>4. QED
    BY <1>1, <1>2, <1>3, Starts

\* The entries of the vehicle's schedule are those of the server's.
LEMMA ExceedsPMax ==
    ASSUME Types, NEW power, NEW entries \in SUBSET {0, 1, 2}
    PROVE  Exceeds(power, entries) <=> \A entry \in entries : power > PMax(entry)
  <1>1. \A entry \in entries : seen.schedule[entry + 1] = PMax(entry)
    <2>1. /\ PMax(0) = base.maximum_scheduled_power[1]
          /\ PMax(1) = base.maximum_scheduled_power[2]
          /\ PMax(2) = base.maximum_scheduled_power[3]
      BY DEF PMax
    <2>2. 0 + 1 = 1 /\ 1 + 1 = 2 /\ 2 + 1 = 3 /\ seen.schedule = base.maximum_scheduled_power
      BY DEF Types
    <2>3. QED
      BY <2>1, <2>2
  <1>2. QED
    BY <1>1 DEF Exceeds

\* What the handler takes for too much is more than every entry in force allows: the
\* exceptions that it makes cover the moment at which one entry follows the other.
LEMMA ExceedsIsOver ==
    ASSUME Types, NEW power \in Nat, ExceedsSchedule(power)
    PROVE  Exceeds(power, InForce(0))
  <1> DEFINE entry == Entry(SinceSchedule)
  <1>1. /\ power > PMax(entry)
        /\ ~(/\ entry \in {1, 2} /\ power <= PMax(entry - 1)
             /\ SinceSchedule <= Start(entry - 1) + EntryDuration + GracePeriod)
    BY DEF ExceedsSchedule, SinceSchedule
  <1>2. entry \in 0..3 /\ SinceSchedule \in Nat
    BY SinceScheduleIsNat, EntryCases
  <1>3. CASE entry = 0
    <2>1. InForce(0) \subseteq {0}
      BY <1>2, <1>3, InForceCases, EntryCases, Starts
    <2>2. QED
      BY <1>1, <1>3, <2>1, ExceedsPMax
  <1>4. CASE entry = 1
    <2>1. InForce(0) \subseteq {0, 1} /\ (0 \in InForce(0) => SinceSchedule <= Start(1))
      BY <1>2, <1>4, InForceCases, EntryCases, Starts
    <2>2. 0 \in InForce(0) => power > PMax(0)
      BY <1>1, <1>2, <1>4, <2>1, Starts, PowersAreNat
    <2>3. QED
      BY <1>1, <1>4, <2>1, <2>2, ExceedsPMax
  <1>5. CASE entry = 2
    <2>1. InForce(0) \subseteq {1, 2} /\ (1 \in InForce(0) => SinceSchedule <= Start(2))
      BY <1>2, <1>5, InForceCases, EntryCases, Starts
    <2>2. 1 \in InForce(0) => power > PMax(1)
      BY <1>1, <1>2, <1>5, <2>1, Starts, PowersAreNat
    <2>3. QED
      BY <1>1, <1>5, <2>1, <2>2, ExceedsPMax
  <1>6. CASE entry = 3
    <2>1. 0 \notin InForce(0) /\ 1 \notin InForce(0) /\ 2 \notin InForce(0)
      BY <1>2, <1>6, InForceCases, EntryCases, Starts
    <2>2. InForce(0) = {}
      BY <2>1, InForceCases
    <2>3. QED
      BY <2>2 DEF Exceeds
  <1>7. QED
    BY <1>2, <1>3, <1>4, <1>5, <1>6

\* Where the schedule rises, the handler lets nothing pass that is more than every entry in
\* force within the grace period allows: the limit of the entry before, which is granted
\* for much longer, is no greater.
RisingSchedule == PMax(0) <= PMax(1) /\ PMax(1) <= PMax(2)

LEMMA BeyondGraceExceeds ==
    ASSUME Types, RisingSchedule, NEW power \in Nat, Exceeds(power, InForce(GracePeriod))
    PROVE  ExceedsSchedule(power)
  <1> DEFINE entry == Entry(SinceSchedule)
  <1>0. \A n \in InForce(GracePeriod) : power > PMax(n)
    BY InForceCases, ExceedsPMax, Starts
  <1>1. SUFFICES /\ power > PMax(entry)
                 /\ ~(entry \in {1, 2} /\ power <= PMax(entry - 1))
                 /\ ~(/\ entry \in {0, 1} /\ power <= PMax(entry + 1)
                      /\ SinceSchedule >= Start(entry + 1) - GracePeriod)
    BY DEF ExceedsSchedule, SinceSchedule
  <1>2. entry \in 0..3 /\ SinceSchedule \in Nat /\ GracePeriod \in Nat
    BY SinceScheduleIsNat, EntryCases, Starts
  <1>3. CASE entry = 0
    <2>1. 0 \in InForce(GracePeriod)
          /\ (SinceSchedule >= Start(1) - GracePeriod => 1 \in InForce(GracePeriod))
      BY <1>2, <1>3, InForceCases, EntryCases, Starts
    <2>2. power > PMax(0) /\ (SinceSchedule >= Start(1) - GracePeriod => power > PMax(1))
      BY <1>0, <2>1
    <2>3. QED
      BY <1>3, <2>2, Starts, PowersAreNat
  <1>4. CASE entry = 1
    <2>1. 1 \in InForce(GracePeriod)
          /\ (SinceSchedule >= Start(2) - GracePeriod => 2 \in InForce(GracePeriod))
      BY <1>2, <1>4, InForceCases, EntryCases, Starts
    <2>2. power > PMax(1) /\ (SinceSchedule >= Start(2) - GracePeriod => power > PMax(2))
      BY <1>0, <2>1
    <2>3. power > PMax(0)
      BY <2>2, PowersAreNat DEF RisingSchedule
    <2>4. QED
      BY <1>4, <2>2, <2>3, Starts, PowersAreNat
  <1>5. CASE entry = 2
    <2>1. 2 \in InForce(GracePeriod)
      BY <1>2, <1>5, InForceCases, EntryCases, Starts
    <2>2. power > PMax(2)
      BY <1>0, <2>1
    <2>3. power > PMax(1)
      BY <2>2, PowersAreNat DEF RisingSchedule
    <2>4. QED
      BY <1>5, <2>2, <2>3, PowersAreNat
  <1>6. CASE entry = 3
    BY <1>6, PowersAreNat
  <1>7. QED
    BY <1>2, <1>3, <1>4, <1>5, <1>6
\* The schedule of two of the tests for DIN 70121 rises whatever the vehicle supports.
LEMMA PercentRises ==
    ASSUME NEW maximum \in Nat
    PROVE  /\ Percent(10, maximum) \in Nat /\ Percent(40, maximum) \in Nat
           /\ Percent(60, maximum) \in Nat
           /\ Percent(10, maximum) <= Percent(40, maximum)
           /\ Percent(40, maximum) <= Percent(60, maximum)
  BY DEF Percent

LEMMA ScheduleIsTyped ==
    ASSUME Types, NEW maximum \in MaxPowers
    PROVE  /\ set_maximum_scheduled_power(maximum) \in [1..3 -> Nat]
           /\ set_maximum_scheduled_power(maximum) \in Seq(Nat)
           /\ Rising =>
                 /\ set_maximum_scheduled_power(maximum)[1] <= set_maximum_scheduled_power(maximum)[2]
                 /\ set_maximum_scheduled_power(maximum)[2] <= set_maximum_scheduled_power(maximum)[3]
  <1> DEFINE schedule == set_maximum_scheduled_power(maximum)
  <1>1. maximum \in Nat
    BY ScheduleAssumption
  <1>2. /\ Percent(10, maximum) \in Nat /\ Percent(40, maximum) \in Nat
        /\ Percent(60, maximum) \in Nat
        /\ Percent(10, maximum) <= Percent(40, maximum)
        /\ Percent(40, maximum) <= Percent(60, maximum)
    BY <1>1, PercentRises
  <1>3. PICK a \in Nat, b \in Nat, c \in Nat :
           schedule = <<a, b, c>> /\ (Rising => a <= b /\ b <= c)
    <2>1. CASE test = "smart_charging_001" /\ protocol = "DIN"
      <3>1. schedule = <<Percent(10, maximum), Percent(40, maximum), Percent(60, maximum)>>
        BY <2>1 DEF set_maximum_scheduled_power
      <3>2. QED
        BY <1>2, <3>1
    <2>2. CASE test = "smart_charging_002" /\ protocol = "DIN"
      <3>1. schedule = <<Percent(10, maximum), 0, Percent(60, maximum)>>
        BY <2>2 DEF set_maximum_scheduled_power
      <3>2. QED
        BY <1>2, <2>2, <3>1 DEF Rising
    <2>3. CASE test = "smart_charging_003" /\ protocol = "DIN"
      <3>1. schedule = <<0, Percent(40, maximum), Percent(60, maximum)>>
        BY <2>3 DEF set_maximum_scheduled_power
      <3>2. QED
        BY <1>2, <3>1
    <2>4. CASE protocol = "ISO"
      <3>1. schedule \in {<<1800, 1400, 1600>>, <<1500, 0, 1400>>, <<0, 1500, 1400>>}
        BY <2>4 DEF set_maximum_scheduled_power, Types, TestNames
      <3>2. QED
        BY <2>4, <3>1 DEF Rising
    <2>5. QED
      BY <2>1, <2>2, <2>3, <2>4 DEF Types, TestNames
  <1>4. schedule[1] = a /\ schedule[2] = b /\ schedule[3] = c
    BY <1>3
  <1>5. schedule \in [1..3 -> Nat] /\ schedule \in Seq(Nat)
    BY <1>3
  <1>6. QED
    BY <1>3, <1>4, <1>5

-----------------------------------------------------------------------------
(***************************************************************************)
(* Type correctness                                                        *)
(***************************************************************************)
Fields == [schedule_start_time : Times, charging_start_time : Times,
           maximum_scheduled_power : Seq(Nat), ev_exceeded_scheduled_pmax : BOOLEAN,
           ev_requested_nonzero_power : BOOLEAN, stopping_charging_session : BOOLEAN,
           gracefully_stopped_session : BOOLEAN, stop_time : Times]

History == [schedule : Seq(Nat), scheduled : Times, started : Times, charged : BOOLEAN,
            second_entry : BOOLEAN, drew : BOOLEAN, over : BOOLEAN, beyond_grace : BOOLEAN,
            refused : BOOLEAN, renegotiated : BOOLEAN, ended : BOOLEAN, stopped : Times]

LEMMA StartIsTyped ==
    ASSUME SmartInit
    PROVE  Types
  <1>1. state \in Ids /\ last_v2g_msg \in Requests
    BY Numbers, IdNumbers, RequestNumbers DEF SmartInit
  <1>2. 0 \in Times /\ clock \in Times /\ clock = 1
    BY TimeAssumption DEF SmartInit, Times
  <1>3. <<0, 0, 0>> \in Seq(Nat) /\ <<0, 0, 0>> \in [1..3 -> Nat]
    OBVIOUS
  <1>4. base = NewSchedule /\ seen = NothingSeen
    BY DEF SmartInit
  <1>5. base \in Fields
    BY <1>2, <1>3, <1>4 DEF NewSchedule, Fields
  <1>6. seen \in History
    BY <1>2, <1>3, <1>4 DEF NothingSeen, History
  <1>7. TypeOK
    BY <1>1, <1>2, <1>5, <1>6 DEF SmartInit, TypeOK, Ids, Fields, History
  <1>8. /\ base.maximum_scheduled_power = <<0, 0, 0>> /\ base.schedule_start_time = 0
        /\ seen.started = 0 /\ seen.schedule = <<0, 0, 0>> /\ seen.scheduled = 0
    BY <1>4 DEF NewSchedule, NothingSeen
  <1>9. base.maximum_scheduled_power \in [1..3 -> Nat]
    BY <1>3, <1>8
  <1>10. clock > 0 /\ base.schedule_start_time <= clock /\ seen.started <= clock
    BY <1>2, <1>8
  <1>11. QED
    BY <1>7, <1>8, <1>9, <1>10 DEF SmartInit, Types, TestNames

-----------------------------------------------------------------------------
(***************************************************************************)
(* The steps                                                               *)
(***************************************************************************)
InSession == session = "open" /\ clock < MaxTime /\ UNCHANGED <<config, bspVars>>

\* The connection, the data link, the clock and the thread of stop_charging change nothing
\* that the test has noted.
Passes ==
    /\ session = "open" /\ session' \in {"open", "closing"}
    /\ stop_hlc' \in BOOLEAN /\ is_connection_terminated' \in BOOLEAN
    /\ clock' \in {clock, clock + 1} /\ clock' \in Times
    /\ seen' \in {seen, [seen EXCEPT !.stopped = clock]}
    /\ UNCHANGED <<config, state, last_v2g_msg, testVars>>

LeftToBaseServer == {Msg.AUTHORIZATION, Msg.CABLE_CHECK, Msg.PRE_CHARGE, Msg.WELDING_DETECTION}

LEMMA Steps ==
    ASSUME Types, SmartNext
    PROVE  \/ InSession /\ ChargeParameterDiscovery
           \/ InSession /\ PowerDelivery
           \/ InSession /\ CurrentDemand
           \/ InSession /\ SessionStop
           \/ InSession /\ \E m \in LeftToBaseServer : BaseServerHandles(m)
           \/ Passes
           \/ ConnectionClose(SmartVerdict) /\ UNCHANGED stop_hlc
  <1> USE DEF vars, config, linkVars, replyVars, bspVars, testVars
  <1>1. stop_hlc \in BOOLEAN /\ is_connection_terminated \in BOOLEAN /\ clock \in Times
        /\ MaxTime \in Nat
    BY TimeAssumption DEF Types, TypeOK
  <1>2. CASE HandleSmartRequest
    BY <1>2 DEF HandleSmartRequest, InSession, LeftToBaseServer,
                handle_din_charge_parameter, handle_iso_charge_parameter_discovery,
                handle_din_power_delivery, handle_iso_power_delivery,
                handle_din_current_demand, handle_iso_current_demand,
                handle_din_session_stop, handle_iso_session_stop
  <1>3. CASE ForcefullyStopCharging
    BY <1>1, <1>3 DEF ForcefullyStopCharging, Passes
  <1>4. CASE SmartTick
    <2>1. clock + 1 \in Times
      BY <1>1, <1>4 DEF SmartTick, Times
    <2>2. QED
      BY <1>1, <1>4, <2>1 DEF SmartTick, Passes
  <1>5. CASE (VehicleCloses \/ ReadFails \/ DlinkTerminated) /\ UNCHANGED stop_hlc
    BY <1>1, <1>5 DEF VehicleCloses, ReadFails, DlinkTerminated, Passes
  <1>6. QED
    BY <1>2, <1>3, <1>4, <1>5 DEF SmartNext

-----------------------------------------------------------------------------
(***************************************************************************)
(* What the test has noted                                                 *)
(***************************************************************************)
\* The flags of the test, and what the vehicle did
Noted ==
    /\ base.charging_start_time = seen.started
    /\ base.ev_requested_nonzero_power <=> seen.drew
    /\ base.ev_exceeded_scheduled_pmax => seen.over
    /\ seen.charged => base.stopping_charging_session
    /\ seen.ended => base.gracefully_stopped_session \/ seen.refused

\* Where schedules rise, no power is missed that is too much.
RisingNoted ==
    Rising => RisingSchedule /\ (seen.beyond_grace => base.ev_exceeded_scheduled_pmax)

\* Why the vehicle was asked to stop
StopNoted ==
    base.stopping_charging_session
    => \/ base.ev_exceeded_scheduled_pmax \/ seen.refused
       \/ seen.charged /\ (seen.second_entry \/ seen.renegotiated)

\* The schedule comes before the charge, unless there was another one since.
ScheduledFirst ==
    /\ seen.renegotiated => seen.started > 0
    /\ ~seen.renegotiated /\ seen.started > 0 => base.schedule_start_time <= seen.started

\* CurrentDemand is in order only once charging has started, or a PowerDelivery was refused.
StartedFirst ==
    session = "open" /\ state = Msg.CURRENT_DEMAND /\ seen.started = 0 => seen.refused

\* Nothing that the verdict depends on changes after it.
Told == session = "closed" => outcome = SmartVerdict

Inv == Types /\ Noted /\ RisingNoted /\ StopNoted /\ ScheduledFirst /\ StartedFirst /\ Told

LEMMA StartIsGood ==
    ASSUME SmartInit
    PROVE  Inv
  <1>1. Types
    BY StartIsTyped
  <1>2. base = NewSchedule /\ seen = NothingSeen /\ session = "open"
    BY DEF SmartInit
  <1>3. /\ base.charging_start_time = 0 /\ ~base.ev_requested_nonzero_power
        /\ ~base.ev_exceeded_scheduled_pmax /\ ~base.stopping_charging_session
        /\ base.maximum_scheduled_power = <<0, 0, 0>>
        /\ seen.started = 0 /\ ~seen.drew /\ ~seen.charged /\ ~seen.ended /\ ~seen.beyond_grace
        /\ ~seen.renegotiated
    BY <1>2 DEF NewSchedule, NothingSeen
  <1>4. PMax(0) = 0 /\ PMax(1) = 0 /\ PMax(2) = 0
    BY <1>3 DEF PMax
  <1>5. Noted /\ StopNoted /\ ScheduledFirst
    BY <1>3 DEF Noted, StopNoted, ScheduledFirst
  <1>6. RisingNoted
    BY <1>3, <1>4 DEF RisingNoted, RisingSchedule
  <1>7. StartedFirst
    BY Numbers DEF StartedFirst, SmartInit
  <1>8. Told
    BY <1>2 DEF Told
  <1>9. QED
    BY <1>1, <1>5, <1>6, <1>7, <1>8 DEF Inv

\* The types of the fields
LEMMA Typed ==
    ASSUME Types
    PROVE  /\ base \in Fields /\ seen \in History
           /\ clock \in Nat /\ clock \in Times /\ MaxTime \in Nat /\ Times \subseteq Nat
           /\ DOMAIN base.maximum_scheduled_power = 1..3
  <1>1. MaxTime \in Nat
    BY TimeAssumption
  <1>2. clock \in Times /\ Times \subseteq Nat
    BY <1>1 DEF Types, TypeOK, Times
  <1>3. base \in Fields /\ seen \in History
    BY DEF Types, TypeOK, Fields, History
  <1>4. DOMAIN base.maximum_scheduled_power = 1..3
    BY DEF Types
  <1>5. QED
    BY <1>1, <1>2, <1>3, <1>4

\* What a handler leaves to be shown
LEMMA AnswerIsTyped ==
    ASSUME Types, InSession, NEW m \in Requests, NEW v, v.event \in Events, NEW next \in Ids,
           Answer(m, v, next),
           base' \in Fields, seen' \in History,
           base'.maximum_scheduled_power \in [1..3 -> Nat],
           base'.schedule_start_time <= clock, seen'.started <= clock,
           seen'.schedule = base'.maximum_scheduled_power,
           seen'.scheduled = base'.schedule_start_time
    PROVE  Types' /\ Told'
  <1> USE DEF config, linkVars, replyVars, bspVars, testVars
  <1>1. /\ session' \in {"open", "closing"} /\ state' \in Ids /\ last_v2g_msg' \in Requests
        /\ clock' = clock /\ stop_hlc' = stop_hlc
        /\ is_connection_terminated' = is_connection_terminated
    BY DEF Answer, Reply, Events
  <1>2. TypeOK'
    BY <1>1 DEF Types, TypeOK, Fields, History, Ids
  <1>3. /\ test' = test /\ protocol' = protocol
        /\ terminate_connection_on_failed_response' = terminate_connection_on_failed_response
    BY DEF InSession
  <1>4. Types'
    BY <1>1, <1>2, <1>3 DEF Types
  <1>5. QED
    BY <1>1, <1>4 DEF Told
-----------------------------------------------------------------------------
(***************************************************************************)
(* Each handler                                                            *)
(***************************************************************************)
\* A request in which the test notes nothing: at most, the vehicle was refused something.
LEMMA NothingNoted ==
    ASSUME Inv, InSession, NEW m \in Handled, NEW v \in Results(m), NEW next \in NextStates(m),
           Answer(m, v, next), UNCHANGED base, seen' = Refused(v),
           next = Msg.CURRENT_DEMAND => ~Succeeds(v)
    PROVE  Inv'
  <1>1. /\ v \in [ok : BOOLEAN, event : Events] /\ m \in Requests /\ next \in Ids
        /\ v.event = "NO_EVENT" /\ ~Succeeds(v) => ~v.ok
    BY Responses, NextStatesAreIds
  <1>2. /\ seen' \in History
        /\ seen'.schedule = seen.schedule /\ seen'.scheduled = seen.scheduled
        /\ seen'.started = seen.started /\ seen'.charged = seen.charged
        /\ seen'.drew = seen.drew /\ seen'.over = seen.over /\ seen'.ended = seen.ended
        /\ seen'.beyond_grace = seen.beyond_grace /\ seen'.second_entry = seen.second_entry
        /\ seen'.renegotiated = seen.renegotiated
        /\ seen'.refused = (seen.refused \/ ~v.ok)
    BY <1>1, Typed DEF Refused, History, Inv
  <1>3. Types' /\ Told'
    BY <1>1, <1>2, AnswerIsTyped, Typed DEF Inv, Types
  <1>4. Noted' /\ StopNoted' /\ ScheduledFirst'
    BY <1>2 DEF Inv, Noted, StopNoted, ScheduledFirst
  <1>5. RisingNoted'
    BY <1>2 DEF Inv, RisingNoted, Rising, RisingSchedule, PMax, InSession, config
  <1>6. StartedFirst'
    <2>1. SUFFICES ASSUME session' = "open", state' = Msg.CURRENT_DEMAND
                   PROVE  ~v.ok
      BY <1>2 DEF StartedFirst
    <2>2. v.event = "NO_EVENT" /\ next = Msg.CURRENT_DEMAND
      BY <1>1, <2>1 DEF Answer, Reply, Events
    <2>3. QED
      BY <1>1, <2>2
  <1>7. QED
    BY <1>3, <1>4, <1>5, <1>6 DEF Inv

\* A new schedule changes nothing but itself, and counts as renegotiated once the vehicle
\* charges.
LEMMA SchedulesWell ==
    ASSUME Inv, InSession, ChargeParameterDiscovery
    PROVE  Inv'
  <1> DEFINE m == Msg.CHARGE_PARAMETER_DISCOVERY
  <1>1. PICK v \in Results(m), next \in NextStates(m), maximum \in MaxPowers :
          LET powers == set_maximum_scheduled_power(maximum)
          IN  /\ Answer(m, v, next)
              /\ \/ /\ base' = [base EXCEPT !.schedule_start_time = clock,
                                             !.maximum_scheduled_power = powers]
                    /\ seen' = Scheduled(powers)
                 \/ UNCHANGED base /\ seen' = Refused(v)
    BY DEF ChargeParameterDiscovery
  <1> DEFINE powers == set_maximum_scheduled_power(maximum)
  <1>2. /\ v \in [ok : BOOLEAN, event : Events] /\ m \in Handled /\ m \in Requests
        /\ next \in Ids /\ next # Msg.CURRENT_DEMAND
    BY Responses, NextStatesAreIds, Numbers DEF Handled
  <1>3. CASE UNCHANGED base /\ seen' = Refused(v)
    BY <1>1, <1>2, <1>3, NothingNoted
  <1>4. CASE /\ base' = [base EXCEPT !.schedule_start_time = clock,
                                     !.maximum_scheduled_power = powers]
             /\ seen' = Scheduled(powers)
    <2>1. /\ powers \in [1..3 -> Nat] /\ powers \in Seq(Nat)
          /\ Rising => powers[1] <= powers[2] /\ powers[2] <= powers[3]
      BY ScheduleIsTyped DEF Inv
    <2> HIDE DEF powers
    <2>2. /\ base' \in Fields
          /\ base'.schedule_start_time = clock /\ base'.maximum_scheduled_power = powers
          /\ base'.charging_start_time = base.charging_start_time
          /\ base'.ev_exceeded_scheduled_pmax = base.ev_exceeded_scheduled_pmax
          /\ base'.ev_requested_nonzero_power = base.ev_requested_nonzero_power
          /\ base'.stopping_charging_session = base.stopping_charging_session
          /\ base'.gracefully_stopped_session = base.gracefully_stopped_session
      BY <1>4, <2>1, Typed DEF Fields, Inv
    <2>3. /\ seen' \in History
          /\ seen'.schedule = powers /\ seen'.scheduled = clock
          /\ seen'.started = seen.started /\ seen'.charged = seen.charged
          /\ seen'.drew = seen.drew /\ seen'.over = seen.over /\ seen'.ended = seen.ended
          /\ seen'.beyond_grace = seen.beyond_grace /\ seen'.second_entry = seen.second_entry
          /\ seen'.renegotiated = (seen.started > 0) /\ seen'.refused = seen.refused
      <3> DEFINE again == seen.started > 0
      <3>1. /\ again \in BOOLEAN
            /\ seen' = [seen EXCEPT !.schedule = powers, !.scheduled = clock,
                                    !.renegotiated = again]
        BY <1>4 DEF Scheduled
      <3> HIDE DEF again
      <3>2. QED
        BY <2>1, <3>1, Typed DEF History, Inv, again
    <2>4. Types' /\ Told'
      <3>1. Types /\ clock \in Nat /\ clock <= clock /\ v.event \in Events /\ seen.started <= clock
        BY <1>2, Typed DEF Inv, Types
      <3>2. QED
        BY <1>1, <1>2, <2>1, <2>2, <2>3, <3>1, AnswerIsTyped
    <2>5. Noted'
      BY <2>2, <2>3 DEF Inv, Noted
    <2>6. StopNoted' /\ ScheduledFirst'
      BY <2>2, <2>3 DEF Inv, StopNoted, ScheduledFirst
    <2>7. RisingNoted'
      <3>1. /\ PMax(0)' = powers[1] /\ PMax(1)' = powers[2] /\ PMax(2)' = powers[3]
            /\ Rising' = Rising
        BY <2>2 DEF PMax, Rising, InSession, config
      <3>2. QED
        BY <2>1, <2>2, <2>3, <3>1 DEF Inv, RisingNoted, RisingSchedule
    <2>8. StartedFirst'
      BY <1>1, <1>2 DEF StartedFirst, Answer, Reply
    <2>9. QED
      BY <2>4, <2>5, <2>6, <2>7, <2>8 DEF Inv
  <1>5. QED
    BY <1>1, <1>3, <1>4
\* Charging starts once, and no later than the schedule, unless that is renegotiated.
LEMMA StartsWell ==
    ASSUME Inv, InSession, PowerDelivery
    PROVE  Inv'
  <1> DEFINE m == Msg.POWER_DELIVERY
  <1>1. m \in Handled /\ m \in Requests /\ Ids \subseteq Int
    BY NextStatesAreIds, IdNumbers DEF Handled
  <1>2. CASE /\ ChargesAgain(m)
             /\ Answer(m, [event |-> "SEND_AND_TERMINATE"], Msg.WELDING_DETECTION)
             /\ UNCHANGED <<base, seen>>
    <2> DEFINE v == [event |-> "SEND_AND_TERMINATE"]
    <2>1. v.event \in Events /\ Msg.WELDING_DETECTION \in Ids
          /\ Answer(m, v, Msg.WELDING_DETECTION)
      BY <1>2, Numbers, IdNumbers DEF Events
    <2>2. Types' /\ Told'
      BY <1>1, <1>2, <2>1, AnswerIsTyped, Typed DEF Inv, Types
    <2>3. Noted' /\ StopNoted' /\ ScheduledFirst'
      BY <1>2 DEF Inv, Noted, StopNoted, ScheduledFirst
    <2>4. RisingNoted'
      BY <1>2 DEF Inv, RisingNoted, Rising, RisingSchedule, PMax, InSession, config
    <2>5. StartedFirst'
      BY <1>2, Numbers DEF StartedFirst, Answer, Reply
    <2>6. QED
      BY <2>2, <2>3, <2>4, <2>5 DEF Inv
  <1>3. CASE ~(/\ ChargesAgain(m)
               /\ Answer(m, [event |-> "SEND_AND_TERMINATE"], Msg.WELDING_DETECTION)
               /\ UNCHANGED <<base, seen>>)
    <2>1. PICK v \in Results(m), next \in NextStates(m) :
            LET starts == Succeeds(v) /\ next = Msg.CURRENT_DEMAND
            IN  /\ Answer(m, v, next)
                /\ base' = [base EXCEPT !.charging_start_time =
                                            IF starts /\ @ = 0 THEN clock ELSE @]
                /\ seen' = [Refused(v) EXCEPT !.started = IF starts /\ @ = 0 THEN clock ELSE @]
      BY <1>3 DEF PowerDelivery
    <2>2. /\ v \in [ok : BOOLEAN, event : Events] /\ next \in Ids
          /\ v.event = "NO_EVENT" /\ ~Succeeds(v) => ~v.ok
      BY <1>1, Responses, NextStatesAreIds
    <2> DEFINE starts == Succeeds(v) /\ next = Msg.CURRENT_DEMAND
               since  == IF starts /\ seen.started = 0 THEN clock ELSE seen.started
    <2>3. base.charging_start_time = seen.started /\ since \in Times /\ since <= clock
          /\ (seen.started > 0 => since = seen.started) /\ (starts => since > 0)
          /\ (seen.started = 0 /\ since > 0 => since = clock)
      BY Typed DEF Inv, Noted, Types, History
    <2>4. /\ Refused(v) \in History /\ Refused(v).started = seen.started
          /\ Refused(v).schedule = seen.schedule /\ Refused(v).scheduled = seen.scheduled
          /\ Refused(v).charged = seen.charged /\ Refused(v).drew = seen.drew
          /\ Refused(v).over = seen.over /\ Refused(v).ended = seen.ended
          /\ Refused(v).beyond_grace = seen.beyond_grace
          /\ Refused(v).second_entry = seen.second_entry
          /\ Refused(v).renegotiated = seen.renegotiated
          /\ Refused(v).refused = (seen.refused \/ ~v.ok)
      BY <2>2, Typed DEF Refused, History, Inv
    <2>5. base' = [base EXCEPT !.charging_start_time = since]
          /\ seen' = [Refused(v) EXCEPT !.started = since]
      BY <2>1, <2>3, <2>4
    <2> HIDE DEF since
    <2>6. /\ base' \in Fields /\ base'.charging_start_time = since
          /\ base'.schedule_start_time = base.schedule_start_time
          /\ base'.maximum_scheduled_power = base.maximum_scheduled_power
          /\ base'.ev_exceeded_scheduled_pmax = base.ev_exceeded_scheduled_pmax
          /\ base'.ev_requested_nonzero_power = base.ev_requested_nonzero_power
          /\ base'.stopping_charging_session = base.stopping_charging_session
          /\ base'.gracefully_stopped_session = base.gracefully_stopped_session
      BY <2>3, <2>5, Typed DEF Fields, Inv
    <2>7. /\ seen' \in History /\ seen'.started = since
          /\ seen'.schedule = seen.schedule /\ seen'.scheduled = seen.scheduled
          /\ seen'.charged = seen.charged /\ seen'.drew = seen.drew /\ seen'.over = seen.over
          /\ seen'.ended = seen.ended /\ seen'.beyond_grace = seen.beyond_grace
          /\ seen'.second_entry = seen.second_entry /\ seen'.renegotiated = seen.renegotiated
          /\ seen'.refused = (seen.refused \/ ~v.ok)
      BY <2>3, <2>4, <2>5 DEF History
    <2>8. Types' /\ Told'
      BY <1>1, <2>1, <2>2, <2>3, <2>6, <2>7, AnswerIsTyped, Typed DEF Inv, Types
    <2>9. Noted' /\ StopNoted'
      BY <2>6, <2>7 DEF Inv, Noted, StopNoted
    <2>10. ScheduledFirst'
      BY <2>3, <2>6, <2>7, Typed DEF Inv, ScheduledFirst, Types, History, Fields
    <2>11. RisingNoted'
      BY <2>6, <2>7 DEF Inv, RisingNoted, Rising, RisingSchedule, PMax, InSession, config
    <2>12. StartedFirst'
      <3>1. SUFFICES ASSUME session' = "open", state' = Msg.CURRENT_DEMAND, since = 0
                     PROVE  ~v.ok
        BY <2>7 DEF StartedFirst
      <3>2. v.event = "NO_EVENT" /\ next = Msg.CURRENT_DEMAND
        BY <2>1, <2>2, <3>1 DEF Answer, Reply, Events
      <3>3. ~Succeeds(v)
        BY <2>3, <3>1, <3>2
      <3>4. QED
        BY <2>2, <3>2, <3>3
    <2>13. QED
      BY <2>8, <2>9, <2>10, <2>11, <2>12 DEF Inv
  <1>4. QED
    BY <1>2, <1>3

\* SessionStop ends the session, and either well, or with something refused.
LEMMA StopsWell ==
    ASSUME Inv, InSession, SessionStop
    PROVE  Inv'
  <1> DEFINE m == Msg.SESSION_STOP
             closes == [event |-> "SEND_AND_TERMINATE"]
  <1>1. PICK v \in Results(m) :
          /\ Answer(m, closes, Msg.UNKNOWN)
          /\ base' = [base EXCEPT !.gracefully_stopped_session = @ \/ v.ok]
          /\ seen' = [Refused(v) EXCEPT !.stopped = clock, !.ended = TRUE]
    BY DEF SessionStop
  <1>2. /\ v \in [ok : BOOLEAN, event : Events] /\ m \in Requests /\ Msg.UNKNOWN \in Ids
        /\ closes.event \in Events
    BY Responses, Numbers, IdNumbers, RequestNumbers DEF Events
  <1>3. /\ base' \in Fields /\ base'.charging_start_time = base.charging_start_time
        /\ base'.schedule_start_time = base.schedule_start_time
        /\ base'.maximum_scheduled_power = base.maximum_scheduled_power
        /\ base'.ev_exceeded_scheduled_pmax = base.ev_exceeded_scheduled_pmax
        /\ base'.ev_requested_nonzero_power = base.ev_requested_nonzero_power
        /\ base'.stopping_charging_session = base.stopping_charging_session
        /\ base'.gracefully_stopped_session = (base.gracefully_stopped_session \/ v.ok)
    BY <1>1, <1>2, Typed DEF Fields, Inv
  <1>4. /\ seen' \in History /\ seen'.started = seen.started
        /\ seen'.schedule = seen.schedule /\ seen'.scheduled = seen.scheduled
        /\ seen'.charged = seen.charged /\ seen'.drew = seen.drew /\ seen'.over = seen.over
        /\ seen'.ended /\ seen'.beyond_grace = seen.beyond_grace
        /\ seen'.second_entry = seen.second_entry /\ seen'.renegotiated = seen.renegotiated
        /\ seen'.refused = (seen.refused \/ ~v.ok)
    BY <1>1, <1>2, Typed DEF Refused, History, Inv
  <1>5. Types' /\ Told'
    BY <1>1, <1>2, <1>3, <1>4, AnswerIsTyped, Typed DEF Inv, Types
  <1>6. Noted' /\ StopNoted' /\ ScheduledFirst'
    BY <1>2, <1>3, <1>4 DEF Inv, Noted, StopNoted, ScheduledFirst
  <1>7. RisingNoted'
    BY <1>3, <1>4 DEF Inv, RisingNoted, Rising, RisingSchedule, PMax, InSession, config
  <1>8. StartedFirst'
    BY <1>1 DEF StartedFirst, Answer, Reply
  <1>9. QED
    BY <1>5, <1>6, <1>7, <1>8 DEF Inv
\* The time that charging takes is no longer than the one since the schedule, so that a
\* vehicle that has charged for long enough is past the grace period of the second entry.
LEMMA ChargedPastSecondEntry ==
    ASSUME Inv, seen.started > 0, ~seen.renegotiated,
           TargetDuration < Elapsed(base.charging_start_time)
    PROVE  InSecondEntry
  <1>1. /\ base.charging_start_time = seen.started /\ base.schedule_start_time <= seen.started
        /\ seen.started \in Nat /\ seen.started <= clock /\ clock \in Nat
        /\ base.schedule_start_time \in Nat /\ Epoch \in Nat
        /\ seen.scheduled = base.schedule_start_time
    BY Typed, ScheduleAssumption DEF Inv, Noted, ScheduledFirst, Types, Fields, History
  <1>2. Elapsed(base.charging_start_time) = clock - seen.started
    BY <1>1 DEF Elapsed
  <1>3. Elapsed(base.schedule_start_time) >= clock - seen.started
    BY <1>1 DEF Elapsed
  <1>4. Elapsed(base.schedule_start_time) \in Int
    BY <1>1 DEF Elapsed
  <1>5. QED
    BY <1>1, <1>2, <1>3, <1>4, Starts DEF InSecondEntry

\* Each good CurrentDemand is judged, and the vehicle asked to stop when it is done.
LEMMA JudgesWell ==
    ASSUME Inv, InSession, CurrentDemand
    PROVE  Inv'
  <1> DEFINE m == Msg.CURRENT_DEMAND
  <1>1. m \in Handled /\ m \in Requests /\ m \in Ids /\ m \in NextStates(m)
    BY NextStatesAreIds, Numbers, IdNumbers DEF Handled, NextStates
  <1>2. PICK v \in Results(m), power \in Powers :
          /\ Answer(m, v, m)
          /\ IF Succeeds(v)
             THEN LET exceeded == base.ev_exceeded_scheduled_pmax \/ ExceedsSchedule(power)
                      stops    == exceeded \/ TargetDuration < Elapsed(base.charging_start_time)
                      asked    == stops /\ ~base.stopping_charging_session
                  IN  /\ base' = [base EXCEPT !.ev_exceeded_scheduled_pmax = exceeded,
                                              !.ev_requested_nonzero_power = @ \/ power > 1,
                                              !.stopping_charging_session = @ \/ stops,
                                              !.stop_time = IF asked THEN clock ELSE @]
                      /\ seen' = [seen EXCEPT
                                     !.charged = @ \/ clock > seen.started + TargetDuration,
                                     !.second_entry = @ \/ InSecondEntry,
                                     !.drew = @ \/ power > 1,
                                     !.over = @ \/ Exceeds(power, InForce(0)),
                                     !.beyond_grace = @ \/ Exceeds(power, InForce(GracePeriod))]
             ELSE UNCHANGED base /\ seen' = Refused(v)
    BY DEF CurrentDemand
  <1>3. CASE ~Succeeds(v)
    BY <1>1, <1>2, <1>3, NothingNoted
  <1>4. CASE Succeeds(v)
    <2> DEFINE exceeded == base.ev_exceeded_scheduled_pmax \/ ExceedsSchedule(power)
               stops    == exceeded \/ TargetDuration < Elapsed(base.charging_start_time)
               time     == IF stops /\ ~base.stopping_charging_session THEN clock
                           ELSE base.stop_time
               stopping == base.stopping_charging_session \/ stops
               draws    == base.ev_requested_nonzero_power \/ power > 1
               charged  == seen.charged \/ clock > seen.started + TargetDuration
               second   == seen.second_entry \/ InSecondEntry
               drew     == seen.drew \/ power > 1
               over     == seen.over \/ Exceeds(power, InForce(0))
               beyond   == seen.beyond_grace \/ Exceeds(power, InForce(GracePeriod))
    <2>1. /\ v \in [ok : BOOLEAN, event : Events] /\ state = Msg.CURRENT_DEMAND
          /\ power \in Nat
      <3>1. v \in [ok : BOOLEAN, event : Events] /\ InOrder(m)
        BY <1>4, Responses
      <3>2. state = Msg.CURRENT_DEMAND
        BY <3>1, Numbers DEF InOrder
      <3>3. power \in Nat
        BY PowersAreNat DEF Inv
      <3>4. QED
        BY <3>1, <3>2, <3>3
    <2>2. /\ exceeded \in BOOLEAN /\ draws \in BOOLEAN /\ stopping \in BOOLEAN /\ time \in Times
          /\ charged \in BOOLEAN /\ second \in BOOLEAN /\ drew \in BOOLEAN
          /\ over \in BOOLEAN /\ beyond \in BOOLEAN
      BY Typed DEF Inv, Fields, History
    <2>3. /\ base' = [base EXCEPT !.ev_exceeded_scheduled_pmax = exceeded,
                                  !.ev_requested_nonzero_power = draws,
                                  !.stopping_charging_session = stopping,
                                  !.stop_time = time]
          /\ seen' = [seen EXCEPT !.charged = charged, !.second_entry = second, !.drew = drew,
                                  !.over = over, !.beyond_grace = beyond]
      BY <1>2, <1>4, Typed DEF Inv, Fields, History
    <2>4. over <=> seen.over \/ Exceeds(power, InForce(0))
      OBVIOUS
    <2>5. exceeded => over
      BY <2>1, ExceedsIsOver DEF Inv, Noted
    <2>6. Rising => RisingSchedule /\ (beyond => exceeded)
      BY <2>1, BeyondGraceExceeds DEF Inv, RisingNoted
    <2>7. draws <=> drew
      BY DEF Inv, Noted
    <2>8. charged => stopping
      <3>1. SUFFICES ASSUME clock > seen.started + TargetDuration
                     PROVE  TargetDuration < Elapsed(base.charging_start_time)
        BY DEF Inv, Noted
      <3>2. /\ base.charging_start_time = seen.started /\ seen.started \in Nat
            /\ clock \in Nat /\ Epoch \in Nat /\ TargetDuration \in Nat
        BY Typed, Starts, ScheduleAssumption DEF Inv, Noted, History
      <3>3. QED
        BY <3>1, <3>2 DEF Elapsed
    <2>9. stopping => \/ exceeded \/ seen.refused
                      \/ charged /\ (second \/ seen.renegotiated)
      <3>1. SUFFICES ASSUME ~seen.refused, TargetDuration < Elapsed(base.charging_start_time)
                     PROVE  /\ clock > seen.started + TargetDuration
                            /\ InSecondEntry \/ seen.renegotiated
        BY DEF Inv, StopNoted
      <3>2. seen.started > 0
        BY <2>1, <3>1, Typed DEF InSession, Inv, StartedFirst, History
      <3>3. Elapsed(base.charging_start_time) = clock - seen.started
        BY <3>2, Typed DEF Elapsed, Inv, Noted, History
      <3>4. clock > seen.started + TargetDuration
        <4>1. /\ seen.started \in Nat /\ clock \in Nat /\ TargetDuration \in Nat
              /\ TargetDuration < clock - seen.started
          BY <3>1, <3>3, Starts, Typed DEF Inv, History
        <4>2. QED
          BY <4>1
      <3>5. QED
        BY <3>1, <3>2, <3>4, ChargedPastSecondEntry
    <2> HIDE DEF exceeded, stops, time, stopping, draws, charged, second, drew, over, beyond
    <2>10. /\ base' \in Fields /\ base'.charging_start_time = base.charging_start_time
           /\ base'.schedule_start_time = base.schedule_start_time
           /\ base'.maximum_scheduled_power = base.maximum_scheduled_power
           /\ base'.ev_exceeded_scheduled_pmax = exceeded
           /\ base'.ev_requested_nonzero_power = draws
           /\ base'.stopping_charging_session = stopping
           /\ base'.gracefully_stopped_session = base.gracefully_stopped_session
      BY <2>2, <2>3, Typed DEF Fields, Inv
    <2>11. /\ seen' \in History /\ seen'.started = seen.started
           /\ seen'.schedule = seen.schedule /\ seen'.scheduled = seen.scheduled
           /\ seen'.charged = charged /\ seen'.drew = drew /\ seen'.over = over
           /\ seen'.ended = seen.ended /\ seen'.beyond_grace = beyond
           /\ seen'.second_entry = second /\ seen'.renegotiated = seen.renegotiated
           /\ seen'.refused = seen.refused
      <3>1. seen \in History
        BY Typed DEF Inv
      <3> DEFINE seen_entry == [seen EXCEPT !.charged = charged, !.second_entry = second]
      <3>2. seen' = [seen_entry EXCEPT !.drew = drew, !.over = over, !.beyond_grace = beyond]
        BY <2>3, <3>1 DEF History
      <3>3. /\ seen_entry \in History /\ seen_entry.started = seen.started
            /\ seen_entry.schedule = seen.schedule /\ seen_entry.scheduled = seen.scheduled
            /\ seen_entry.charged = charged /\ seen_entry.second_entry = second
            /\ seen_entry.ended = seen.ended /\ seen_entry.refused = seen.refused
            /\ seen_entry.renegotiated = seen.renegotiated
        BY <2>2, <3>1 DEF History
      <3> HIDE DEF seen_entry
      <3>4. QED
        BY <2>2, <3>2, <3>3 DEF History
    <2>12. Types' /\ Told'
      BY <1>1, <1>2, <2>1, <2>10, <2>11, AnswerIsTyped, Typed DEF Inv, Types
    <2>13. Noted'
      BY <2>5, <2>7, <2>8, <2>10, <2>11 DEF Inv, Noted
    <2>14. StopNoted' /\ ScheduledFirst'
      BY <2>9, <2>10, <2>11 DEF Inv, StopNoted, ScheduledFirst
    <2>15. RisingNoted'
      BY <2>6, <2>10, <2>11 DEF RisingNoted, Rising, RisingSchedule, PMax, InSession, config
    <2>16. StartedFirst'
      BY <2>1, <2>11 DEF Inv, InSession, StartedFirst
    <2>17. QED
      BY <2>12, <2>13, <2>14, <2>15, <2>16 DEF Inv
  <1>5. QED
    BY <1>3, <1>4

-----------------------------------------------------------------------------
(***************************************************************************)
(* The theorems                                                            *)
(***************************************************************************)
LEMMA PassesWell ==
    ASSUME Inv, Passes
    PROVE  Inv'
  <1> USE DEF config, testVars
  <1>1. /\ seen' \in History /\ seen'.started = seen.started
        /\ seen'.schedule = seen.schedule /\ seen'.scheduled = seen.scheduled
        /\ seen'.charged = seen.charged /\ seen'.drew = seen.drew /\ seen'.over = seen.over
        /\ seen'.ended = seen.ended /\ seen'.beyond_grace = seen.beyond_grace
        /\ seen'.second_entry = seen.second_entry /\ seen'.renegotiated = seen.renegotiated
        /\ seen'.refused = seen.refused
    BY Typed DEF Passes, History, Inv
  <1>2. base' = base /\ test' = test /\ protocol' = protocol /\ clock <= clock'
        /\ session' \in {"open", "closing"} /\ session = "open" /\ state' = state
    BY Typed DEF Passes, Inv
  <1>3. TypeOK'
    BY <1>1, <1>2, Typed DEF Passes, Inv, Types, TypeOK, Fields, History
  <1>4. base'.schedule_start_time <= clock' /\ seen'.started <= clock' /\ clock' > 0
    BY <1>1, <1>2, Typed DEF Inv, Types, Fields, History, Passes
  <1>5. Types'
    BY <1>1, <1>2, <1>3, <1>4 DEF Inv, Types, Passes
  <1>6. Noted' /\ StopNoted' /\ ScheduledFirst' /\ StartedFirst'
    BY <1>1, <1>2 DEF Inv, Noted, StopNoted, ScheduledFirst, StartedFirst
  <1>7. RisingNoted'
    BY <1>1, <1>2 DEF Inv, RisingNoted, Rising, RisingSchedule, PMax
  <1>8. Told'
    BY <1>2 DEF Told
  <1>9. QED
    BY <1>5, <1>6, <1>7, <1>8 DEF Inv

LEMMA ConcludesWell ==
    ASSUME Inv, ConnectionClose(SmartVerdict), UNCHANGED stop_hlc
    PROVE  Inv'
  <1>1. /\ session' = "closed" /\ outcome' = SmartVerdict
        /\ UNCHANGED <<test, protocol, terminate_connection_on_failed_response,
                       is_connection_terminated, state, last_v2g_msg, base, clock, seen>>
    BY DEF ConnectionClose, config, linkVars
  <1>2. TypeOK'
    BY <1>1 DEF Inv, Types, TypeOK, Times
  <1>3. Types'
    BY <1>1, <1>2 DEF Inv, Types
  <1>4. Noted' /\ StopNoted' /\ ScheduledFirst' /\ StartedFirst'
    BY <1>1 DEF Inv, Noted, StopNoted, ScheduledFirst, StartedFirst
  <1>5. RisingNoted'
    BY <1>1 DEF Inv, RisingNoted, Rising, RisingSchedule, PMax
  <1>6. Told'
    BY <1>1 DEF Told, SmartVerdict, Verdict
  <1>7. QED
    BY <1>3, <1>4, <1>5, <1>6 DEF Inv

LEMMA StaysGood ==
    ASSUME Inv, [SmartNext]_smartVars
    PROVE  Inv'
  <1>1. CASE SmartNext
    <2>1. CASE InSession /\ \E m \in LeftToBaseServer : BaseServerHandles(m)
      <3>1. PICK m \in LeftToBaseServer :
              \E v \in Results(m), next \in NextStates(m) :
                 Answer(m, v, next) /\ UNCHANGED base /\ seen' = Refused(v)
        BY <2>1 DEF BaseServerHandles
      <3>2. m \in Handled /\ Msg.CURRENT_DEMAND \notin NextStates(m)
        BY NextStatesAreIds, Numbers DEF LeftToBaseServer, Handled
      <3>3. QED
        BY <2>1, <3>1, <3>2, NothingNoted
    <2>2. QED
      BY <1>1, <2>1, Steps, SchedulesWell, StartsWell, JudgesWell, StopsWell, PassesWell,
         ConcludesWell DEF Inv
  <1>2. CASE UNCHANGED smartVars
    <2>1. Types'
      BY <1>2 DEF Inv, Types, TypeOK, Times, smartVars, vars, config, linkVars, replyVars,
                  bspVars, testVars
    <2>2. QED
      BY <1>2, <2>1 DEF Inv, Noted, RisingNoted, Rising, RisingSchedule, PMax, StopNoted,
                  ScheduledFirst, StartedFirst, Told, SmartVerdict, Verdict, smartVars, vars,
                  config, linkVars, replyVars, bspVars, testVars
  <1>3. QED
    BY <1>1, <1>2

THEOREM Invariance == SmartSpec => []Inv
  BY StartIsGood, StaysGood, PTL DEF SmartSpec

\* The fields of the tests and the history have the values they are declared with.
THEOREM TypeCorrect == SmartSpec => []TypeOK
  <1>1. Inv => TypeOK
    BY DEF Inv, Types
  <1>2. QED
    BY <1>1, Invariance, PTL

\* A vehicle fails only for what it has done (on_test_finished): each flag that speaks
\* against it stands for something the vehicle did.
THEOREM ScheduleFailIsDeservedCorrect == SmartSpec => []ScheduleFailIsDeserved
  <1>1. Inv => ScheduleFailIsDeserved
    <2>1. SUFFICES ASSUME Inv, Judged("PassCriteriaNotMet")
                   PROVE  \/ base.ev_exceeded_scheduled_pmax \/ ~base.ev_requested_nonzero_power
                          \/ ~base.stopping_charging_session \/ ~base.gracefully_stopped_session
      BY DEF ScheduleFailIsDeserved, Inv, Noted
    <2>2. SmartVerdict = "PassCriteriaNotMet"
      BY <2>1 DEF Judged, Inv, Told
    <2>3. QED
      BY <2>2 DEF SmartVerdict, Verdict
  <1>2. QED
    BY <1>1, Invariance, PTL

LEMMA PassedOn ==
    ASSUME Inv, Judged("PassCriteriaMet")
    PROVE  ~base.ev_exceeded_scheduled_pmax /\ base.stopping_charging_session
  <1>1. SmartVerdict = "PassCriteriaMet"
    BY DEF Judged, Inv, Told
  <1>2. QED
    BY <1>1 DEF SmartVerdict, Verdict

\* A vehicle passes only if it kept to each schedule that it was sent, where that rises, also
\* to one that it was sent while it charged, and charged for long enough since it began, and
\* into the second entry, whatever the durations (on_test_finished,
\* handle_din_current_demand).
THEOREM PassIsEarnedCorrect == SmartSpec => []PassIsEarned
  <1>1. Inv => RisingScheduleIsFollowed
    BY PassedOn DEF RisingScheduleIsFollowed, Inv, RisingNoted
  <1>2. Inv => PassIsLongEnough
    BY PassedOn DEF PassIsLongEnough, Inv, StopNoted
  <1>3. Inv => PassIsEarned
    BY <1>1, <1>2 DEF PassIsEarned
  <1>4. QED
    BY <1>3, Invariance, PTL
=============================================================================
