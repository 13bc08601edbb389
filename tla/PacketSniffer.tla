---------------------------- MODULE PacketSniffer ----------------------------
(***************************************************************************)
(* The packet sniffer (src/modules/EvseTestManager/PacketSniffer.cpp).     *)
(*                                                                         *)
(* Its caller is the test state machine, one thread at a time (they hold   *)
(* state_machine_mutex), alternating between start_capture() and           *)
(* stop_capture().  Each capture runs in a detached thread of its own.     *)
(* They communicate by the atomic "state" and the condition variable cv;   *)
(* every access to either is a step.  The mutex m of cv is locked by the   *)
(* caller only, and so excludes nobody.                                    *)
(***************************************************************************)
CONSTANTS Thread,        \* capture threads that may exist at once (a bound)
          OpenMayFail    \* may pcap_dump_open fail?

ASSUME SnifferAssumption == OpenMayFail \in BOOLEAN

SnifferState == {"DISABLED", "STANDBY", "RUNNING", "STOPPING", "STOPPED"}

\* Where the caller is: between a stop and a start, between a start and a
\* stop, or in stop_capture: before the load, before the lock, with the
\* predicate found false but not asleep yet, in cv.wait, before the reset.
CallerStep == {"ready", "started", "load", "predicate", "falling_asleep", "asleep", "reset"}

\* Where a capture thread is.
CaptureStep == {"none", "open", "loop", "error", "close", "exchange", "notify"}

VARIABLES sniffing_enabled, state, caller, capture

vars == <<sniffing_enabled, state, caller, capture>>

\* The constructor: STANDBY, unless the device or the directory is missing.
Init == /\ sniffing_enabled \in BOOLEAN
        /\ state = IF sniffing_enabled THEN "STANDBY" ELSE "DISABLED"
        /\ caller = "ready"
        /\ capture = [t \in Thread |-> "none"]

-----------------------------------------------------------------------------
(***************************************************************************)
(* The caller                                                              *)
(***************************************************************************)
CallerGoes(from, to) == caller = from /\ caller' = to

may_start_Unchecked == state # "RUNNING"  \* mutant: only a running capture is refused

may_start == sniffing_enabled /\ state = "STANDBY"

start_capture ==
    /\ CallerGoes("ready", "started")
    /\ IF may_start
       THEN /\ state' = "RUNNING"
            /\ \E t \in Thread : capture[t] = "none" /\ capture' = [capture EXCEPT ![t] = "open"]
       ELSE UNCHANGED <<state, capture>>
    /\ UNCHANGED sniffing_enabled

stop_capture_Disabled ==
    /\ ~sniffing_enabled /\ CallerGoes("started", "ready")
    /\ UNCHANGED <<sniffing_enabled, state, capture>>

\* The first exchange: tell a running capture to stop.
stop_capture ==
    /\ sniffing_enabled /\ CallerGoes("started", "load")
    /\ state' = IF state = "RUNNING" THEN "STOPPING" ELSE state
    /\ UNCHANGED <<sniffing_enabled, capture>>

load_state ==
    /\ CallerGoes("load", IF state = "STOPPING" THEN "predicate" ELSE "reset")
    /\ UNCHANGED <<sniffing_enabled, state, capture>>

evaluate_predicate ==
    /\ CallerGoes("predicate", IF state # "STOPPING" THEN "reset" ELSE "falling_asleep")
    /\ UNCHANGED <<sniffing_enabled, state, capture>>

fall_asleep ==
    /\ CallerGoes("falling_asleep", "asleep")
    /\ UNCHANGED <<sniffing_enabled, state, capture>>

\* cv.wait may return without a notification, and evaluates the predicate again.
spurious_wakeup ==
    /\ CallerGoes("asleep", "predicate")
    /\ UNCHANGED <<sniffing_enabled, state, capture>>

\* mutant: only a capture this call has stopped is reset
reset_WhenAsked == caller = "reset" /\ UNCHANGED state

reset == state' = IF state = "STOPPED" THEN "STANDBY" ELSE state

reset_state ==
    /\ reset
    /\ CallerGoes("reset", "ready")
    /\ UNCHANGED <<sniffing_enabled, capture>>

-----------------------------------------------------------------------------
(***************************************************************************)
(* PacketSniffer::capture, run by thread t                                 *)
(***************************************************************************)
ThreadGoes(t, from, to) == capture[t] = from /\ capture' = [capture EXCEPT ![t] = to]

open_dump(t) ==
    /\ \/ ThreadGoes(t, "open", "loop")
       \/ OpenMayFail /\ ThreadGoes(t, "open", "none")
    /\ UNCHANGED <<sniffing_enabled, state, caller>>

\* mutant: the stop is acknowledged before the file is closed
leave_loop_Early(t) == state # "RUNNING" /\ ThreadGoes(t, "loop", "close") /\ state' = "STOPPED"

leave_loop(t) == state # "RUNNING" /\ ThreadGoes(t, "loop", "close") /\ UNCHANGED state

stop_requested(t) == leave_loop(t) /\ UNCHANGED <<sniffing_enabled, caller>>

\* pcap_dispatch returns packets (no change) or an error.
dispatch_error(t) ==
    /\ state = "RUNNING" /\ ThreadGoes(t, "loop", "error")
    /\ UNCHANGED <<sniffing_enabled, state, caller>>

\* mutant: after an error, the loop goes on while nobody asks to stop
end_capture_Retry(t) ==
    /\ ThreadGoes(t, "error", IF state = "RUNNING" THEN "loop" ELSE "close")
    /\ UNCHANGED <<sniffing_enabled, state, caller>>

\* The exchange that marks the error, if nobody asked to stop in the meantime.
end_capture(t) ==
    /\ ThreadGoes(t, "error", "close")
    /\ state' = IF state = "RUNNING" THEN "STOPPING" ELSE state
    /\ UNCHANGED <<sniffing_enabled, caller>>

pcap_dump_close(t) ==
    /\ ThreadGoes(t, "close", "exchange")
    /\ UNCHANGED <<sniffing_enabled, state, caller>>

acknowledge(t) ==
    /\ ThreadGoes(t, "exchange", IF state = "STOPPING" THEN "notify" ELSE "none")
    /\ state' = IF state = "STOPPING" THEN "STOPPED" ELSE state
    /\ UNCHANGED <<sniffing_enabled, caller>>

\* notify_all wakes a caller that is asleep; without one it has no effect.
notify_all(t) ==
    /\ ThreadGoes(t, "notify", "none")
    /\ caller' = IF caller = "asleep" THEN "predicate" ELSE caller
    /\ UNCHANGED <<sniffing_enabled, state>>

-----------------------------------------------------------------------------
Stopping == stop_capture \/ stop_capture_Disabled \/ load_state \/ evaluate_predicate
            \/ fall_asleep \/ reset_state

Capturing(t) == open_dump(t) \/ stop_requested(t) \/ end_capture(t) \/ pcap_dump_close(t)
                \/ acknowledge(t) \/ notify_all(t)

Next == start_capture \/ Stopping \/ spurious_wakeup
        \/ \E t \in Thread : Capturing(t) \/ dispatch_error(t)

Spec == Init /\ [][Next]_vars

\* A thread that can run does.  Captures need not fail, tests need not start
\* or end, and the C++ standard allows spurious wakeups but promises none.
FairSpec == Spec /\ WF_vars(Stopping /\ caller # "started")
                 /\ \A t \in Thread : WF_vars(Capturing(t))

-----------------------------------------------------------------------------
(***************************************************************************)
(* Properties                                                              *)
(***************************************************************************)
\* The range of every variable; without a device the state is never touched.
TypeOK == /\ sniffing_enabled \in BOOLEAN
          /\ ~sniffing_enabled => state = "DISABLED"
          /\ state \in SnifferState
          /\ caller \in CallerStep
          /\ capture \in [Thread -> CaptureStep]

\* Threads that use p_handle or pdumpfile, which all captures share.
Writing(t) == capture[t] \in {"open", "loop", "error", "close"}

\* A capture never runs into the file of the one before, although the thread
\* of that one may still be about to notify.
OneWriter == \A t, u \in Thread : Writing(t) /\ Writing(u) => t = u

\* start_capture finds the sniffer in STANDBY whenever the state machine calls
\* it, so that no test goes without a capture because the one before was
\* stopped late, failed by itself or was stopped while it failed.
StartFindsStandby == caller = "ready" /\ sniffing_enabled => state = "STANDBY"

\* However a capture ended, the next one begins, and finds the device and the
\* file unused.
CapturesAreSeparate == OneWriter /\ StartFindsStandby

\* What TestStateMachine relies on: "STOPPING" is a capture that still runs,
\* and a reset implies a closed file.
Contract == INSTANCE Capture WITH
    capture <- IF state = "STOPPING" THEN "RUNNING" ELSE state,
    writing <- \E t \in Thread : Writing(t)

ImplementsCapture == Contract!Spec

\* A capture that is asked to stop, or fails, closes its file: its thread
\* never stays behind with the device and the file of a test that is over.
CapturesEnd == \A t \in Thread :
    capture[t] = "error" \/ (capture[t] = "loop" /\ state # "RUNNING") ~> ~Writing(t)

-----------------------------------------------------------------------------
(***************************************************************************)
(* A statement of the source the code does not keep (see README).          *)
(***************************************************************************)
\* "Wait for the capture thread to acknowledge the request to stop": the wait
\* ends, so that CleanupTest can go on.
StopReturns == caller = "load" ~> caller = "ready"

=============================================================================
