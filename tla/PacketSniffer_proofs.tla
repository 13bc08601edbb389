------------------------- MODULE PacketSniffer_proofs -------------------------
(***************************************************************************)
(* Proofs about PacketSniffer, for any number of capture threads and       *)
(* whether or not files can be opened.                                     *)
(***************************************************************************)
EXTENDS PacketSniffer, TLAPS

\* Threads that have not acknowledged the end of their capture.
Active(t) == capture[t] \in {"open", "loop", "error", "close", "exchange"}

OneActive == \A t, u \in Thread : Active(t) /\ Active(u) => t = u

\* What the state says about the threads, and the caller about the state.
StateOfThreads ==
  \A t \in Thread : /\ Active(t) => state \in {"RUNNING", "STOPPING"}
                    /\ capture[t] \in {"close", "exchange"} => state = "STOPPING"

StateOfCaller ==
  IF ~sniffing_enabled
  THEN state = "DISABLED" /\ caller \in {"ready", "started"}
  ELSE /\ caller = "ready" => state = "STANDBY"
       /\ caller = "started" => state \in {"RUNNING", "STOPPING", "STOPPED"}
       /\ caller \in {"load", "predicate", "falling_asleep", "asleep"} =>
             state \in {"STOPPING", "STOPPED"}
       /\ caller = "reset" => state = "STOPPED"

IInv == TypeOK /\ OneActive /\ StateOfThreads /\ StateOfCaller

LEMMA InitInv == Init => IInv
  BY DEF Init, IInv, TypeOK, OneActive, StateOfThreads, StateOfCaller, Active, SnifferState,
         CallerStep, CaptureStep

\* A thread that moves on keeps the type, and the other threads where they are.
LEMMA ThreadMoves ==
  ASSUME TypeOK, NEW t \in Thread, NEW from, NEW to \in CaptureStep, ThreadGoes(t, from, to)
  PROVE  /\ capture' \in [Thread -> CaptureStep]
         /\ capture[t] = from /\ capture'[t] = to
         /\ \A u \in Thread : u # t => capture'[u] = capture[u]
  BY DEF ThreadGoes, TypeOK

LEMMA NextInv == IInv /\ [Next]_vars => IInv'
  <1> SUFFICES ASSUME IInv, [Next]_vars PROVE IInv'
    OBVIOUS
  <1>0. TypeOK /\ OneActive /\ StateOfThreads /\ StateOfCaller
    BY DEF IInv
  <1>1. CASE start_capture
    <2>1. CASE sniffing_enabled
      <3>1. state = "STANDBY" /\ state' = "RUNNING" /\ caller' = "started" /\ UNCHANGED sniffing_enabled
        BY <1>0, <1>1, <2>1 DEF start_capture, may_start, CallerGoes, StateOfCaller
      <3>2. PICK t \in Thread : capture[t] = "none" /\ capture' = [capture EXCEPT ![t] = "open"]
        BY <1>0, <1>1, <2>1, <3>1 DEF start_capture, may_start
      <3>3. \A u \in Thread : ~Active(u)
        BY <1>0, <3>1 DEF StateOfThreads
      <3>4. /\ capture' \in [Thread -> CaptureStep] /\ capture'[t] = "open"
            /\ \A u \in Thread : u # t => capture'[u] = capture[u]
        BY <1>0, <3>2 DEF TypeOK, CaptureStep
      <3>5. OneActive' /\ StateOfThreads'
        BY <3>1, <3>3, <3>4 DEF OneActive, StateOfThreads, Active
      <3>6. QED
        BY <1>0, <2>1, <3>1, <3>4, <3>5
           DEF IInv, TypeOK, StateOfCaller, SnifferState, CallerStep
    <2>2. CASE ~sniffing_enabled
      BY <1>0, <1>1, <2>2 DEF start_capture, may_start, CallerGoes, IInv, TypeOK, OneActive, Active,
                              StateOfThreads, StateOfCaller, CallerStep
    <2>3. QED
      BY <2>1, <2>2
  <1>2. CASE Stopping \/ spurious_wakeup
    <2>1. UNCHANGED <<sniffing_enabled, capture>>
      BY <1>2 DEF Stopping, stop_capture, stop_capture_Disabled, load_state, evaluate_predicate,
                  fall_asleep, reset_state, spurious_wakeup
    <2>2. caller' \in CallerStep /\ state' \in SnifferState /\ StateOfCaller'
      BY <1>0, <1>2 DEF Stopping, stop_capture, stop_capture_Disabled, load_state,
                        evaluate_predicate, fall_asleep, reset_state, reset, spurious_wakeup,
                        CallerGoes, TypeOK, StateOfCaller, CallerStep, SnifferState
    <2>3. \/ state' = state
          \/ state = "RUNNING" /\ state' = "STOPPING"
          \/ state = "STOPPED" /\ state' = "STANDBY"
      BY <1>2 DEF Stopping, stop_capture, stop_capture_Disabled, load_state, evaluate_predicate,
                  fall_asleep, reset_state, reset, spurious_wakeup
    <2>4. StateOfThreads'
      BY <1>0, <2>1, <2>3 DEF StateOfThreads, Active
    <2>5. QED
      BY <1>0, <2>1, <2>2, <2>4 DEF IInv, TypeOK, OneActive, Active, StateOfCaller
  <1>3. ASSUME NEW t \in Thread, Capturing(t) \/ dispatch_error(t) PROVE IInv'
    <2>1. \E from \in {"open", "loop", "error", "close", "exchange", "notify"},
             to \in CaptureStep : ThreadGoes(t, from, to)
      BY <1>3 DEF Capturing, open_dump, stop_requested, leave_loop, dispatch_error, end_capture,
                  pcap_dump_close, acknowledge, notify_all, CaptureStep
    <2>2. /\ capture' \in [Thread -> CaptureStep]
          /\ \A u \in Thread : u # t => capture'[u] = capture[u]
      BY <1>0, <2>1, ThreadMoves
    <2>3. Active(t)' => Active(t)
      BY <1>0, <1>3, <2>1, ThreadMoves
         DEF Capturing, open_dump, stop_requested, leave_loop, dispatch_error, end_capture,
             pcap_dump_close, acknowledge, notify_all, Active, TypeOK, ThreadGoes
    <2>4. OneActive'
      BY <1>0, <2>2, <2>3 DEF OneActive, Active
    <2>5. /\ UNCHANGED sniffing_enabled /\ caller' \in CallerStep
          /\ \/ state' = state
             \/ state = "RUNNING" /\ state' = "STOPPING"
             \/ state = "STOPPING" /\ state' = "STOPPED" /\ capture[t] = "exchange" /\ ~Active(t)'
          /\ caller' = caller \/ (caller = "asleep" /\ caller' = "predicate")
      BY <1>0, <1>3 DEF Capturing, open_dump, stop_requested, leave_loop, dispatch_error,
             end_capture, pcap_dump_close, acknowledge, notify_all, Active, TypeOK,
             ThreadGoes, CallerStep
    <2>6. capture'[t] \in {"close", "exchange"} => state' = "STOPPING"
      BY <1>0, <1>3 DEF Capturing, open_dump, stop_requested, leave_loop, dispatch_error,
             end_capture, pcap_dump_close, acknowledge, notify_all, Active, TypeOK,
             ThreadGoes, StateOfThreads
    <2>7. \A u \in Thread : u # t /\ Active(u) => ~Active(t)
      BY <1>0 DEF OneActive
    <2>8. StateOfThreads'
      BY <1>0, <2>2, <2>3, <2>5, <2>6, <2>7 DEF StateOfThreads, Active
    <2>9. StateOfCaller'
      <3>1. sniffing_enabled => state # "STOPPING" \/ caller # "ready"
        BY <1>0 DEF StateOfCaller
      <3>2. QED
        BY <1>0, <2>5, <3>1 DEF StateOfCaller
    <2>10. state' \in SnifferState
      BY <1>0, <2>5 DEF TypeOK, SnifferState
    <2>11. QED
      BY <1>0, <2>2, <2>4, <2>5, <2>8, <2>9, <2>10 DEF IInv, TypeOK, StateOfCaller
  <1>4. CASE UNCHANGED vars
    BY <1>0, <1>4 DEF vars, IInv, TypeOK, OneActive, Active, StateOfThreads, StateOfCaller
  <1>5. QED
    BY <1>1, <1>2, <1>3, <1>4 DEF Next

LEMMA InvKept == Spec => []IInv
  BY InitInv, NextInv, PTL DEF Spec

\* TypeOK: the sniffer's state, the capture threads and the manager's call keep to their steps.
THEOREM TypeCorrect == Spec => []TypeOK
  <1>1. IInv => TypeOK
    BY DEF IInv
  <1>2. QED
    BY <1>1, InvKept, PTL

\* CapturesAreSeparate: two captures never use the device and the file at the same
\* time, and every start_capture starts a capture, if sniffing is enabled.
THEOREM CapturesSeparated == Spec => []CapturesAreSeparate
  <1>1. IInv => OneWriter
    BY DEF IInv, OneActive, OneWriter, Active, Writing
  <1>2. IInv => StartFindsStandby
    BY DEF IInv, StateOfCaller, StartFindsStandby
  <1>3. IInv => CapturesAreSeparate
    BY <1>1, <1>2 DEF CapturesAreSeparate
  <1>4. QED
    BY <1>3, InvKept, PTL

-----------------------------------------------------------------------------
(***************************************************************************)
(* The refinement of Capture                                               *)
(***************************************************************************)
AnyWriting == \E t \in Thread : Writing(t)

\* The state that Capture sees.
Seen == IF state = "STOPPING" THEN "RUNNING" ELSE state

LEMMA InitContract == Init => Contract!Init
  BY DEF Init, Contract!Init, Writing

\* Between a capture and the next one nobody writes.
LEMMA Idle ==
  ASSUME IInv, state \notin {"RUNNING", "STOPPING"}
  PROVE  ~AnyWriting
  BY DEF IInv, StateOfThreads, Active, Writing, AnyWriting

\* The thread that leaves the file, or stays away from it, was the only one.
LEMMA LastWriter ==
  ASSUME IInv, NEW t \in Thread, Active(t), capture' = [capture EXCEPT ![t] = capture'[t]]
  PROVE  /\ AnyWriting <=> Writing(t)
         /\ AnyWriting' <=> Writing(t)'
  <1>1. \A u \in Thread : u # t => ~Active(u) /\ capture'[u] = capture[u]
    BY DEF IInv, OneActive, TypeOK
  <1>2. \A u \in Thread : u # t => ~Writing(u) /\ ~Writing(u)'
    BY <1>1 DEF Active, Writing
  <1>3. QED
    BY <1>2 DEF AnyWriting

\* Every step of a capture thread is one of Capture's, or none.
LEMMA ThreadStep ==
  ASSUME IInv, NEW t \in Thread, Capturing(t) \/ dispatch_error(t)
  PROVE  \/ AnyWriting /\ ~AnyWriting' /\ Seen' = Seen
         \/ ~AnyWriting /\ ~AnyWriting' /\ Seen = "RUNNING" /\ Seen' = "STOPPED"
         \/ UNCHANGED <<Seen, AnyWriting>>
  <1>0. TypeOK /\ StateOfThreads
    BY DEF IInv
  <1>1. CASE notify_all(t)
    <2>1. /\ capture[t] = "notify" /\ capture'[t] = "none"
          /\ \A u \in Thread : u # t => capture'[u] = capture[u]
      BY <1>0, <1>1 DEF notify_all, ThreadGoes, TypeOK
    <2>2. \A u \in Thread : Writing(u)' <=> Writing(u)
      BY <2>1 DEF Writing
    <2>3. QED
      BY <1>1, <2>2 DEF notify_all, Seen, AnyWriting
  <1>2. CASE ~notify_all(t)
    <2>1. /\ Active(t)
          /\ capture' = [capture EXCEPT ![t] = capture'[t]]
          /\ \/ UNCHANGED <<Seen, Writing(t)>>
             \/ Writing(t) /\ ~Writing(t)' /\ Seen' = Seen
             \/ ~Writing(t) /\ ~Writing(t)' /\ Seen = "RUNNING" /\ Seen' = "STOPPED"
      BY <1>0, <1>2 DEF Capturing, open_dump, stop_requested, leave_loop, dispatch_error,
             end_capture, pcap_dump_close, acknowledge, ThreadGoes, TypeOK, StateOfThreads,
             Active, Writing, Seen
    <2>2. (AnyWriting <=> Writing(t)) /\ (AnyWriting' <=> Writing(t)')
      BY <2>1, LastWriter
    <2>3. AnyWriting \in BOOLEAN /\ AnyWriting' \in BOOLEAN
      BY DEF AnyWriting
    <2>4. Writing(t) \in BOOLEAN /\ Writing(t)' \in BOOLEAN
      BY DEF Writing
    <2>5. QED
      BY <2>1, <2>2, <2>3, <2>4
  <1>3. QED
    BY <1>1, <1>2

LEMMA NextContract == IInv /\ [Next]_vars => [Contract!Next]_(Contract!vars)
  <1> SUFFICES ASSUME IInv, [Next]_vars PROVE [Contract!Next]_(Contract!vars)
    OBVIOUS
  <1> USE DEF Contract!Next, Contract!vars
  <1>0. TypeOK /\ StateOfCaller
    BY DEF IInv
  <1>1. CASE start_capture
    <2>1. CASE sniffing_enabled
      <3>1. state = "STANDBY" /\ state' = "RUNNING"
        BY <1>0, <1>1, <2>1 DEF start_capture, may_start, CallerGoes, StateOfCaller
      <3>2. AnyWriting'
        BY <1>0, <1>1, <2>1, <3>1 DEF start_capture, may_start, TypeOK, AnyWriting, Writing
      <3>3. QED
        BY <3>1, <3>2, Idle DEF Contract!Start, AnyWriting
    <2>2. CASE ~sniffing_enabled
      BY <1>1, <2>2 DEF start_capture, may_start, Writing
    <2>3. QED
      BY <2>1, <2>2
  <1>2. CASE Stopping \/ spurious_wakeup
    <2>1. /\ capture' = capture
          /\ \/ state' = state
             \/ state = "RUNNING" /\ state' = "STOPPING"
             \/ state = "STOPPED" /\ state' = "STANDBY"
      BY <1>2 DEF Stopping, stop_capture, stop_capture_Disabled, load_state, evaluate_predicate,
                  fall_asleep, reset_state, reset, spurious_wakeup
    <2>2. UNCHANGED AnyWriting
      BY <2>1 DEF AnyWriting, Writing
    <2>3. QED
      BY <2>1, <2>2, Idle DEF Contract!Reset, AnyWriting
  <1>3. ASSUME NEW t \in Thread, Capturing(t) \/ dispatch_error(t)
        PROVE  Contract!Next \/ UNCHANGED Contract!vars
    BY <1>3, ThreadStep DEF Contract!CloseFile, Contract!End, AnyWriting, Seen
  <1>4. CASE UNCHANGED vars
    BY <1>4 DEF vars, Writing
  <1>5. QED
    BY <1>1, <1>2, <1>3, <1>4 DEF Next

\* ImplementsCapture: what the test manager relies on.  Whatever fails, and however often the
\* caller wakes up, a capture starts from STANDBY only, and its file is closed before it
\* counts as ended.
THEOREM CaptureImplemented == Spec => ImplementsCapture
  <1>1. QED
    BY InitContract, NextContract, InvKept, PTL DEF Spec, ImplementsCapture, Contract!Spec

=============================================================================
