------------------------------- MODULE Capture -------------------------------
(***************************************************************************)
(* What the test manager relies on when it calls PacketSniffer: a capture  *)
(* is started from STANDBY only; while it runs its file may be written to; *)
(* it ends when it is stopped, or by itself; and the sniffer is back in    *)
(* STANDBY only when the file of the capture is closed.                    *)
(*                                                                         *)
(* TestStateMachine abstracts the sniffer to the variable "capture" of     *)
(* this specification; PacketSniffer implements it.                        *)
(***************************************************************************)
VARIABLES capture,   \* DISABLED, STANDBY, RUNNING or STOPPED
          writing    \* may the file of the capture still be written to?

vars == <<capture, writing>>

Init == capture \in {"DISABLED", "STANDBY"} /\ writing = FALSE

Start == /\ capture = "STANDBY" /\ capture' = "RUNNING"
         /\ ~writing /\ writing' = TRUE

\* The file is closed, or could not be opened.
CloseFile == writing /\ writing' = FALSE /\ UNCHANGED capture

End == ~writing /\ capture = "RUNNING" /\ capture' = "STOPPED" /\ UNCHANGED writing

Reset == ~writing /\ capture = "STOPPED" /\ capture' = "STANDBY" /\ UNCHANGED writing

Next == Start \/ CloseFile \/ End \/ Reset

Spec == Init /\ [][Next]_vars

=============================================================================
