---------------------------- MODULE TestLifecycle ----------------------------
(***************************************************************************)
(* What the EVSE test manager promises its clients about a test instance:  *)
(* instances are executed one at a time and in the order they were         *)
(* scheduled; a waiting instance may be withdrawn; an executing instance   *)
(* is announced once as running and ends once, either finished or          *)
(* canceled; its result is reported only between these two announcements.  *)
(*                                                                         *)
(* TestStateMachine implements this specification (see Lifecycle there).   *)
(***************************************************************************)
EXTENDS Sequences, Naturals

CONSTANTS Runs    \* the instance ids (boost::uuids of schedule_test)

VARIABLES queue,      \* the instances waiting, oldest first
          stage,      \* how far each instance has come
          reported    \* the instances with a published result

vars == <<queue, stage, reported>>

Stages == {"Unknown", "Queued", "Selected", "Running", "Canceled", "Finished"}

Executing == {r \in Runs : stage[r] \in {"Selected", "Running"}}

Init == /\ queue = <<>>
        /\ stage = [r \in Runs |-> "Unknown"]
        /\ reported = {}

Schedule(r) == /\ stage[r] = "Unknown"
               /\ queue' = Append(queue, r)
               /\ stage' = [stage EXCEPT ![r] = "Queued"]
               /\ UNCHANGED reported

\* The instance at position i leaves the queue without ever being executed.
Withdraw(i) == /\ i \in DOMAIN queue
               /\ queue' = [j \in 1..(Len(queue) - 1) |-> queue[IF j < i THEN j ELSE j + 1]]
               /\ stage' = [stage EXCEPT ![queue[i]] = "Canceled"]
               /\ UNCHANGED reported

Select == /\ queue # <<>>
          /\ Executing = {}
          /\ queue' = Tail(queue)
          /\ stage' = [stage EXCEPT ![Head(queue)] = "Selected"]
          /\ UNCHANGED reported

Advance(r, from, to) == /\ stage[r] = from
                        /\ stage' = [stage EXCEPT ![r] = to]
                        /\ UNCHANGED <<queue, reported>>

Report(r) == /\ stage[r] = "Running"
             /\ reported' = reported \union {r}
             /\ UNCHANGED <<queue, stage>>

Next == \/ \E r \in Runs : \/ Schedule(r)
                           \/ Advance(r, "Selected", "Running")
                           \/ Advance(r, "Running", "Finished")
                           \/ Advance(r, "Running", "Canceled")
                           \/ Report(r)
        \/ \E i \in 1..Len(queue) : Withdraw(i)
        \/ Select

Spec == Init /\ [][Next]_vars

=============================================================================
