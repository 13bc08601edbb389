--------------------------- MODULE TrackedScenarios ---------------------------
(***************************************************************************)
(* PyTestServer (src/modules/PyTestServer/module.py): the scenarios that   *)
(* it tracks, the event streams of the browsers, and the threads that use  *)
(* both without a lock: one for each HTTP request (ThreadingTCPServer) and *)
(* one for the messages of the test manager.  A step is what no other      *)
(* thread can divide or, where others could, need not see divided.         *)
(*                                                                         *)
(* The test manager gives every enqueued test an id of its own, publishes  *)
(* statuses of it at any time and at most one result, which names the file *)
(* of a capture.  Listing scenarios and the configuration changes nothing  *)
(* and is left out, as are the contents of statuses and events.            *)
(***************************************************************************)
EXTENDS Naturals, FiniteSets

CONSTANTS Runs,         \* instance ids; a bound: an upload that finds none left fails
          NoRun,
          Threads,      \* the threads of HTTP requests that run at a time
          Mqtt,         \* the thread of the messages
          Streams,      \* the event streams that browsers open
          Uploads       \* the uploaded configurations: see generate_constraints

ASSUME NamesAssumption == NoRun \notin Runs /\ Mqtt \notin Threads

ASSUME FiniteAssumption == IsFiniteSet(Runs)

VARIABLES
    enqueued, reported,    \* the instances that the test manager has, and has a result of
    captures,       \* the instances whose capture file exists
    slot,           \* tracked_scenarios: the entry of the dict that holds the instance, or 0
    used,           \* the entries of the dict in use, deleted ones included
    finished,       \* the instances whose TrackedScenario.result is set
    stream,         \* each stream at the browser's end
    event_connections,
    pc,             \* what each thread does next
    job,            \* what each thread works on
    targets,        \* the connections that send_live_event has still to write to
    deleted         \* history: for each instance, the threads that have deleted it

managerVars  == <<enqueued, reported>>
dictVars     == <<slot, used>>
streamVars   == <<stream, event_connections>>

registryVars == <<dictVars, finished, deleted>>
sharedVars   == <<managerVars, captures, registryVars, streamVars>>

vars == <<sharedVars, pc, job, targets>>

Workers  == Threads \union {Mqtt}
Tracked  == {r \in Runs : slot[r] > 0}
Known    == Tracked \union {r \in Runs : deleted[r] # {}}    \* tracked at some time

-----------------------------------------------------------------------------
(***************************************************************************)
(* constraints.py                                                          *)
(***************************************************************************)
Protocols == {"DIN", "ISO"}

DcScenarios == {"CABLE_CHECK_006", "CABLE_CHECK_007", "PRE_CHARGE_006",
                "CURRENT_DEMAND_002", "CURRENT_DEMAND_005", "CURRENT_DEMAND_007"}

get_scenario_constraints(scenario) ==
    [protocols |-> CASE scenario \in {"SERVICE_DETAIL_011", "SERVICE_DETAIL_013"} -> {"ISO"}
                     [] scenario = "AUTHORIZATION_009" -> {"DIN"}
                     [] OTHER -> Protocols,
     modes     |-> IF scenario \in DcScenarios \union {"AUTHORIZATION_009"}
                     THEN {"DC"} ELSE {"AC", "DC"},
     idents    |-> IF scenario = "AUTHORIZATION_009" THEN {"EIM"} ELSE {"EIM", "PNC"}]

get_charge_mode_constraints(mode) == IF mode = "AC" THEN {"ISO"} ELSE Protocols

get_app_protocol_constraints(protocol) == IF protocol = "DIN" THEN {"EIM"} ELSE {"EIM", "PNC"}

\* The tests of a scenario: the combinations that were asked for and that the scenario,
\* the charge mode and the protocol allow.
generate_constraints(upload) ==
    LET allowed == get_scenario_constraints(upload.scenario)
    IN  {c \in [protocol : allowed.protocols \intersect upload.protocols,
                mode     : allowed.modes \intersect upload.modes,
                ident    : allowed.idents \intersect upload.idents] :
            /\ c.protocol \in get_charge_mode_constraints(c.mode)
            /\ c.ident \in get_app_protocol_constraints(c.protocol)}

-----------------------------------------------------------------------------
(***************************************************************************)
(* The dictionary of CPython: entries in the order of insertion, deleted   *)
(* ones left behind until an insertion finds no room and packs the table.  *)
(***************************************************************************)
Rank(r) == Cardinality({q \in Tracked : slot[q] <= slot[r]})

AppendEntry(r) == /\ slot' = [slot EXCEPT ![r] = used + 1]
                  /\ used' = used + 1

\* mutant: the new entry takes the place of the last
Repack_Overwrites(r) == /\ slot' = [q \in Runs |-> IF q = r THEN Cardinality(Tracked)
                                        ELSE IF q \in Tracked THEN Rank(q) ELSE 0]
                        /\ used' = Cardinality(Tracked)

Repack(r) == /\ slot' = [q \in Runs |-> IF q = r THEN Cardinality(Tracked) + 1
                                        ELSE IF q \in Tracked THEN Rank(q) ELSE 0]
             /\ used' = Cardinality(Tracked) + 1

Insert(r) == AppendEntry(r) \/ Repack(r)

Remove(r) == slot' = [slot EXCEPT ![r] = 0] /\ UNCHANGED used

-----------------------------------------------------------------------------
(***************************************************************************)
(* Threads                                                                 *)
(***************************************************************************)
NoJob == [kind |-> "none", run |-> NoRun, left |-> 0, rest |-> {}, goal |-> {}, known |-> {},
          failed |-> {}, at |-> 0, size |-> 0, archive |-> {}]

Goes(w, from, to) == pc[w] = from /\ pc' = [pc EXCEPT ![w] = to]

Begins(t, to, work) == /\ Goes(t, "idle", to)
                       /\ job' = [job EXCEPT ![t] = work]

Init == /\ enqueued = {} /\ reported = {}
        /\ captures = {}
        /\ slot = [r \in Runs |-> 0] /\ used = 0
        /\ finished = {}
        /\ stream = [c \in Streams |-> "none"] /\ event_connections = {}
        /\ pc = [w \in Workers |-> "idle"] /\ job = [w \in Workers |-> NoJob]
        /\ targets = [w \in Workers |-> {}]
        /\ deleted = [r \in Runs |-> {}]

\* The request is answered with OK.
Done(t) == /\ Goes(t, "ok", "idle")
           /\ job' = [job EXCEPT ![t] = NoJob]
           /\ UNCHANGED <<sharedVars, targets>>

\* The request is answered with an error: 500 if the handler raised an exception.
Raise(w) == /\ pc' = [pc EXCEPT ![w] = "idle"]
            /\ job' = [job EXCEPT ![w] = NoJob]

-----------------------------------------------------------------------------
(***************************************************************************)
(* Event streams                                                           *)
(***************************************************************************)
handle_get_status(c) ==
    /\ stream[c] = "none"
    /\ stream' = [stream EXCEPT ![c] = "open"]
    /\ event_connections' = event_connections \union {c}
    /\ UNCHANGED <<managerVars, captures, registryVars, pc, job, targets>>

BrowserLeaves(c) ==
    /\ stream[c] = "open"
    /\ stream' = [stream EXCEPT ![c] = "closed"]
    /\ UNCHANGED <<managerVars, captures, registryVars, event_connections, pc, job, targets>>

\* send_live_event writes to a copy of the list, in any order here.
CopyConnections(w) ==
    /\ Goes(w, "announce", "send")
    /\ targets' = [targets EXCEPT ![w] = event_connections]
    /\ UNCHANGED <<sharedVars, job>>

Write(w, c) ==
    /\ pc[w] = "send" /\ c \in targets[w]
    /\ targets' = [targets EXCEPT ![w] = @ \ {c}]
    /\ UNCHANGED <<sharedVars, pc, job>>

\* OSError.  A write to a browser that has gone may also go unnoticed.
WriteFails(w, c) ==
    /\ Goes(w, "send", "drop")
    /\ c \in targets[w] /\ stream[c] = "closed"
    /\ targets' = [targets EXCEPT ![w] = @ \ {c}]
    /\ job' = [job EXCEPT ![w].failed = {c}]
    /\ UNCHANGED sharedVars

\* list.remove raises ValueError when another thread has removed the connection before.
DropConnection(w) ==
    /\ pc[w] = "drop"
    /\ IF job[w].failed \subseteq event_connections
         THEN /\ pc' = [pc EXCEPT ![w] = "send"]
              /\ job' = [job EXCEPT ![w].failed = {}]
              /\ event_connections' = event_connections \ job[w].failed
              /\ UNCHANGED targets
         ELSE /\ Raise(w)
              /\ targets' = [targets EXCEPT ![w] = {}]
              /\ UNCHANGED event_connections
    /\ UNCHANGED <<managerVars, captures, registryVars, stream>>

\* What the callers of send_live_event do next.
AfterEvent(w) == CASE job[w].kind = "upload" -> "upload"
                   [] job[w].kind = "delete" -> "delete"
                   [] OTHER                  -> "idle"

EventSent(w) ==
    /\ targets[w] = {} /\ Goes(w, "send", AfterEvent(w))
    /\ job' = [job EXCEPT ![w].run = NoRun]
    /\ UNCHANGED <<sharedVars, targets>>

-----------------------------------------------------------------------------
(***************************************************************************)
(* Messages of the test manager                                            *)
(***************************************************************************)
\* A message is handled at any time after it was published: the callbacks look the instance
\* up and drop the message if it is not (yet, any more) tracked.
Receive(r, kind) ==
    /\ pc[Mqtt] = "idle"
    /\ IF r \in Tracked
         THEN /\ pc' = [pc EXCEPT ![Mqtt] = kind]
              /\ job' = [job EXCEPT ![Mqtt].run = r]
         ELSE UNCHANGED <<pc, job>>
    /\ UNCHANGED <<enqueued, registryVars, streamVars, targets>>

ReceiveStatus(r) == /\ r \in enqueued
                    /\ Receive(r, "Status")
                    /\ UNCHANGED <<reported, captures>>

ReceiveResult(r) == /\ r \in enqueued \ reported
                    /\ Receive(r, "Result")
                    /\ reported' = reported \union {r}
                    /\ captures' = captures \union {r}

handle_test_status ==
    /\ Goes(Mqtt, "Status", "announce")
    /\ UNCHANGED <<sharedVars, job, targets>>

handle_test_result ==
    /\ Goes(Mqtt, "Result", "announce")
    /\ finished' = finished \union {job[Mqtt].run}
    /\ UNCHANGED <<managerVars, captures, dictVars, streamVars, job, targets, deleted>>

-----------------------------------------------------------------------------
(***************************************************************************)
(* Uploads                                                                 *)
(***************************************************************************)
BeginUpload(t, upload) ==
    /\ Begins(t, "upload", [NoJob EXCEPT !.kind = "upload",
                                         !.left = Cardinality(generate_constraints(upload))])
    /\ UNCHANGED <<sharedVars, targets>>

UploadDone(t) ==
    /\ job[t].left = 0 /\ Goes(t, "upload", "ok")
    /\ UNCHANGED <<sharedVars, job, targets>>

call_enqueue_test(t) ==
    /\ job[t].left > 0 /\ Goes(t, "upload", "called")
    /\ \E r \in Runs \ enqueued :
          /\ enqueued' = enqueued \union {r}
          /\ job' = [job EXCEPT ![t].run = r, ![t].left = @ - 1, ![t].goal = @ \union {r}]
    /\ UNCHANGED <<reported, captures, registryVars, streamVars, targets>>

\* The call raises before or, with a timeout, after the test is enqueued, which is then
\* never tracked.
CallFails(t) ==
    /\ pc[t] = "called" \/ (pc[t] = "upload" /\ job[t].left > 0 /\ enqueued = Runs)
    /\ Raise(t)
    /\ UNCHANGED <<sharedVars, targets>>

Track(t) ==
    /\ Goes(t, "called", "announce")
    /\ Insert(job[t].run)
    /\ UNCHANGED <<managerVars, captures, finished, streamVars, job, targets, deleted>>

-----------------------------------------------------------------------------
(***************************************************************************)
(* Deletions and downloads                                                 *)
(***************************************************************************)
\* Of one instance: three look-ups, and the check of the result, one after the other.
BeginOne(t, kind, r) ==
    /\ r \in Tracked
    /\ Begins(t, "check", [NoJob EXCEPT !.kind = kind, !.goal = {r}])
    /\ UNCHANGED <<sharedVars, targets>>

CheckResult(t) ==
    /\ pc[t] = "check"
    /\ IF job[t].goal \subseteq Tracked \intersect finished
         THEN pc' = [pc EXCEPT ![t] = "fetch"] /\ UNCHANGED job
         ELSE Raise(t)
    /\ UNCHANGED <<sharedVars, targets>>

Fetch(t) ==
    /\ pc[t] = "fetch"
    /\ IF job[t].goal \subseteq Tracked
         THEN /\ pc' = [pc EXCEPT ![t] = job[t].kind]
              /\ job' = [job EXCEPT ![t].rest = job[t].goal]
         ELSE Raise(t)
    /\ UNCHANGED <<sharedVars, targets>>

\* Of all instances: list(self.tracked_scenarios.values()), taken in any order here.
BeginDeleteAll(t) ==
    /\ Begins(t, "delete", [NoJob EXCEPT !.kind = "delete", !.rest = Tracked,
                                         !.goal = Tracked \intersect finished])
    /\ UNCHANGED <<sharedVars, targets>>

\* mutant: a scenario without a result ends the loop
NextDeletion_Breaks(t) ==
    /\ pc[t] = "delete"
    /\ \E r \in job[t].rest :
          \/ /\ r \in finished
             /\ pc' = [pc EXCEPT ![t] = "erase"]
             /\ job' = [job EXCEPT ![t].run = r, ![t].rest = @ \ {r}]
          \/ /\ r \notin finished
             /\ job' = [job EXCEPT ![t].rest = {}]
             /\ UNCHANGED pc
    /\ UNCHANGED <<sharedVars, targets>>

NextDeletion(t) ==
    /\ pc[t] = "delete"
    /\ \E r \in job[t].rest :
          \/ /\ r \in finished
             /\ pc' = [pc EXCEPT ![t] = "erase"]
             /\ job' = [job EXCEPT ![t].run = r, ![t].rest = @ \ {r}]
          \/ /\ r \notin finished
             /\ job' = [job EXCEPT ![t].rest = @ \ {r}]
             /\ UNCHANGED pc
    /\ UNCHANGED <<sharedVars, targets>>

DeletionDone(t) ==
    /\ job[t].rest = {} /\ Goes(t, "delete", "ok")
    /\ UNCHANGED <<sharedVars, job, targets>>

\* mutant: the scenario itself stays
EraseCapture_Forgets(t) ==
    /\ Goes(t, "erase", "announce")
    /\ captures' \in {captures, captures \ {job[t].run}}
    /\ UNCHANGED <<managerVars, registryVars, streamVars, job, targets>>

\* An OSError of os.remove is caught: the file then stays.
EraseCapture(t) ==
    /\ Goes(t, "erase", "untrack")
    /\ captures' \in {captures, captures \ {job[t].run}}
    /\ UNCHANGED <<managerVars, registryVars, streamVars, job, targets>>

\* mutant: pop with a default, which does not raise
Untrack_Pop(t) ==
    /\ Goes(t, "untrack", "announce")
    /\ Remove(job[t].run)
    /\ deleted' = [deleted EXCEPT ![job[t].run] = @ \union {t}]
    /\ UNCHANGED <<managerVars, captures, finished, streamVars, job, targets>>

\* del raises KeyError when another thread has deleted the instance before.
Untrack(t) ==
    /\ pc[t] = "untrack"
    /\ IF job[t].run \in Tracked
         THEN /\ pc' = [pc EXCEPT ![t] = "announce"]
              /\ Remove(job[t].run)
              /\ deleted' = [deleted EXCEPT ![job[t].run] = @ \union {t}]
              /\ UNCHANGED job
         ELSE Raise(t) /\ UNCHANGED <<dictVars, deleted>>
    /\ UNCHANGED <<managerVars, captures, finished, streamVars, targets>>

\* zipf.write raises when the capture has been erased.
PackOne(t) ==
    /\ pc[t] = "download"
    /\ IF job[t].goal \subseteq captures
         THEN /\ pc' = [pc EXCEPT ![t] = "ok"]
              /\ job' = [job EXCEPT ![t].archive = job[t].goal]
         ELSE Raise(t)
    /\ UNCHANGED <<sharedVars, targets>>

BeginDownloadAll(t) ==
    /\ Begins(t, "iterate", [NoJob EXCEPT !.kind = "download", !.goal = Tracked \intersect finished,
                                          !.known = Known, !.size = Cardinality(Tracked)])
    /\ UNCHANGED <<sharedVars, targets>>

\* The entries that the iteration has not reached yet.
Ahead(t) == {r \in Tracked : slot[r] > job[t].at}

\* RuntimeError: the dictionary's size has changed.
SizeChanged(t) ==
    /\ Cardinality(Tracked) # job[t].size
    /\ pc[t] = "iterate" /\ Raise(t)
    /\ UNCHANGED <<sharedVars, targets>>

\* A scenario without a result is passed over.
Pack(t) ==
    /\ Cardinality(Tracked) = job[t].size
    /\ pc[t] = "iterate"
    /\ \E r \in Ahead(t) :
          /\ \A q \in Ahead(t) : slot[r] <= slot[q]
          /\ IF r \in finished \ captures
               THEN Raise(t)
               ELSE /\ job' = [job EXCEPT ![t].at = slot[r],
                                          ![t].archive = @ \union ({r} \intersect finished)]
                    /\ UNCHANGED pc
    /\ UNCHANGED <<sharedVars, targets>>

DownloadDone(t) ==
    /\ Cardinality(Tracked) = job[t].size /\ Ahead(t) = {}
    /\ Goes(t, "iterate", "ok")
    /\ UNCHANGED <<sharedVars, job, targets>>

-----------------------------------------------------------------------------
Upload(t) == \/ \E upload \in Uploads : BeginUpload(t, upload)
             \/ call_enqueue_test(t) \/ CallFails(t) \/ Track(t)
             \/ UploadDone(t)

Delete(t) == \/ \E r \in Runs : BeginOne(t, "delete", r)
             \/ BeginDeleteAll(t) \/ NextDeletion(t) \/ EraseCapture(t) \/ Untrack(t)
             \/ DeletionDone(t)

Download(t) == \/ \E r \in Runs : BeginOne(t, "download", r)
               \/ PackOne(t)
               \/ BeginDownloadAll(t) \/ SizeChanged(t) \/ Pack(t) \/ DownloadDone(t)

Request(t) == Upload(t) \/ Delete(t) \/ Download(t) \/ CheckResult(t) \/ Fetch(t) \/ Done(t)

SendEvent(w) == \/ CopyConnections(w) \/ DropConnection(w) \/ EventSent(w)
                \/ \E c \in Streams : Write(w, c) \/ WriteFails(w, c)

Next == \/ \E t \in Threads : Request(t)
        \/ \E w \in Workers : SendEvent(w)
        \/ \E r \in Runs : ReceiveStatus(r) \/ ReceiveResult(r)
        \/ handle_test_status \/ handle_test_result
        \/ \E c \in Streams : handle_get_status(c) \/ BrowserLeaves(c)

Spec == Init /\ [][Next]_vars

-----------------------------------------------------------------------------
(***************************************************************************)
(* Properties                                                              *)
(***************************************************************************)
Steps == {"idle", "upload", "called", "check", "fetch", "delete", "erase", "untrack",
          "download", "iterate", "announce", "send", "drop", "Status", "Result", "ok"}

Jobs == [kind : {"none", "upload", "delete", "download"}, run : Runs \union {NoRun}, left : Nat,
         rest : SUBSET Runs, goal : SUBSET Runs, known : SUBSET Runs, failed : SUBSET Streams,
         at : Nat, size : Nat, archive : SUBSET Runs]

\* No two instances share an entry of the dictionary, which has room for all.
TypeOK ==
    /\ enqueued \subseteq Runs /\ reported \subseteq enqueued
    /\ captures \subseteq Runs
    /\ slot \in [Runs -> Nat] /\ used \in Nat
    /\ \A q, r \in Tracked : slot[r] <= used /\ (slot[q] = slot[r] => q = r)
    /\ finished \subseteq Runs
    /\ stream \in [Streams -> {"none", "open", "closed"}]
    /\ event_connections \subseteq Streams
    /\ pc \in [Workers -> Steps] /\ job \in [Workers -> Jobs]
    /\ targets \in [Workers -> SUBSET Streams]
    /\ deleted \in [Runs -> SUBSET Threads]

\* Whoever deletes what at the same time, and whatever raises in between: the capture of a
\* tracked result is there, unless a thread is about to delete the scenario, too.
CaptureKept ==
    \A r \in Tracked \intersect finished :
        r \in captures \/ \E t \in Threads : pc[t] = "untrack" /\ job[t].run = r

\* Two deletions of one scenario may both find it, erase its file and go on: only one of
\* them deletes it, and no upload or late message brings it back.
DeletedOnce ==
    \A r \in Runs : deleted[r] # {} => r \notin Tracked /\ Cardinality(deleted[r]) = 1

\* A request that is answered with OK has done all of what it was asked for when it began,
\* whatever the other threads did to the dictionary meanwhile: each of the tests of an
\* upload was tracked; what a deletion found is gone; an archive has every result that is
\* still tracked, unless an upload has tracked another scenario since.
OkMeansDone ==
    \A t \in Threads : pc[t] = "ok" =>
        CASE job[t].kind = "upload"   -> job[t].goal \subseteq Known
          [] job[t].kind = "delete"   -> job[t].goal \intersect Tracked = {}
          [] job[t].kind = "download" -> \/ job[t].goal \intersect Tracked \subseteq job[t].archive
                                         \/ Known # job[t].known
=============================================================================
