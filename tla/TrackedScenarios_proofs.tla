----------------------- MODULE TrackedScenarios_proofs -----------------------
(***************************************************************************)
(* Proofs about TrackedScenarios, for any number of tests, of requests at  *)
(* a time and of event streams, and any uploads.                           *)
(***************************************************************************)
EXTENDS TrackedScenarios, TLAPS, FiniteSetTheorems

(***************************************************************************)
(* The dictionary                                                          *)
(***************************************************************************)
Typed == slot \in [Runs -> Nat] /\ used \in Nat

\* Each tracked instance has an entry of its own, among those in use.
Entries == \A q, r \in Tracked : slot[r] <= used /\ (slot[q] = slot[r] => q = r)

LEMMA RunsFinite ==
  ASSUME NEW S \in SUBSET Runs
  PROVE  IsFiniteSet(S) /\ Cardinality(S) \in Nat
  BY FiniteAssumption, FS_Subset, FS_CardinalityType

\* Ranks number the tracked instances.
LEMMA RankProperties ==
  ASSUME Typed, Entries
  PROVE  /\ \A r \in Tracked : Rank(r) \in Nat /\ 0 < Rank(r) /\ Rank(r) <= Cardinality(Tracked)
         /\ \A q, r \in Tracked : Rank(q) = Rank(r) => q = r
  <1> DEFINE UpTo(r) == {q \in Tracked : slot[q] <= slot[r]}
  <1>1. Tracked \in SUBSET Runs
    BY DEF Tracked
  <1>2. \A r : UpTo(r) \in SUBSET Tracked
    OBVIOUS
  <1>3. \A r \in Tracked : r \in UpTo(r)
    BY <1>1 DEF Typed
  <1>4. ASSUME NEW r \in Tracked PROVE Rank(r) \in Nat /\ 0 < Rank(r) /\ Rank(r) <= Cardinality(Tracked)
    <2>1. IsFiniteSet(Tracked) /\ Cardinality(Tracked) \in Nat
      BY <1>1, RunsFinite
    <2>2. IsFiniteSet(UpTo(r)) /\ Cardinality(UpTo(r)) <= Cardinality(Tracked)
      BY <1>2, <2>1, FS_Subset
    <2>3. Cardinality(UpTo(r)) \in Nat /\ Cardinality(UpTo(r)) # 0
      BY <1>3, <2>2, FS_CardinalityType, FS_EmptySet
    <2>4. QED
      BY <2>2, <2>3 DEF Rank
  <1>5. ASSUME NEW q \in Tracked, NEW r \in Tracked, slot[q] < slot[r] PROVE Rank(q) # Rank(r)
    <2>1. UpTo(q) \in SUBSET UpTo(r) /\ r \notin UpTo(q) /\ r \in UpTo(r)
      BY <1>1, <1>5 DEF Typed
    <2>2. IsFiniteSet(UpTo(r))
      BY <1>1, RunsFinite
    <2>3. Cardinality(UpTo(q)) # Cardinality(UpTo(r))
      BY <2>1, <2>2, FS_Subset
    <2>4. QED
      BY <2>3 DEF Rank
  <1>6. ASSUME NEW q \in Tracked, NEW r \in Tracked, Rank(q) = Rank(r) PROVE q = r
    <2>1. slot[q] \in Nat /\ slot[r] \in Nat
      BY <1>1 DEF Typed
    <2>2. slot[q] = slot[r]
      BY <1>5, <1>6, <2>1
    <2>3. QED
      BY <2>2 DEF Entries
  <1>7. QED
    BY <1>4, <1>6

\* An insertion keeps the other instances, whether or not it packs the table.
LEMMA Inserts ==
  ASSUME Typed, Entries, NEW r \in Runs, Insert(r)
  PROVE  Typed' /\ Entries' /\ Tracked' = Tracked \union {r}
  <1>1. Tracked \in SUBSET Runs
    BY DEF Tracked
  <1>2. CASE AppendEntry(r)
    BY <1>2 DEF AppendEntry, Typed, Entries, Tracked
  <1>3. CASE Repack(r)
    <2>1. Cardinality(Tracked) \in Nat
      BY <1>1, RunsFinite
    <2>2. \A q \in Tracked : Rank(q) \in Nat /\ 0 < Rank(q) /\ Rank(q) <= Cardinality(Tracked)
      BY RankProperties
    <2>3. /\ \A q \in Runs : slot'[q] = IF q = r THEN Cardinality(Tracked) + 1
                                        ELSE IF q \in Tracked THEN Rank(q) ELSE 0
          /\ used' = Cardinality(Tracked) + 1
      BY <1>3 DEF Repack
    <2>4. \E f : slot' = [q \in Runs |-> f[q]]
      <3>1. slot' = [q \in Runs |-> slot'[q]]
        BY <1>3 DEF Repack
      <3>2. QED
        BY <3>1
    <2>5. Typed'
      BY <2>1, <2>2, <2>3, <2>4 DEF Typed
    <2>6. Tracked' = Tracked \union {r}
      BY <1>1, <2>1, <2>2, <2>3 DEF Tracked
    <2>7. \A q \in Tracked' : slot'[q] <= used'
      BY <1>1, <2>1, <2>2, <2>3, <2>6
    <2>8. \A p, q \in Tracked' : slot'[p] = slot'[q] => p = q
      BY <1>1, <2>1, <2>2, <2>3, <2>6, RankProperties
    <2>9. QED
      BY <2>5, <2>6, <2>7, <2>8 DEF Entries
  <1>4. QED
    BY <1>2, <1>3 DEF Insert

LEMMA Removes ==
  ASSUME Typed, Entries, NEW r \in Runs, Remove(r)
  PROVE  Typed' /\ Entries' /\ Tracked' = Tracked \ {r}
  BY DEF Remove, Typed, Entries, Tracked

(***************************************************************************)
(* An upload has finitely many tests.                                      *)
(***************************************************************************)
Combinations ==
  LET c(p, m, i) == [protocol |-> p, mode |-> m, ident |-> i]
  IN  {c("DIN", "AC", "EIM"), c("DIN", "AC", "PNC"), c("DIN", "DC", "EIM"), c("DIN", "DC", "PNC"),
       c("ISO", "AC", "EIM"), c("ISO", "AC", "PNC"), c("ISO", "DC", "EIM"), c("ISO", "DC", "PNC")}

LEMMA TestsCounted ==
  ASSUME NEW upload
  PROVE  Cardinality(generate_constraints(upload)) \in Nat
  <1>1. ASSUME NEW a, NEW b, NEW c, NEW d PROVE IsFiniteSet({a, b, c, d})
    <2>1. IsFiniteSet(({a} \union {b}) \union {c})
      BY FS_Singleton, FS_AddElement
    <2>2. IsFiniteSet((({a} \union {b}) \union {c}) \union {d})
      BY <2>1, FS_AddElement
    <2>3. {a, b, c, d} = (({a} \union {b}) \union {c}) \union {d}
      OBVIOUS
    <2>4. QED
      BY <2>2, <2>3
  <1>2. ASSUME NEW a, NEW b, NEW c, NEW d, NEW e, NEW f, NEW g, NEW h
        PROVE  IsFiniteSet({a, b, c, d, e, f, g, h})
    <2>1. IsFiniteSet({a, b, c, d}) /\ IsFiniteSet({e, f, g, h})
      BY <1>1
    <2>2. IsFiniteSet({a, b, c, d} \union {e, f, g, h})
      BY <2>1, FS_Union
    <2>3. {a, b, c, d, e, f, g, h} = {a, b, c, d} \union {e, f, g, h}
      OBVIOUS
    <2>4. QED
      BY <2>2, <2>3
  <1>3. IsFiniteSet(Combinations)
    BY <1>2, Zenon DEF Combinations
  <1>4. generate_constraints(upload) \in SUBSET [protocol : {"DIN", "ISO"}, mode : {"AC", "DC"}, ident : {"EIM", "PNC"}]
    BY DEF generate_constraints, get_scenario_constraints, Protocols
  <1>5. [protocol : {"DIN", "ISO"}, mode : {"AC", "DC"}, ident : {"EIM", "PNC"}] \subseteq Combinations
    BY DEF Combinations
  <1>6. QED
    BY <1>3, <1>4, <1>5, FS_Subset, FS_CardinalityType

(***************************************************************************)
(* Types                                                                   *)
(***************************************************************************)
\* What the places of the threads say about their work.
Kinds == /\ \A t \in Threads : /\ pc[t] \in {"check", "fetch"} => job[t].kind \in {"delete", "download"}
                               /\ pc[t] \in {"called", "erase", "untrack"} => job[t].run \in Runs
         /\ pc[Mqtt] \in {"Status", "Result"} => job[Mqtt].run \in Runs

Local == /\ pc \in [Workers -> Steps] /\ job \in [Workers -> Jobs]
         /\ targets \in [Workers -> SUBSET Streams]

LEMMA LocalType == TypeOK => Local /\ Typed /\ Entries
  BY DEF TypeOK, Local, Typed, Entries

LEMMA NoJobType == NoJob \in Jobs
  BY DEF NoJob, Jobs

\* A step of w changes the place and the work of no other thread.
Moves(w) == /\ Local'
            /\ \A v \in Workers \ {w} : pc'[v] = pc[v] /\ job'[v] = job[v]

LEMMA MovesTo ==
  ASSUME Local, NEW w \in Workers, NEW to \in Steps, NEW work \in Jobs,
         pc' = [pc EXCEPT ![w] = to], job' = [job EXCEPT ![w] = work],
         targets' \in [Workers -> SUBSET Streams]
  PROVE  Moves(w) /\ pc'[w] = to /\ job'[w] = work
  BY DEF Local, Moves

LEMMA RequestMoves ==
  ASSUME TypeOK, Kinds, NEW t \in Threads, Request(t)
  PROVE  Moves(t) /\ (pc'[t] \in {"check", "fetch"} => job'[t].kind \in {"delete", "download"})
                  /\ (pc'[t] \in {"called", "erase", "untrack"} => job'[t].run \in Runs)
  <1> DEFINE Good == Moves(t) /\ (pc'[t] \in {"check", "fetch"} => job'[t].kind \in {"delete", "download"})
                  /\ (pc'[t] \in {"called", "erase", "untrack"} => job'[t].run \in Runs)
  <1>0. Local /\ t \in Workers /\ pc[t] \in Steps /\ job[t] \in Jobs
    BY LocalType DEF Local, Workers
  <1>1. CASE \E upload \in Uploads : BeginUpload(t, upload)
    <2>1. PICK upload \in Uploads : BeginUpload(t, upload)
      BY <1>1
    <2>2. [NoJob EXCEPT !.kind = "upload", !.left = Cardinality(generate_constraints(upload))] \in Jobs
      BY TestsCounted DEF NoJob, Jobs
    <2>3. QED
      BY <1>0, <2>1, <2>2, MovesTo DEF BeginUpload, Begins, Goes, Local, Moves, Steps
  <1>2. CASE call_enqueue_test(t)
    <2>1. PICK r \in Runs : job' = [job EXCEPT ![t].run = r, ![t].left = @ - 1, ![t].goal = @ \union {r}]
      BY <1>2 DEF call_enqueue_test
    <2>2. [job[t] EXCEPT !.run = r, !.left = @ - 1, !.goal = @ \union {r}] \in Jobs
      <3>1. job[t].left \in Nat /\ job[t].left > 0
        BY <1>0, <1>2 DEF Jobs, call_enqueue_test
      <3>2. job[t].left - 1 \in Nat
        BY <3>1
      <3>3. QED
        BY <1>0, <3>2 DEF Jobs
    <2>3. QED
      BY <1>0, <1>2, <2>1, <2>2 DEF call_enqueue_test, Goes, Local, Moves, Steps, Jobs
  <1>3. CASE CallFails(t)
    BY <1>0, <1>3, NoJobType DEF CallFails, Raise, Local, Moves, Steps
  <1>4. CASE Track(t)
    BY <1>0, <1>4 DEF Track, Goes, Local, Moves, Steps
  <1>5. CASE UploadDone(t) \/ DeletionDone(t) \/ DownloadDone(t)
    BY <1>0, <1>5 DEF UploadDone, DeletionDone, DownloadDone, Goes, Local, Moves, Steps
  <1>6. ASSUME NEW r \in Runs, NEW kind \in {"delete", "download"}, BeginOne(t, kind, r)
        PROVE  Good
    <2>1. [NoJob EXCEPT !.kind = kind, !.goal = {r}] \in Jobs
      BY DEF NoJob, Jobs
    <2>2. QED
      BY <1>0, <1>6, <2>1 DEF BeginOne, Begins, Goes, Local, Moves, Steps, NoJob
  <1>7. CASE BeginDeleteAll(t)
    <2>1. [NoJob EXCEPT !.kind = "delete", !.rest = Tracked, !.goal = Tracked \intersect finished] \in Jobs
      BY DEF NoJob, Jobs, Tracked
    <2>2. QED
      BY <1>0, <1>7, <2>1 DEF BeginDeleteAll, Begins, Goes, Local, Moves, Steps
  <1>8. CASE NextDeletion(t)
    <2>1. PICK r \in job[t].rest :
              \/ /\ pc' = [pc EXCEPT ![t] = "erase"]
                 /\ job' = [job EXCEPT ![t].run = r, ![t].rest = @ \ {r}]
              \/ job' = [job EXCEPT ![t].rest = @ \ {r}] /\ UNCHANGED pc
      BY <1>8 DEF NextDeletion
    <2>2. /\ r \in Runs /\ pc[t] = "delete" /\ UNCHANGED targets
          /\ [job[t] EXCEPT !.run = r, !.rest = @ \ {r}] \in Jobs
          /\ [job[t] EXCEPT !.rest = @ \ {r}] \in Jobs
      BY <1>0, <1>8, <2>1 DEF Jobs, NextDeletion
    <2>3. QED
      BY <1>0, <2>1, <2>2 DEF Local, Moves, Steps, Jobs
  <1>9. CASE EraseCapture(t)
    BY <1>0, <1>9 DEF EraseCapture, Goes, Local, Moves, Steps, Kinds
  <1>10. CASE Untrack(t)
    BY <1>0, <1>10, NoJobType DEF Untrack, Raise, Local, Moves, Steps
  <1>11. CASE PackOne(t)
    <2>1. [job[t] EXCEPT !.archive = job[t].goal] \in Jobs
      BY <1>0 DEF Jobs
    <2>2. QED
      BY <1>0, <1>11, <2>1, NoJobType DEF PackOne, Raise, Local, Moves, Steps
  <1>12. CASE BeginDownloadAll(t)
    <2>1. [NoJob EXCEPT !.kind = "download", !.goal = Tracked \intersect finished,
                        !.known = Known, !.size = Cardinality(Tracked)] \in Jobs
      BY RunsFinite DEF NoJob, Jobs, Tracked, Known
    <2>2. QED
      BY <1>0, <1>12, <2>1 DEF BeginDownloadAll, Begins, Goes, Local, Moves, Steps
  <1>13. CASE SizeChanged(t)
    BY <1>0, <1>13, NoJobType DEF SizeChanged, Raise, Local, Moves, Steps
  <1>14. CASE Pack(t)
    <2>1. PICK r \in Ahead(t) :
              \/ Raise(t)
              \/ /\ job' = [job EXCEPT ![t].at = slot[r], ![t].archive = @ \union ({r} \intersect finished)]
                 /\ UNCHANGED pc
      BY <1>14 DEF Pack
    <2>2. r \in Runs /\ slot[r] \in Nat
      BY <2>1 DEF Ahead, Tracked, TypeOK
    <2>3. [job[t] EXCEPT !.at = slot[r], !.archive = @ \union ({r} \intersect finished)] \in Jobs
      BY <1>0, <2>2 DEF Jobs
    <2>4. QED
      BY <1>0, <1>14, <2>1, <2>3, NoJobType DEF Pack, Raise, Local, Moves, Steps
  <1>15. CASE CheckResult(t)
    BY <1>0, <1>15, NoJobType DEF CheckResult, Raise, Local, Moves, Steps, Kinds
  <1>16. CASE Fetch(t)
    <2>1. [job[t] EXCEPT !.rest = job[t].goal] \in Jobs
      BY <1>0 DEF Jobs
    <2>2. QED
      BY <1>0, <1>16, <2>1, NoJobType DEF Fetch, Raise, Local, Moves, Steps, Kinds
  <1>17. CASE Done(t)
    BY <1>0, <1>17, NoJobType DEF Done, Goes, Local, Moves, Steps
  <1>18. QED
    BY <1>1, <1>2, <1>3, <1>4, <1>5, <1>6, <1>7, <1>8, <1>9, <1>10, <1>11, <1>12, <1>13, <1>14,
       <1>15, <1>16, <1>17 DEF Request, Upload, Delete, Download

LEMMA EventMoves ==
  ASSUME TypeOK, Kinds, NEW w \in Workers, SendEvent(w)
  PROVE  /\ Moves(w) /\ UNCHANGED <<managerVars, captures, registryVars, stream>>
         /\ event_connections' \subseteq Streams
         /\ pc[w] \in {"announce", "send", "drop"}
         /\ pc'[w] \in {"send", "drop", "upload", "delete", "idle"}
  <1>0. Local /\ pc[w] \in Steps /\ job[w] \in Jobs
    BY LocalType DEF Local
  <1>1. CASE CopyConnections(w)
    BY <1>0, <1>1 DEF CopyConnections, Goes, Local, Moves, Steps, TypeOK, sharedVars, streamVars
  <1>2. CASE DropConnection(w)
    <2>1. [job[w] EXCEPT !.failed = {}] \in Jobs
      BY <1>0 DEF Jobs
    <2>2. QED
      BY <1>0, <1>2, <2>1, NoJobType DEF DropConnection, Raise, Local, Moves, Steps, TypeOK
  <1>3. CASE EventSent(w)
    <2>1. [job[w] EXCEPT !.run = NoRun] \in Jobs
      BY <1>0 DEF Jobs
    <2>2. QED
      BY <1>0, <1>3, <2>1 DEF EventSent, AfterEvent, Goes, Local, Moves, Steps, TypeOK, sharedVars, streamVars
  <1>4. ASSUME NEW c \in Streams, Write(w, c)
        PROVE  Moves(w) /\ pc'[w] = "send" /\ pc[w] = "send" /\ UNCHANGED sharedVars
    BY <1>0, <1>4 DEF Write, Local, Moves, Steps
  <1>5. ASSUME NEW c \in Streams, WriteFails(w, c)
        PROVE  Moves(w) /\ pc'[w] = "drop" /\ pc[w] = "send" /\ UNCHANGED sharedVars
    <2>1. [job[w] EXCEPT !.failed = {c}] \in Jobs
      BY <1>0 DEF Jobs
    <2>2. QED
      BY <1>0, <1>5, <2>1 DEF WriteFails, Goes, Local, Moves, Steps
  <1>6. QED
    BY <1>1, <1>2, <1>3, <1>4, <1>5 DEF SendEvent, sharedVars, streamVars, TypeOK

\* What becomes of the messages.
Messages == \/ \E r \in Runs : ReceiveStatus(r) \/ ReceiveResult(r)
            \/ handle_test_status \/ handle_test_result

LEMMA MessageMoves ==
  ASSUME TypeOK, Kinds, Messages
  PROVE  /\ Moves(Mqtt) /\ UNCHANGED <<enqueued, dictVars, deleted, streamVars, targets>>
         /\ reported' \subseteq enqueued /\ captures' \subseteq Runs /\ finished' \subseteq Runs
         /\ pc'[Mqtt] \in {"Status", "Result"} => job'[Mqtt].run \in Runs
  <1>0. Local /\ Mqtt \in Workers /\ pc[Mqtt] \in Steps /\ job[Mqtt] \in Jobs
    BY LocalType DEF Local, Workers
  <1>1. ASSUME NEW r \in Runs, NEW kind \in {"Status", "Result"}, Receive(r, kind)
        PROVE  /\ Moves(Mqtt)
               /\ pc'[Mqtt] \in {"Status", "Result"} => job'[Mqtt].run \in Runs
    <2>1. [job[Mqtt] EXCEPT !.run = r] \in Jobs
      BY <1>0 DEF Jobs
    <2>2. QED
      BY <1>0, <1>1, <2>1 DEF Receive, Local, Moves, Steps, Jobs
  <1>2. ASSUME NEW r \in Runs, ReceiveStatus(r) \/ ReceiveResult(r)
        PROVE  Receive(r, "Status") \/ Receive(r, "Result")
    BY <1>2 DEF ReceiveStatus, ReceiveResult
  <1>3. CASE \E r \in Runs : ReceiveStatus(r)
    <2>1. PICK r \in Runs : Receive(r, "Status") /\ UNCHANGED <<reported, captures>>
      BY <1>3 DEF ReceiveStatus
    <2>2. UNCHANGED <<enqueued, dictVars, finished, deleted, streamVars, targets>>
      BY <2>1 DEF Receive, registryVars
    <2>3. QED
      BY <1>1, <2>1, <2>2 DEF TypeOK
  <1>4. CASE \E r \in Runs : ReceiveResult(r)
    <2>1. PICK r \in enqueued : /\ Receive(r, "Result")
                               /\ reported' = reported \union {r} /\ captures' = captures \union {r}
      BY <1>4 DEF ReceiveResult
    <2>2. r \in Runs /\ UNCHANGED <<enqueued, dictVars, finished, deleted, streamVars, targets>>
      BY <2>1 DEF Receive, registryVars, TypeOK
    <2>3. QED
      BY <1>1, <2>1, <2>2 DEF TypeOK
  <1>5. CASE handle_test_status
    BY <1>0, <1>5 DEF handle_test_status, Goes, Local, Moves, Steps, TypeOK, sharedVars, managerVars,
       registryVars
  <1>6. CASE handle_test_result
    BY <1>0, <1>6 DEF handle_test_result, Goes, Local, Moves, Steps, TypeOK, Kinds, managerVars
  <1>7. QED
    BY <1>3, <1>4, <1>5, <1>6 DEF Messages

Streaming == \E c \in Streams : handle_get_status(c) \/ BrowserLeaves(c)

LEMMA StreamMoves ==
  ASSUME TypeOK, Streaming
  PROVE  /\ UNCHANGED <<managerVars, captures, registryVars, pc, job, targets>>
         /\ stream' \in [Streams -> {"none", "open", "closed"}] /\ event_connections' \subseteq Streams
  BY DEF Streaming, handle_get_status, BrowserLeaves, TypeOK

\* The steps of requests that others see.
Shows(t) == call_enqueue_test(t) \/ Track(t) \/ EraseCapture(t) \/ Untrack(t)

LEMMA RequestIsQuiet ==
  ASSUME NEW t \in Threads, Request(t)
  PROVE  UNCHANGED targets /\ (UNCHANGED sharedVars \/ Shows(t))
  BY DEF Request, Upload, Delete, Download, Shows, BeginUpload, CallFails, UploadDone, BeginOne,
     CheckResult, Fetch, BeginDeleteAll, NextDeletion, DeletionDone, PackOne, BeginDownloadAll,
     SizeChanged, Pack, DownloadDone, Done, call_enqueue_test, Track, EraseCapture, Untrack

LEMMA NextSteps ==
  ASSUME Next
  PROVE  \/ \E t \in Threads : Request(t)
         \/ \E w \in Workers : SendEvent(w)
         \/ Messages \/ Streaming
  BY DEF Next, Messages, Streaming

TypeInv == TypeOK /\ Kinds

LEMMA TypeInit == Init => TypeInv
  <1> SUFFICES ASSUME Init PROVE TypeInv
    OBVIOUS
  <1>1. Typed /\ Tracked = {}
    BY DEF Init, Typed, Tracked
  <1>2. Local /\ \A w \in Workers : pc[w] = "idle"
    BY NoJobType DEF Init, Local, Steps
  <1>3. TypeOK
    BY <1>1, <1>2 DEF Init, TypeOK, Local, Typed
  <1>4. Kinds
    BY <1>2 DEF Kinds, Workers
  <1>5. QED
    BY <1>3, <1>4 DEF TypeInv

LEMMA TypeNext == TypeInv /\ [Next]_vars => TypeInv'
  <1> SUFFICES ASSUME TypeInv, [Next]_vars PROVE TypeInv'
    OBVIOUS
  <1>0. TypeOK /\ Kinds /\ Local /\ Typed /\ Entries
    BY LocalType DEF TypeInv
  <1>1. ASSUME NEW t \in Threads, Request(t) PROVE TypeInv'
    <2>1. /\ Moves(t) /\ (pc'[t] \in {"check", "fetch"} => job'[t].kind \in {"delete", "download"})
          /\ (pc'[t] \in {"called", "erase", "untrack"} => job'[t].run \in Runs)
      BY <1>0, <1>1, RequestMoves
    <2>2. Kinds'
      BY <1>0, <2>1, NamesAssumption DEF Kinds, Moves, Workers
    <2>3. CASE UNCHANGED sharedVars
      BY <1>0, <2>1, <2>2, <2>3 DEF TypeInv, TypeOK, Moves, Local, Tracked, sharedVars, managerVars,
         registryVars, dictVars, streamVars
    <2>4. CASE call_enqueue_test(t)
      BY <1>0, <2>1, <2>2, <2>4 DEF TypeInv, TypeOK, Moves, Local, Tracked, call_enqueue_test,
         registryVars, dictVars, streamVars
    <2>5. CASE Track(t)
      <3>1. Typed' /\ Entries'
        BY <1>0, <2>5, Inserts DEF Track, Kinds, Goes
      <3>2. QED
        BY <1>0, <2>1, <2>2, <2>5, <3>1 DEF TypeInv, TypeOK, Moves, Local, Typed, Entries, Track,
           managerVars, streamVars
    <2>6. CASE EraseCapture(t)
      BY <1>0, <2>1, <2>2, <2>6 DEF TypeInv, TypeOK, Moves, Local, Tracked, EraseCapture,
         managerVars, registryVars, dictVars, streamVars
    <2>7. CASE Untrack(t)
      <3>1. Typed' /\ Entries'
        <4>1. CASE UNCHANGED dictVars
          BY <1>0, <4>1 DEF Typed, Entries, Tracked, dictVars
        <4>2. CASE Remove(job[t].run)
          BY <1>0, <2>7, <4>2, Removes DEF Untrack, Kinds
        <4>3. QED
          BY <2>7, <4>1, <4>2 DEF Untrack
      <3>2. deleted' \in [Runs -> SUBSET Threads]
        BY <1>0, <2>7 DEF Untrack, TypeOK
      <3>3. QED
        BY <1>0, <2>1, <2>2, <2>7, <3>1, <3>2 DEF TypeInv, TypeOK, Moves, Local, Typed, Entries, Untrack,
           managerVars, streamVars
    <2>8. QED
      BY <1>1, <2>3, <2>4, <2>5, <2>6, <2>7, RequestIsQuiet DEF Shows
  <1>2. ASSUME NEW w \in Workers, SendEvent(w) PROVE TypeInv'
    <2>1. /\ Moves(w) /\ UNCHANGED <<managerVars, captures, registryVars, stream>>
          /\ event_connections' \subseteq Streams
          /\ pc'[w] \in {"send", "drop", "upload", "delete", "idle"}
      BY <1>0, <1>2, EventMoves
    <2>2. Kinds'
      BY <1>0, <2>1 DEF Kinds, Moves, Workers
    <2>3. QED
      BY <1>0, <2>1, <2>2 DEF TypeInv, TypeOK, Moves, Local, Tracked, managerVars, registryVars, dictVars
  <1>3. CASE Messages
    <2>1. /\ Moves(Mqtt) /\ UNCHANGED <<enqueued, dictVars, deleted, streamVars, targets>>
          /\ reported' \subseteq enqueued /\ captures' \subseteq Runs /\ finished' \subseteq Runs
          /\ pc'[Mqtt] \in {"Status", "Result"} => job'[Mqtt].run \in Runs
      BY <1>0, <1>3, MessageMoves
    <2>2. Kinds'
      BY <1>0, <2>1, NamesAssumption DEF Kinds, Moves, Workers
    <2>3. QED
      BY <1>0, <2>1, <2>2 DEF TypeInv, TypeOK, Moves, Local, Tracked, dictVars, streamVars
  <1>4. CASE Streaming
    BY <1>0, <1>4, StreamMoves DEF TypeInv, TypeOK, Kinds, Tracked, managerVars, registryVars, dictVars
  <1>5. CASE UNCHANGED vars
    BY <1>0, <1>5 DEF TypeInv, TypeOK, Kinds, Tracked, vars, sharedVars, managerVars, registryVars,
       dictVars, streamVars
  <1>6. QED
    BY <1>1, <1>2, <1>3, <1>4, <1>5, NextSteps

\* Every variable keeps its type, and the dictionary has an entry for each tracked scenario,
\* however its entries are packed (module.py: tracked_scenarios).
THEOREM TypeCorrect == Spec => []TypeOK
  <1>1. TypeInv => TypeOK
    BY DEF TypeInv
  <1>2. QED
    BY TypeInit, TypeNext, <1>1, PTL DEF Spec

(***************************************************************************)
(* Captures and deletions                                                  *)
(***************************************************************************)
\* What is tracked was enqueued, and what has a result was tracked.
Registered == Known \subseteq enqueued /\ finished \subseteq Known

\* A result that is not tracked yet has its capture; the one that is handled was tracked.
Results == /\ reported \ finished \subseteq captures
           /\ pc[Mqtt] \in {"Status", "Result"} => job[Mqtt].run \in Known
           /\ pc[Mqtt] = "Result" => job[Mqtt].run \in reported

\* What a thread is about to track was never tracked; what it is about to delete has a result.
Fresh(t)    == pc[t] = "called" => job[t].run \in enqueued \ Known
Deleting(t) == pc[t] \in {"erase", "untrack"} => job[t].run \in finished

\* Uploads are given different instances.
Apart == \A t, u \in Threads :
            pc[t] = "called" /\ pc[u] = "called" /\ job[t].run = job[u].run => t = u

Core == /\ Registered /\ Results
        /\ \A t \in Threads : Fresh(t) /\ Deleting(t)
        /\ Apart /\ DeletedOnce /\ CaptureKept

Inv == TypeInv /\ Core

LEMMA CoreInit == Init => Core
  <1> SUFFICES ASSUME Init PROVE Core
    OBVIOUS
  <1>1. Known = {} /\ Tracked = {} /\ \A w \in Workers : pc[w] = "idle"
    BY DEF Init, Known, Tracked
  <1>2. QED
    BY <1>1 DEF Init, Core, Registered, Results, Fresh, Deleting, Apart, DeletedOnce, CaptureKept, Workers

LEMMA QuietSteps ==
  ASSUME TypeInv, NEW t \in Threads, Request(t), ~Shows(t)
  PROVE  /\ UNCHANGED sharedVars
         /\ pc[t] # "untrack" /\ pc'[t] \notin {"called", "untrack"}
         /\ pc'[t] = "erase" => job'[t].run \in finished
  <1>0. Local /\ t \in Workers /\ pc[t] \in Steps /\ job[t] \in Jobs /\ UNCHANGED sharedVars
    BY LocalType, RequestIsQuiet DEF Local, Workers, TypeInv
  <1>1. CASE NextDeletion(t)
    BY <1>0, <1>1 DEF NextDeletion, Local, Jobs
  <1>2. CASE Fetch(t)
    BY <1>0, <1>2 DEF Fetch, Raise, Local, TypeInv, Kinds
  <1>3. CASE /\ ~NextDeletion(t) /\ ~Fetch(t)
    <2>1. pc[t] # "untrack" /\ pc'[t] \notin {"called", "untrack", "erase"}
      BY <1>0, <1>3 DEF Request, Upload, Delete, Download, Shows, BeginUpload, Begins, Goes, Raise, CallFails,
         UploadDone, BeginOne, CheckResult, BeginDeleteAll, DeletionDone, PackOne, BeginDownloadAll,
         SizeChanged, Pack, DownloadDone, Done, Local
    <2>2. QED
      BY <1>0, <2>1
  <1>4. QED
    BY <1>1, <1>2, <1>3

\* What was tracked at some time only grows.
LEMMA KnownAfter ==
  ASSUME Typed, Entries
  PROVE  /\ UNCHANGED <<slot, deleted>> => Tracked' = Tracked /\ Known' = Known
         /\ \A r \in Runs : Insert(r) /\ UNCHANGED deleted => /\ Tracked' = Tracked \union {r}
                                                               /\ Known' = Known \union {r}
  BY Inserts DEF Tracked, Known

LEMMA CoreRequest ==
  ASSUME Inv, NEW t \in Threads, Request(t)
  PROVE  Core'
  <1>0. /\ TypeOK /\ Kinds /\ Local /\ Typed /\ Entries /\ Mqtt \notin Threads
        /\ t \in Workers /\ Mqtt \in Workers /\ Threads \subseteq Workers
    BY LocalType, NamesAssumption DEF Inv, TypeInv, Workers
  <1>1. Moves(t) /\ Core
    BY <1>0, RequestMoves DEF Inv
  <1>2. /\ \A v \in Threads \ {t} : pc'[v] = pc[v] /\ job'[v] = job[v]
        /\ pc'[Mqtt] = pc[Mqtt] /\ job'[Mqtt] = job[Mqtt]
    BY <1>0, <1>1 DEF Moves
  <1>3. CASE ~Shows(t)
    <2>1. /\ UNCHANGED <<enqueued, reported, captures, slot, finished, deleted>>
          /\ pc[t] # "untrack" /\ pc'[t] \notin {"called", "untrack"}
          /\ pc'[t] = "erase" => job'[t].run \in finished
      BY <1>3, QuietSteps DEF Inv, sharedVars, managerVars, registryVars, dictVars
    <2>2. Tracked' = Tracked /\ Known' = Known
      BY <1>0, <2>1, KnownAfter
    <2>3. (\A u \in Threads : Fresh(u) /\ Deleting(u))' /\ Apart'
      BY <1>1, <1>2, <2>1, <2>2 DEF Core, Fresh, Deleting, Apart
    <2>4. CaptureKept'
      BY <1>1, <1>2, <2>1, <2>2 DEF Core, CaptureKept
    <2>5. QED
      BY <1>1, <1>2, <2>1, <2>2, <2>3, <2>4 DEF Core, Registered, Results, DeletedOnce
  <1>4. CASE call_enqueue_test(t)
    <2>1. PICK r \in Runs \ enqueued : /\ enqueued' = enqueued \union {r}
                                       /\ job' = [job EXCEPT ![t].run = r, ![t].left = @ - 1, ![t].goal = @ \union {r}]
      BY <1>4 DEF call_enqueue_test
    <2>2. /\ UNCHANGED <<reported, captures, slot, finished, deleted>>
          /\ pc[t] = "upload" /\ pc'[t] = "called" /\ job'[t].run = r
      BY <1>0, <1>4, <2>1 DEF call_enqueue_test, Goes, registryVars, dictVars, Local, Jobs
    <2>3. Tracked' = Tracked /\ Known' = Known
      BY <1>0, <2>2, KnownAfter
    <2>4. (\A u \in Threads : Fresh(u) /\ Deleting(u))' /\ Apart'
      <3>1. r \in enqueued' \ Known' /\ enqueued \subseteq enqueued'
        BY <1>1, <2>1, <2>3 DEF Core, Registered
      <3>2. (\A u \in Threads : Fresh(u) /\ Deleting(u))'
        BY <1>1, <1>2, <2>2, <2>3, <3>1 DEF Core, Fresh, Deleting
      <3>3. \A u \in Threads \ {t} : pc[u] = "called" => job[u].run # r
        BY <1>1, <2>1 DEF Core, Fresh
      <3>4. Apart'
        BY <1>1, <1>2, <2>2, <3>3 DEF Core, Apart
      <3>5. QED
        BY <3>2, <3>4
    <2>5. CaptureKept'
      BY <1>1, <1>2, <2>2, <2>3 DEF Core, CaptureKept
    <2>6. QED
      BY <1>1, <1>2, <2>1, <2>2, <2>3, <2>4, <2>5 DEF Core, Registered, Results, DeletedOnce
  <1>5. CASE Track(t)
    <2> DEFINE r == job[t].run
    <2>1. /\ pc[t] = "called" /\ pc'[t] = "announce" /\ r \in Runs /\ Insert(r)
          /\ UNCHANGED <<enqueued, reported, captures, finished, deleted, job>>
      BY <1>0, <1>5 DEF Track, Goes, Local, Kinds, managerVars
    <2>2. Tracked' = Tracked \union {r} /\ Known' = Known \union {r}
      BY <1>0, <2>1, KnownAfter
    <2>3. r \in enqueued \ Known /\ r \notin finished
      BY <1>1, <2>1 DEF Core, Fresh, Registered
    <2>4. (\A u \in Threads : Fresh(u) /\ Deleting(u))' /\ Apart'
      BY <1>1, <1>2, <2>1, <2>2 DEF Core, Fresh, Deleting, Apart
    <2>5. CaptureKept'
      BY <1>1, <1>2, <2>1, <2>2, <2>3 DEF Core, CaptureKept
    <2>6. DeletedOnce'
      BY <1>1, <2>1, <2>2, <2>3 DEF Core, DeletedOnce, Known
    <2>7. QED
      BY <1>1, <1>2, <2>1, <2>2, <2>3, <2>4, <2>5, <2>6 DEF Core, Registered, Results
  <1>6. CASE EraseCapture(t)
    <2> DEFINE r == job[t].run
    <2>1. /\ pc[t] = "erase" /\ pc'[t] = "untrack" /\ captures' \in {captures, captures \ {r}}
          /\ UNCHANGED <<enqueued, reported, slot, finished, deleted, job>>
      BY <1>0, <1>6 DEF EraseCapture, Goes, Local, managerVars, registryVars, dictVars
    <2>2. Tracked' = Tracked /\ Known' = Known /\ r \in finished
      BY <1>0, <1>1, <2>1, KnownAfter DEF Core, Deleting
    <2>3. (\A u \in Threads : Fresh(u) /\ Deleting(u))' /\ Apart'
      BY <1>1, <1>2, <2>1, <2>2 DEF Core, Fresh, Deleting, Apart
    <2>4. CaptureKept'
      BY <1>1, <1>2, <2>1, <2>2 DEF Core, CaptureKept
    <2>5. QED
      BY <1>1, <1>2, <2>1, <2>2, <2>3, <2>4 DEF Core, Registered, Results, DeletedOnce
  <1>7. CASE Untrack(t)
    <2> DEFINE r == job[t].run
    <2>1. /\ pc[t] = "untrack" /\ pc'[t] \in {"announce", "idle"} /\ r \in Runs
          /\ UNCHANGED <<enqueued, reported, captures, finished>>
      BY <1>0, <1>7 DEF Untrack, Raise, Local, Kinds, managerVars
    <2>2. CASE r \in Tracked
      <3>1. Remove(r) /\ deleted' = [deleted EXCEPT ![r] = @ \union {t}]
        BY <1>7, <2>2 DEF Untrack
      <3>2. Tracked' = Tracked \ {r}
        BY <1>0, <2>1, <3>1, Removes
      <3>3. /\ deleted'[r] = {t} /\ \A q \in Runs \ {r} : deleted'[q] = deleted[q]
            /\ Known' = Known
        BY <1>0, <1>1, <2>1, <2>2, <3>1, <3>2 DEF Core, DeletedOnce, TypeOK, Known
      <3>4. (\A u \in Threads : Fresh(u) /\ Deleting(u))' /\ Apart'
        BY <1>1, <1>2, <2>1, <3>3 DEF Core, Fresh, Deleting, Apart
      <3>5. CaptureKept'
        BY <1>1, <1>2, <2>1, <3>2 DEF Core, CaptureKept
      <3>6. DeletedOnce'
        BY <1>1, <3>2, <3>3, FS_Singleton DEF Core, DeletedOnce
      <3>7. QED
        BY <1>1, <1>2, <2>1, <3>3, <3>4, <3>5, <3>6 DEF Core, Registered, Results
    <2>3. CASE r \notin Tracked
      <3>1. UNCHANGED <<slot, deleted>>
        BY <1>7, <2>3 DEF Untrack, dictVars
      <3>2. Tracked' = Tracked /\ Known' = Known
        BY <1>0, <3>1, KnownAfter
      <3>3. (\A u \in Threads : Fresh(u) /\ Deleting(u))' /\ Apart'
        BY <1>1, <1>2, <2>1, <3>2 DEF Core, Fresh, Deleting, Apart
      <3>4. CaptureKept'
        BY <1>1, <1>2, <2>1, <2>3, <3>2 DEF Core, CaptureKept
      <3>5. QED
        BY <1>1, <1>2, <2>1, <3>1, <3>2, <3>3, <3>4 DEF Core, Registered, Results, DeletedOnce
    <2>4. QED
      BY <2>2, <2>3
  <1>8. QED
    BY <1>3, <1>4, <1>5, <1>6, <1>7 DEF Shows

LEMMA CoreNext == Inv /\ [Next]_vars => Core'
  <1> SUFFICES ASSUME Inv, [Next]_vars PROVE Core'
    OBVIOUS
  <1>0. /\ TypeOK /\ Kinds /\ Local /\ Typed /\ Entries /\ Mqtt \notin Threads /\ Core
        /\ Mqtt \in Workers /\ Threads \subseteq Workers
    BY LocalType, NamesAssumption DEF Inv, TypeInv, Workers
  <1>1. CASE \E t \in Threads : Request(t)
    BY <1>1, CoreRequest
  <1>2. ASSUME NEW w \in Workers, SendEvent(w) PROVE Core'
    <2>1. /\ Moves(w) /\ UNCHANGED <<enqueued, reported, captures, slot, finished, deleted>>
          /\ pc[w] \in {"announce", "send", "drop"}
          /\ pc'[w] \in {"send", "drop", "upload", "delete", "idle"}
      BY <1>0, <1>2, EventMoves DEF managerVars, registryVars, dictVars
    <2>2. Tracked' = Tracked /\ Known' = Known
      BY <1>0, <2>1, KnownAfter
    <2>3. (\A u \in Threads : Fresh(u) /\ Deleting(u))' /\ Apart' /\ Results'
      BY <1>0, <2>1, <2>2 DEF Core, Fresh, Deleting, Apart, Moves, Results
    <2>4. CaptureKept'
      BY <1>0, <2>1, <2>2 DEF Core, CaptureKept, Moves
    <2>5. QED
      BY <1>0, <2>1, <2>2, <2>3, <2>4 DEF Core, Registered, DeletedOnce
  <1>3. CASE Messages
    <2>1. Moves(Mqtt) /\ UNCHANGED <<enqueued, slot, deleted>>
      BY <1>0, <1>3, MessageMoves DEF dictVars
    <2>2. Tracked' = Tracked /\ Known' = Known
      BY <1>0, <2>1, KnownAfter
    <2>3. \A u \in Threads : pc'[u] = pc[u] /\ job'[u] = job[u]
      BY <1>0, <2>1 DEF Moves
    <2>4. ASSUME NEW r \in Runs, NEW kind \in {"Status", "Result"}, Receive(r, kind)
          PROVE  /\ pc'[Mqtt] \in {"Status", "Result"} => job'[Mqtt].run = r /\ r \in Known
                 /\ UNCHANGED finished
      BY <1>0, <2>4 DEF Receive, Local, Jobs, Known, registryVars
    <2>5. CASE \E r \in Runs : ReceiveStatus(r)
      <3>1. PICK r \in Runs : Receive(r, "Status") /\ UNCHANGED <<reported, captures>>
        BY <2>5 DEF ReceiveStatus
      <3>2. pc'[Mqtt] # "Result" /\ UNCHANGED finished
        BY <1>0, <3>1 DEF Receive, Local, registryVars
      <3>3. QED
        BY <1>0, <2>1, <2>2, <2>3, <2>4, <3>1, <3>2 DEF Core, Registered, Results, Fresh, Deleting, Apart,
           DeletedOnce, CaptureKept
    <2>6. CASE \E r \in Runs : ReceiveResult(r)
      <3>1. PICK r \in Runs : /\ Receive(r, "Result")
                             /\ reported' = reported \union {r} /\ captures' = captures \union {r}
        BY <2>6 DEF ReceiveResult
      <3>2. QED
        BY <1>0, <2>1, <2>2, <2>3, <2>4, <3>1 DEF Core, Registered, Results, Fresh, Deleting, Apart,
           DeletedOnce, CaptureKept
    <2>7. CASE handle_test_status
      <3>1. pc'[Mqtt] = "announce" /\ UNCHANGED <<reported, captures, finished>>
        BY <1>0, <2>7 DEF handle_test_status, Goes, Local, sharedVars, managerVars, registryVars
      <3>2. QED
        BY <1>0, <2>1, <2>2, <2>3, <3>1 DEF Core, Registered, Results, Fresh, Deleting, Apart,
           DeletedOnce, CaptureKept
    <2>8. CASE handle_test_result
      <3>1. /\ pc[Mqtt] = "Result" /\ pc'[Mqtt] = "announce" /\ finished' = finished \union {job[Mqtt].run}
            /\ UNCHANGED <<reported, captures>>
        BY <1>0, <2>8 DEF handle_test_result, Goes, Local, managerVars
      <3>2. QED
        BY <1>0, <2>1, <2>2, <2>3, <3>1 DEF Core, Registered, Results, Fresh, Deleting, Apart,
           DeletedOnce, CaptureKept
    <2>9. QED
      BY <1>3, <2>5, <2>6, <2>7, <2>8 DEF Messages
  <1>4. CASE Streaming \/ UNCHANGED vars
    <2>1. UNCHANGED <<enqueued, reported, captures, slot, finished, deleted, pc, job>>
      BY <1>0, <1>4, StreamMoves DEF vars, sharedVars, managerVars, registryVars, dictVars
    <2>2. Tracked' = Tracked /\ Known' = Known
      BY <1>0, <2>1, KnownAfter
    <2>3. QED
      BY <1>0, <2>1, <2>2 DEF Core, Registered, Results, Fresh, Deleting, Apart, DeletedOnce, CaptureKept
  <1>5. QED
    BY <1>1, <1>2, <1>3, <1>4, NextSteps

LEMMA InvInit == Init => Inv
  BY TypeInit, CoreInit DEF Inv

LEMMA InvNext == Inv /\ [Next]_vars => Inv'
  BY TypeNext, CoreNext DEF Inv

\* What is tracked, reported and about to be deleted fit together, whatever the threads do to
\* the dictionary (module.py: PyTestServerModule).
THEOREM InvCorrect == Spec => []Inv
  BY InvInit, InvNext, PTL DEF Spec

\* Whatever requests delete at the same time: a scenario is deleted by one of them, and never
\* tracked again (module.py: handle_delete_results, handle_upload_configuration).
THEOREM DeletedOnceCorrect == Spec => []DeletedOnce
  <1>1. Inv => DeletedOnce
    BY DEF Inv, Core
  <1>2. QED
    BY InvCorrect, <1>1, PTL

\* A tracked result has its capture, unless a thread is about to delete it
\* (module.py: handle_delete_results, handle_test_result).
THEOREM CaptureKeptCorrect == Spec => []CaptureKept
  <1>1. Inv => CaptureKept
    BY DEF Inv, Core
  <1>2. QED
    BY InvCorrect, <1>1, PTL

(***************************************************************************)
(* What OK means                                                           *)
(***************************************************************************)
\* The kind of request that is at a place.
Purpose(t) == /\ pc[t] \in {"upload", "called"} => job[t].kind = "upload"
              /\ pc[t] \in {"delete", "erase", "untrack"} => job[t].kind = "delete"
              /\ pc[t] \in {"download", "iterate"} => job[t].kind = "download"
              /\ pc[t] \in {"announce", "send", "drop"} => job[t].kind \in {"upload", "delete"}
              /\ pc[t] = "ok" => job[t].kind \in {"upload", "delete", "download"}

\* What it was asked for was tracked, or is about to be.
Expected(t) == job[t].goal \subseteq Known \union (IF pc[t] = "called" THEN {job[t].run} ELSE {})

\* What a deletion has left over.
Deletes(t) ==
  job[t].kind = "delete" /\ pc[t] # "check" =>
     /\ job[t].goal \subseteq finished
     /\ pc[t] \in {"delete", "announce", "send", "drop"} => job[t].goal \intersect Tracked \subseteq job[t].rest
     /\ pc[t] \in {"erase", "untrack"} => job[t].goal \intersect Tracked \subseteq job[t].rest \union {job[t].run}
     /\ pc[t] = "ok" => job[t].goal \intersect Tracked = {}

\* What a download has packed, unless scenarios were added.
Downloads(t) ==
  job[t].kind = "download" =>
     /\ job[t].known \subseteq Known
     /\ pc[t] = "iterate" => job[t].goal \subseteq finished
     /\ pc[t] = "iterate" /\ job[t].known = Known =>
           \A q \in job[t].goal \intersect Tracked : slot[q] <= job[t].at => q \in job[t].archive
     /\ pc[t] = "ok" => job[t].goal \intersect Tracked \subseteq job[t].archive \/ job[t].known # Known

Task(t) == Purpose(t) /\ Expected(t) /\ Deletes(t) /\ Downloads(t)

Progress == \A t \in Threads : Task(t)

\* What a thread may rely on while others move: results and what was tracked stay, nothing is
\* tracked again, and entries move only when something is added.
World == /\ finished \subseteq finished' /\ Known \subseteq Known'
         /\ Tracked' \intersect Known \subseteq Tracked
         /\ Known' = Known => \A q \in Tracked' : slot'[q] = slot[q]

LEMMA WorldStays ==
  ASSUME Typed, Entries, UNCHANGED <<slot, finished, deleted>>
  PROVE  World /\ Tracked' = Tracked /\ Known' = Known
  BY KnownAfter DEF World

LEMMA OthersKeep ==
  ASSUME World, NEW t, pc'[t] = pc[t], job'[t] = job[t], Task(t)
  PROVE  Task(t)'
  <1>1. Purpose(t)' /\ Expected(t)'
    BY DEF World, Task, Purpose, Expected
  <1>2. Deletes(t)'
    BY DEF World, Task, Expected, Deletes, Purpose
  <1>3. Downloads(t)'
    BY DEF World, Task, Expected, Downloads
  <1>4. QED
    BY <1>1, <1>2, <1>3 DEF Task

LEMMA IdleTask ==
  ASSUME NEW t, pc'[t] = "idle", job'[t] = NoJob
  PROVE  Task(t)'
  BY DEF Task, Purpose, Expected, Deletes, Downloads, NoJob

LEMMA ProgressInit == Init => Progress
  BY DEF Init, Progress, Task, Purpose, Expected, Deletes, Downloads, NoJob, Workers

LEMMA RequestWorld ==
  ASSUME Inv, NEW t \in Threads, Request(t)
  PROVE  World
  <1>0. TypeOK /\ Kinds /\ Local /\ Typed /\ Entries /\ Core /\ t \in Workers
    BY LocalType DEF Inv, TypeInv, Workers
  <1>1. CASE ~Shows(t) \/ call_enqueue_test(t) \/ EraseCapture(t)
    <2>1. UNCHANGED <<slot, finished, deleted>>
      BY <1>1, RequestIsQuiet DEF sharedVars, registryVars, dictVars, call_enqueue_test, EraseCapture
    <2>2. QED
      BY <1>0, <2>1, WorldStays
  <1>2. CASE Track(t)
    <2>1. pc[t] = "called" /\ job[t].run \in Runs /\ Insert(job[t].run) /\ UNCHANGED <<finished, deleted>>
      BY <1>0, <1>2 DEF Track, Goes, Kinds
    <2>2. job[t].run \notin Known
      BY <1>0, <2>1 DEF Core, Fresh
    <2>3. QED
      BY <1>0, <2>1, <2>2, KnownAfter DEF World
  <1>3. CASE Untrack(t)
    <2>1. pc[t] = "untrack" /\ job[t].run \in Runs /\ UNCHANGED finished
      BY <1>0, <1>3 DEF Untrack, Kinds
    <2>2. CASE job[t].run \in Tracked
      <3>1. Remove(job[t].run) /\ deleted' = [deleted EXCEPT ![job[t].run] = @ \union {t}]
        BY <1>3, <2>2 DEF Untrack
      <3>2. Tracked' = Tracked \ {job[t].run} /\ \A q \in Tracked' : slot'[q] = slot[q]
        BY <1>0, <2>1, <3>1, Removes DEF Remove, Typed, Tracked
      <3>3. Known \subseteq Known'
        BY <1>0, <2>1, <3>1, <3>2 DEF TypeOK, Known
      <3>4. QED
        BY <2>1, <3>2, <3>3 DEF World
    <2>3. CASE job[t].run \notin Tracked
      BY <1>0, <1>3, <2>1, <2>3, WorldStays DEF Untrack, dictVars
    <2>4. QED
      BY <2>2, <2>3
  <1>4. QED
    BY <1>1, <1>2, <1>3 DEF Shows

\* The steps of a request that nobody else sees leave the dictionary as it is.
LEMMA QuietWorld ==
  ASSUME Inv, NEW t \in Threads, Request(t), ~Shows(t)
  PROVE  Tracked' = Tracked /\ Known' = Known /\ UNCHANGED <<slot, captures, finished>>
  <1>1. Typed /\ Entries
    BY LocalType DEF Inv, TypeInv
  <1>2. UNCHANGED sharedVars
    BY RequestIsQuiet
  <1>3. QED
    BY <1>1, <1>2, KnownAfter DEF sharedVars, registryVars, dictVars

LEMMA TaskQuiet ==
  ASSUME Inv, Progress, NEW t \in Threads, Request(t), ~Shows(t)
  PROVE  Task(t)'
  <1>0. /\ TypeOK /\ Local /\ t \in Workers /\ pc[t] \in Steps /\ job[t] \in Jobs
        /\ Purpose(t) /\ Expected(t) /\ Deletes(t) /\ Downloads(t)
        /\ Tracked' = Tracked /\ Known' = Known /\ UNCHANGED <<slot, captures, finished>>
    BY LocalType, QuietWorld DEF Inv, TypeInv, Workers, Local, Progress, Task
  <1> USE DEF Task, Purpose, Expected, Deletes, Downloads
  <1>1. CASE \E upload \in Uploads : BeginUpload(t, upload)
    <2>1. /\ pc'[t] = "upload" /\ job'[t].kind = "upload" /\ job'[t].goal = {}
      BY <1>0, <1>1 DEF BeginUpload, Begins, Goes, Local, NoJob
    <2>2. QED
      BY <1>0, <2>1
  <1>2. CASE CallFails(t) \/ SizeChanged(t) \/ Done(t)
    <2>1. pc'[t] = "idle" /\ job'[t] = NoJob
      BY <1>0, <1>2 DEF CallFails, SizeChanged, Done, Goes, Raise, Local
    <2>2. QED
      BY <2>1, IdleTask
  <1>3. CASE UploadDone(t)
    <2>1. pc[t] = "upload" /\ pc'[t] = "ok" /\ job'[t] = job[t]
      BY <1>0, <1>3 DEF UploadDone, Goes, Local
    <2>2. QED
      BY <1>0, <2>1
  <1>4. ASSUME NEW r \in Runs, NEW kind \in {"delete", "download"}, BeginOne(t, kind, r)
        PROVE  Task(t)'
    <2>1. /\ pc'[t] = "check" /\ job'[t].kind = kind /\ job'[t].goal = {r} /\ job'[t].known = {}
          /\ r \in Known
      BY <1>0, <1>4 DEF BeginOne, Begins, Goes, Local, NoJob, Known
    <2>2. QED
      BY <1>0, <2>1
  <1>5. CASE BeginDeleteAll(t)
    <2>1. /\ pc'[t] = "delete" /\ job'[t].kind = "delete" /\ job'[t].rest = Tracked
          /\ job'[t].goal = Tracked \intersect finished
      BY <1>0, <1>5 DEF BeginDeleteAll, Begins, Goes, Local, NoJob
    <2>2. QED
      BY <1>0, <2>1 DEF Known
  <1>6. CASE NextDeletion(t)
    <2>1. PICK r \in job[t].rest :
              \/ /\ pc' = [pc EXCEPT ![t] = "erase"]
                 /\ job' = [job EXCEPT ![t].run = r, ![t].rest = @ \ {r}]
              \/ r \notin finished /\ job' = [job EXCEPT ![t].rest = @ \ {r}] /\ UNCHANGED pc
      BY <1>6 DEF NextDeletion
    <2>2. pc[t] = "delete"
      BY <1>6 DEF NextDeletion
    <2>3. /\ job'[t].kind = job[t].kind /\ job'[t].goal = job[t].goal /\ job'[t].rest = job[t].rest \ {r}
          /\ (pc'[t] = "erase" /\ job'[t].run = r) \/ (pc'[t] = "delete" /\ r \notin finished)
      BY <1>0, <2>1, <2>2 DEF Local, Jobs
    <2>4. QED
      BY <1>0, <2>2, <2>3
  <1>7. CASE DeletionDone(t)
    <2>1. pc[t] = "delete" /\ pc'[t] = "ok" /\ job'[t] = job[t] /\ job[t].rest = {}
      BY <1>0, <1>7 DEF DeletionDone, Goes, Local
    <2>2. QED
      BY <1>0, <2>1
  <1>8. CASE PackOne(t)
    <2>1. CASE Raise(t)
      BY <1>0, <2>1, IdleTask DEF Raise, Local
    <2>2. CASE pc' = [pc EXCEPT ![t] = "ok"] /\ job' = [job EXCEPT ![t].archive = job[t].goal]
      <3>1. /\ pc[t] = "download" /\ pc'[t] = "ok" /\ job'[t].kind = job[t].kind /\ job'[t].goal = job[t].goal
            /\ job'[t].known = job[t].known /\ job'[t].archive = job[t].goal
        BY <1>0, <1>8, <2>2 DEF PackOne, Local, Jobs
      <3>2. QED
        BY <1>0, <3>1
    <2>3. QED
      BY <1>8, <2>1, <2>2 DEF PackOne
  <1>9. CASE BeginDownloadAll(t)
    <2>1. /\ pc'[t] = "iterate" /\ job'[t].kind = "download" /\ job'[t].known = Known /\ job'[t].at = 0
          /\ job'[t].goal = Tracked \intersect finished
      BY <1>0, <1>9 DEF BeginDownloadAll, Begins, Goes, Local, NoJob
    <2>2. \A q \in Tracked : ~(slot[q] <= 0)
      BY <1>0 DEF Tracked, TypeOK
    <2>3. QED
      BY <1>0, <2>1, <2>2 DEF Known
  <1>10. CASE Pack(t)
    <2>1. PICK r \in Ahead(t) :
              /\ \A q \in Ahead(t) : slot[r] <= slot[q]
              /\ \/ Raise(t)
                 \/ /\ job' = [job EXCEPT ![t].at = slot[r], ![t].archive = @ \union ({r} \intersect finished)]
                    /\ UNCHANGED pc
      BY <1>10 DEF Pack
    <2>2. CASE Raise(t)
      BY <1>0, <2>2, IdleTask DEF Raise, Local
    <2>3. CASE /\ job' = [job EXCEPT ![t].at = slot[r], ![t].archive = @ \union ({r} \intersect finished)]
               /\ UNCHANGED pc
      <3>1. /\ pc[t] = "iterate" /\ pc'[t] = "iterate" /\ job'[t].kind = job[t].kind
            /\ job'[t].goal = job[t].goal /\ job'[t].known = job[t].known /\ job'[t].at = slot[r]
            /\ job'[t].archive = job[t].archive \union ({r} \intersect finished)
        BY <1>0, <1>10, <2>3 DEF Pack, Local, Jobs
      <3>2. ASSUME NEW q \in Tracked, slot[q] <= slot[r] PROVE slot[q] <= job[t].at \/ q = r
        <4>1. slot[q] \in Nat /\ slot[r] \in Nat /\ job[t].at \in Nat /\ r \in Tracked
          BY <1>0 DEF TypeOK, Tracked, Ahead, Jobs
        <4>2. CASE q \in Ahead(t)
          <5>1. slot[q] = slot[r]
            BY <2>1, <3>2, <4>1, <4>2
          <5>2. QED
            BY <1>0, <4>1, <5>1 DEF TypeOK
        <4>3. CASE q \notin Ahead(t)
          BY <4>1, <4>3 DEF Ahead
        <4>4. QED
          BY <4>2, <4>3
      <3>3. Purpose(t)' /\ Expected(t)' /\ Deletes(t)'
        BY <1>0, <3>1
      <3>4. Downloads(t)'
        BY <1>0, <3>1, <3>2
      <3>5. QED
        BY <3>3, <3>4
    <2>4. QED
      BY <2>1, <2>2, <2>3
  <1>11. CASE DownloadDone(t)
    <2>1. pc[t] = "iterate" /\ pc'[t] = "ok" /\ job'[t] = job[t] /\ Ahead(t) = {}
      BY <1>0, <1>11 DEF DownloadDone, Goes, Local
    <2>2. \A q \in Tracked : slot[q] <= job[t].at
      BY <1>0, <2>1 DEF Ahead, TypeOK, Tracked, Jobs
    <2>3. QED
      BY <1>0, <2>1, <2>2
  <1>12. CASE CheckResult(t)
    <2>1. CASE Raise(t)
      BY <1>0, <2>1, IdleTask DEF Raise, Local
    <2>2. CASE pc' = [pc EXCEPT ![t] = "fetch"] /\ UNCHANGED job /\ job[t].goal \subseteq Tracked \intersect finished
      BY <1>0, <1>12, <2>2 DEF CheckResult, Local
    <2>3. QED
      BY <1>12, <2>1, <2>2 DEF CheckResult
  <1>13. CASE Fetch(t)
    <2>1. CASE Raise(t)
      BY <1>0, <2>1, IdleTask DEF Raise, Local
    <2>2. CASE pc' = [pc EXCEPT ![t] = job[t].kind] /\ job' = [job EXCEPT ![t].rest = job[t].goal]
      <3>1. /\ pc[t] = "fetch" /\ pc'[t] = job[t].kind /\ job[t].kind \in {"delete", "download"}
            /\ job'[t].kind = job[t].kind /\ job'[t].goal = job[t].goal /\ job'[t].known = job[t].known
            /\ job'[t].rest = job[t].goal
        BY <1>0, <1>13, <2>2 DEF Fetch, Local, Jobs, Inv, TypeInv, Kinds
      <3>2. QED
        BY <1>0, <3>1
    <2>3. QED
      BY <1>13, <2>1, <2>2 DEF Fetch
  <1>14. QED
    BY <1>1, <1>2, <1>3, <1>4, <1>5, <1>6, <1>7, <1>8, <1>9, <1>10, <1>11, <1>12, <1>13
       DEF Request, Upload, Delete, Download, Shows

LEMMA TaskShown ==
  ASSUME Inv, Progress, NEW t \in Threads, Request(t), Shows(t)
  PROVE  Task(t)'
  <1>0. /\ TypeOK /\ Kinds /\ Local /\ Typed /\ Entries /\ t \in Workers /\ pc[t] \in Steps
        /\ job[t] \in Jobs /\ Purpose(t) /\ Expected(t) /\ Deletes(t) /\ Downloads(t) /\ World /\ Core
    BY LocalType, RequestWorld DEF Inv, TypeInv, Workers, Local, Progress, Task
  <1> USE DEF Task, Purpose, Expected, Deletes, Downloads
  <1>1. CASE call_enqueue_test(t)
    <2>1. PICK r \in Runs : job' = [job EXCEPT ![t].run = r, ![t].left = @ - 1, ![t].goal = @ \union {r}]
      BY <1>1 DEF call_enqueue_test
    <2>2. /\ pc[t] = "upload" /\ pc'[t] = "called" /\ job'[t].kind = job[t].kind /\ job'[t].run = r
          /\ job'[t].goal = job[t].goal \union {r}
      BY <1>0, <1>1, <2>1 DEF call_enqueue_test, Goes, Local, Jobs
    <2>3. QED
      BY <1>0, <2>2 DEF World
  <1>2. CASE Track(t)
    <2>1. /\ pc[t] = "called" /\ pc'[t] = "announce" /\ job'[t] = job[t] /\ job[t].run \in Runs
          /\ Insert(job[t].run) /\ UNCHANGED deleted
      BY <1>0, <1>2 DEF Track, Goes, Local, Kinds
    <2>2. Known' = Known \union {job[t].run}
      BY <1>0, <2>1, KnownAfter
    <2>3. QED
      BY <1>0, <2>1, <2>2
  <1>3. CASE EraseCapture(t)
    <2>1. pc[t] = "erase" /\ pc'[t] = "untrack" /\ job'[t] = job[t] /\ UNCHANGED <<slot, finished, deleted>>
      BY <1>0, <1>3 DEF EraseCapture, Goes, Local, registryVars, dictVars
    <2>2. Tracked' = Tracked /\ Known' = Known
      BY <1>0, <2>1, KnownAfter
    <2>3. QED
      BY <1>0, <2>1, <2>2
  <1>4. CASE Untrack(t)
    <2>1. pc[t] = "untrack" /\ UNCHANGED finished
      BY <1>4 DEF Untrack
    <2>2. CASE job[t].run \in Tracked
      <3>1. /\ pc'[t] = "announce" /\ job'[t] = job[t] /\ Remove(job[t].run)
        BY <1>0, <1>4, <2>2 DEF Untrack, Local
      <3>2. Tracked' = Tracked \ {job[t].run}
        BY <1>0, <2>1, <3>1, Removes DEF Kinds
      <3>3. QED
        BY <1>0, <2>1, <3>1, <3>2 DEF World
    <2>3. CASE job[t].run \notin Tracked
      BY <1>0, <1>4, <2>3, IdleTask DEF Untrack, Raise, Local
    <2>4. QED
      BY <2>2, <2>3
  <1>5. QED
    BY <1>1, <1>2, <1>3, <1>4 DEF Shows

LEMMA TaskEvent ==
  ASSUME Inv, Progress, NEW t \in Threads, SendEvent(t)
  PROVE  Task(t)'
  <1>0. /\ TypeOK /\ Kinds /\ Local /\ Typed /\ Entries /\ t \in Workers
        /\ job[t] \in Jobs /\ Purpose(t) /\ Expected(t) /\ Deletes(t) /\ Downloads(t)
    BY LocalType DEF Inv, TypeInv, Workers, Local, Progress, Task
  <1>1. /\ UNCHANGED <<slot, finished, deleted>> /\ pc[t] \in {"announce", "send", "drop"}
    BY <1>0, EventMoves DEF registryVars, dictVars
  <1>2. Tracked' = Tracked /\ Known' = Known
    BY <1>0, <1>1, KnownAfter
  <1>3. \/ pc'[t] = "idle" /\ job'[t] = NoJob
        \/ /\ \/ pc'[t] \in {"send", "drop"}
              \/ pc'[t] \in {"upload", "delete"} /\ pc'[t] = job[t].kind
           /\ job'[t].kind = job[t].kind /\ job'[t].goal = job[t].goal /\ job'[t].rest = job[t].rest
           /\ job'[t].known = job[t].known
    <2>1. CASE CopyConnections(t) \/ \E c \in Streams : Write(t, c)
      BY <1>0, <2>1 DEF CopyConnections, Write, Goes, Local
    <2>2. CASE \E c \in Streams : WriteFails(t, c)
      BY <1>0, <2>2 DEF WriteFails, Goes, Local, Jobs
    <2>3. CASE DropConnection(t)
      BY <1>0, <2>3 DEF DropConnection, Raise, Local, Jobs
    <2>4. CASE EventSent(t)
      <3>1. AfterEvent(t) \in {"upload", "delete"} /\ AfterEvent(t) = job[t].kind
        BY <1>0, <1>1 DEF AfterEvent, Purpose
      <3>2. QED
        BY <1>0, <2>4, <3>1 DEF EventSent, Goes, Local, Jobs
    <2>5. QED
      BY <2>1, <2>2, <2>3, <2>4 DEF SendEvent
  <1>4. QED
    BY <1>0, <1>1, <1>2, <1>3, IdleTask DEF Task, Purpose, Expected, Deletes, Downloads

LEMMA ProgressNext == Inv /\ Progress /\ [Next]_vars => Progress'
  <1> SUFFICES ASSUME Inv, Progress, [Next]_vars PROVE Progress'
    OBVIOUS
  <1>0. /\ TypeOK /\ Kinds /\ Typed /\ Entries /\ Mqtt \notin Threads /\ Threads \subseteq Workers
    BY LocalType, NamesAssumption DEF Inv, TypeInv, Workers
  <1>1. ASSUME NEW t \in Threads, Request(t) PROVE Progress'
    <2>1. Moves(t)
      BY <1>0, <1>1, RequestMoves
    <2>2. Task(t)'
      BY <1>1, TaskQuiet, TaskShown
    <2>3. ASSUME NEW u \in Threads \ {t} PROVE Task(u)'
      <3>1. pc'[u] = pc[u] /\ job'[u] = job[u] /\ Task(u)
        BY <1>0, <2>1 DEF Moves, Progress
      <3>2. QED
        BY <1>1, <3>1, RequestWorld, OthersKeep
    <2>4. QED
      BY <2>2, <2>3 DEF Progress
  <1>2. ASSUME NEW w \in Workers, SendEvent(w) PROVE Progress'
    <2>1. Moves(w) /\ World
      BY <1>0, <1>2, EventMoves, WorldStays DEF registryVars, dictVars
    <2>2. ASSUME NEW u \in Threads, u # w PROVE Task(u)'
      <3>1. pc'[u] = pc[u] /\ job'[u] = job[u] /\ Task(u)
        BY <1>0, <2>1, <2>2 DEF Moves, Progress
      <3>2. QED
        BY <2>1, <3>1, OthersKeep
    <2>3. w \in Threads => Task(w)'
      BY <1>2, TaskEvent
    <2>4. QED
      BY <2>2, <2>3 DEF Progress
  <1>3. CASE Messages \/ Streaming \/ UNCHANGED vars
    <2>1. /\ UNCHANGED <<slot, deleted>> /\ finished \subseteq finished'
          /\ \A u \in Threads : pc'[u] = pc[u] /\ job'[u] = job[u]
      <3>1. CASE Messages
        <4>1. Moves(Mqtt) /\ UNCHANGED <<slot, deleted>>
          BY <1>0, <3>1, MessageMoves DEF dictVars
        <4>2. finished \subseteq finished'
          BY <3>1 DEF Messages, ReceiveStatus, ReceiveResult, Receive, handle_test_status, handle_test_result,
             sharedVars, registryVars
        <4>3. QED
          BY <1>0, <4>1, <4>2 DEF Moves
      <3>2. CASE Streaming \/ UNCHANGED vars
        BY <1>0, <3>2, StreamMoves DEF vars, sharedVars, registryVars, dictVars
      <3>3. QED
        BY <1>3, <3>1, <3>2
    <2>2. World
      BY <1>0, <2>1, KnownAfter DEF World
    <2>3. QED
      BY <2>1, <2>2, OthersKeep DEF Progress
  <1>4. QED
    BY <1>1, <1>2, <1>3, NextSteps

\* A request that is answered with OK has done all of what it was asked for when it began, but
\* for a download that scenarios were added to (module.py: the handlers of routes).
THEOREM OkMeansDoneCorrect == Spec => []OkMeansDone
  <1>1. Inv /\ Progress => OkMeansDone
    BY DEF Progress, Task, Purpose, Expected, Deletes, Downloads, OkMeansDone
  <1>2. (Inv /\ Progress) /\ [Next]_vars => (Inv /\ Progress)'
    BY InvNext, ProgressNext
  <1>3. Init => Inv /\ Progress
    BY InvInit, ProgressInit
  <1>4. QED
    BY <1>1, <1>2, <1>3, PTL DEF Spec

===============================================================================
