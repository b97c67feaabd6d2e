------------------------------ MODULE JobDispatch ------------------------------
(***************************************************************************)
(* From an uploaded handle to its result file: the dispatch half of        *)
(* mrp/coordinator.go with the processing registry of                      *)
(* mrp/durable_buffer.go, mrp/master.go, and the workers as the master     *)
(* sees them.                                                              *)
(*   - Dispatchers run startMapReduce: the poll ticker, and a goroutine    *)
(*     per RPCTriggerProcessing; no lock keeps them apart.                 *)
(*   - The master starts a task per chunk of the file and collates the     *)
(*     results when all have been submitted.  It knows a job by the Id of  *)
(*     its handle, without the timestamp.                                  *)
(*   - A worker runs a task and submits its result, or fails silently.     *)
(* A result is represented by the handle whose file it was computed from.  *)
(***************************************************************************)
EXTENDS Integers, FiniteSets

CONSTANTS MaxHandle,    \* bound: handles uploaded in a behaviour
          Chunks,       \* DFS chunks of a file
          Dispatchers,  \* goroutines that may be inside startMapReduce
          MaxRunning,   \* bound: tasks of one chunk running at a time
          MaxFails,     \* bound: RPCs that fail and tasks that end without a result
          MaxRestarts   \* bound: crashes of the coordinator

ASSUME SizesAssumption == /\ MaxHandle \in Nat /\ Chunks \in Nat \ {0}
                          /\ MaxRunning \in Nat \ {0}
ASSUME BoundsAssumption == MaxFails \in Nat /\ MaxRestarts \in Nat

Handle == 1 .. MaxHandle
Id == 1 .. MaxHandle
NoHandle == 0
Chunk == 1 .. Chunks
Task == Handle \X Chunk

\* The content of a result file: the pairs <<chunk, handle>> it collates.
Absent == {<<0, 0>>}
Empty == {}
Torn == {<<0, 1>>}

VARIABLES
  issued, nextHandle, idOf,  \* handles generated, d.nextHandle, their Id fields
  uploaded,    \* keys of d.uploadedHandles
  processing,  \* d.processingHandles: "none", "fresh", or "stale" past the TTL
  dpc,         \* where each dispatcher is in startMapReduce
  todo,        \* the handles GetUploadedHandles has still to look at
  list,        \* the handles it returned that are still to be dispatched
  cur,         \* the handle the dispatcher is working on
  left,        \* RPCStartMapReduce: the chunks still to be dispatched
  ok,          \* RPCStartMapReduce: whether a dispatch has succeeded
  jobs,        \* m.jobs: expectedChunks of a tracked job, or 0
  results,     \* m.results: for an Id and a chunk the handle submitted, or NoHandle
  running,     \* the number of tasks of each chunk that workers are running
  spc,         \* where each submission is in RPCSubmitMapReduceResult
  payload,     \* what the submission has collated
  fd,          \* the file its open file has become: the .tmp, the result, or neither
  tmp, result, \* the .tmp and the result file of each Id
  hist,        \* history: pairs of a handle and what has happened to it
  fails, restarts            \* how much of each bound is used

coord == <<issued, nextHandle, idOf, uploaded>>
start == <<todo, list, cur, left, ok>>
submit == <<spc, payload, fd>>
files == <<tmp, result>>
vars == <<coord, processing, dpc, start, jobs, results, running, submit, files,
          hist, fails, restarts>>

Init == /\ issued = 0 /\ nextHandle = 0 /\ idOf = [h \in Handle |-> 0]
        /\ uploaded = {} /\ processing = [h \in Handle |-> "none"]
        /\ dpc = [d \in Dispatchers |-> "idle"]
        /\ todo = [d \in Dispatchers |-> {}] /\ list = [d \in Dispatchers |-> {}]
        /\ cur = [d \in Dispatchers |-> NoHandle]
        /\ left = [d \in Dispatchers |-> {}] /\ ok = [d \in Dispatchers |-> FALSE]
        /\ jobs = [i \in Id |-> 0]
        /\ results = [i \in Id |-> [c \in Chunk |-> NoHandle]]
        /\ running = [t \in Task |-> 0]
        /\ spc = [t \in Task |-> "none"] /\ payload = [t \in Task |-> Empty]
        /\ fd = [t \in Task |-> "none"]
        /\ tmp = [i \in Id |-> Absent] /\ result = [i \in Id |-> Absent]
        /\ hist = {} /\ fails = 0 /\ restarts = 0

\* GetUploadedHandles returns h.
Took(h) == hist' = hist \cup {<<h, IF <<h, "taken">> \in hist THEN "again" ELSE "taken">>}
Fails == fails < MaxFails /\ fails' = fails + 1

(* ----------------------------- Coordinator ------------------------------ *)

\* A handle is generated, its file arrives and is uploaded (DurableBuffer).
HandleUploaded ==
    /\ issued < MaxHandle
    /\ issued' = issued + 1
    /\ nextHandle' = nextHandle + 1
    /\ idOf' = [idOf EXCEPT ![issued + 1] = nextHandle + 1]
    /\ uploaded' = uploaded \cup {issued + 1}
    /\ UNCHANGED <<processing, dpc, start, jobs, results, running, submit, files,
                   hist, fails, restarts>>

\* startMapReduce begins: GetUploadedHandles ranges over uploadedHandles.
StartMapReduce(d) ==
    /\ dpc[d] = "idle" /\ uploaded # {}
    /\ dpc' = [dpc EXCEPT ![d] = "scan"]
    /\ todo' = [todo EXCEPT ![d] = uploaded]
    /\ UNCHANGED <<coord, processing, list, cur, left, ok, jobs, results, running,
                   submit, files, hist, fails, restarts>>

\* Mutation of TakeFree: what LoadOrStore has found is not looked at.
TakeAny(d, h) ==
    /\ dpc[d] = "scan" /\ h \in todo[d]
    /\ processing' = [processing EXCEPT ![h] = "fresh"]
    /\ todo' = [todo EXCEPT ![d] = @ \ {h}]
    /\ list' = [list EXCEPT ![d] = @ \cup {h}]
    /\ Took(h)
    /\ UNCHANGED <<coord, dpc, cur, left, ok, jobs, results, running, submit, files,
                   fails, restarts>>

\* LoadOrStore on a handle that nobody has: take it.
TakeFree(d, h) ==
    /\ dpc[d] = "scan" /\ h \in todo[d]
    /\ processing[h] = "none"
    /\ processing' = [processing EXCEPT ![h] = "fresh"]
    /\ todo' = [todo EXCEPT ![d] = @ \ {h}]
    /\ list' = [list EXCEPT ![d] = @ \cup {h}]
    /\ Took(h)
    /\ UNCHANGED <<coord, dpc, cur, left, ok, jobs, results, running, submit, files,
                   fails, restarts>>

\* LoadOrStore finds an entry younger than the TTL: leave the handle alone.
SkipBusy(d, h) ==
    /\ dpc[d] = "scan" /\ h \in todo[d]
    /\ processing[h] = "fresh"
    /\ todo' = [todo EXCEPT ![d] = @ \ {h}]
    /\ UNCHANGED <<coord, processing, dpc, list, cur, left, ok, jobs, results, running,
                   submit, files, hist, fails, restarts>>

\* Mutation of SeeStale: the TTL is not looked at.
SkipStale(d, h) ==
    /\ dpc[d] = "scan" /\ h \in todo[d]
    /\ processing[h] = "stale"
    /\ todo' = [todo EXCEPT ![d] = @ \ {h}]
    /\ UNCHANGED <<coord, processing, dpc, list, cur, left, ok, jobs, results, running,
                   submit, files, hist, fails, restarts>>

\* LoadOrStore finds an entry past the TTL.
SeeStale(d, h) ==
    /\ dpc[d] = "scan" /\ h \in todo[d]
    /\ processing[h] = "stale"
    /\ todo' = [todo EXCEPT ![d] = @ \ {h}]
    /\ dpc' = [dpc EXCEPT ![d] = "restamp"]
    /\ cur' = [cur EXCEPT ![d] = h]
    /\ UNCHANGED <<coord, processing, list, left, ok, jobs, results, running, submit,
                   files, hist, fails, restarts>>

\* processingHandles.Store after the TTL check: not atomic with it.
Restamp(d) ==
    /\ dpc[d] = "restamp"
    /\ processing' = [processing EXCEPT ![cur[d]] = "fresh"]
    /\ list' = [list EXCEPT ![d] = @ \cup {cur[d]}]
    /\ Took(cur[d])
    /\ dpc' = [dpc EXCEPT ![d] = "scan"]
    /\ UNCHANGED <<coord, todo, cur, left, ok, jobs, results, running, submit, files,
                   fails, restarts>>

ScanDone(d) ==
    /\ dpc[d] = "scan" /\ todo[d] = {}
    /\ dpc' = [dpc EXCEPT ![d] = "next"]
    /\ UNCHANGED <<coord, processing, start, jobs, results, running, submit, files,
                   hist, fails, restarts>>

\* The loop over the handles ends.
DispatchDone(d) ==
    /\ dpc[d] = "next" /\ list[d] = {}
    /\ dpc' = [dpc EXCEPT ![d] = "idle"]
    /\ cur' = [cur EXCEPT ![d] = NoHandle]
    /\ UNCHANGED <<coord, processing, todo, list, left, ok, jobs, results, running,
                   submit, files, hist, fails, restarts>>

\* ReleaseProcessingHandle after an error of runMapReduceForHandle.
Release(d) ==
    /\ dpc[d] = "release"
    /\ processing' = [processing EXCEPT ![cur[d]] = "none"]
    /\ dpc' = [dpc EXCEPT ![d] = "next"]
    /\ UNCHANGED <<coord, start, jobs, results, running, submit, files, hist, fails,
                   restarts>>

\* Time: an entry of processingHandles outlives processingHandleTTL.
Elapse(h) ==
    /\ processing[h] = "fresh"
    /\ processing' = [processing EXCEPT ![h] = "stale"]
    /\ hist' = hist \cup {<<h, "elapsed">>}
    /\ UNCHANGED <<coord, dpc, start, jobs, results, running, submit, files, fails,
                   restarts>>

\* pruneProcessingHandles, in the monitor's cleanup.
Prune(h) ==
    /\ processing[h] = "stale"
    /\ processing' = [processing EXCEPT ![h] = "none"]
    /\ UNCHANGED <<coord, dpc, start, jobs, results, running, submit, files, hist,
                   fails, restarts>>

\* The coordinator dies and comes back: uploadedHandles is read back from disk,
\* processingHandles and nextHandle are not.  Its calls of the master are over
\* (a call the master is still serving delays the crash).
CoordRestart ==
    /\ restarts < MaxRestarts /\ restarts' = restarts + 1
    /\ \A d \in Dispatchers : dpc[d] # "call"
    /\ processing' = [h \in Handle |-> "none"]
    /\ nextHandle' = 0
    /\ dpc' = [d \in Dispatchers |-> "idle"]
    /\ todo' = [d \in Dispatchers |-> {}] /\ list' = [d \in Dispatchers |-> {}]
    /\ cur' = [d \in Dispatchers |-> NoHandle]
    /\ UNCHANGED <<issued, idOf, uploaded, left, ok, jobs, results, running, submit,
                   files, hist, fails>>

(* ---------------------- Master: RPCStartMapReduce ----------------------- *)

\* Mutation of ExpectedChunks: one chunk too many.
OneChunkMore == Chunks + 1

\* len(chunks) of the content file, the same at every dispatch (Worker has the
\* metadata file that a failing GetFile puts in its place).
ExpectedChunks == Chunks

\* runMapReduceForHandle reaches the master, which finds the file and workers
\* and records the job; or something before that fails.
CallMaster(d) ==
    /\ dpc[d] = "next"
    /\ \E h \in list[d] :
          /\ list' = [list EXCEPT ![d] = @ \ {h}]
          /\ cur' = [cur EXCEPT ![d] = h]
          /\ \/ /\ jobs' = [jobs EXCEPT ![idOf[h]] = ExpectedChunks]
                /\ left' = [left EXCEPT ![d] = Chunk]
                /\ ok' = [ok EXCEPT ![d] = FALSE]
                /\ dpc' = [dpc EXCEPT ![d] = "call"]
                /\ UNCHANGED fails
             \/ /\ Fails
                /\ dpc' = [dpc EXCEPT ![d] = "release"]
                /\ UNCHANGED <<jobs, left, ok>>
    /\ UNCHANGED <<coord, processing, todo, results, running, submit, files, hist,
                   restarts>>

\* Worker.RPCMapReduce for one chunk, from one of the concurrent goroutines: the
\* worker takes the task, or cannot be reached, or takes it and the reply is lost.
DispatchChunk(d) ==
    /\ dpc[d] = "call"
    /\ \E c \in left[d] :
          /\ left' = [left EXCEPT ![d] = @ \ {c}]
          /\ \/ /\ running[<<cur[d], c>>] < MaxRunning
                /\ running' = [running EXCEPT ![<<cur[d], c>>] = @ + 1]
                /\ \/ ok' = [ok EXCEPT ![d] = TRUE] /\ UNCHANGED fails
                   \/ Fails /\ UNCHANGED ok
             \/ Fails /\ UNCHANGED <<running, ok>>
    /\ UNCHANGED <<coord, processing, dpc, todo, list, cur, jobs, results, submit,
                   files, hist, restarts>>

\* The tally: with no chunk dispatched the job is dropped and the reply is an
\* error; "partial" and "accepted" are the same to the coordinator.  When the
\* reply is lost the coordinator takes it for an error and the job runs on.
CallReturns(d) ==
    /\ dpc[d] = "call" /\ left[d] = {}
    /\ \/ /\ ok[d]
          /\ dpc' = [dpc EXCEPT ![d] = "next"]
          /\ UNCHANGED <<jobs, fails>>
       \/ /\ ok[d] /\ Fails
          /\ dpc' = [dpc EXCEPT ![d] = "release"]
          /\ UNCHANGED jobs
       \/ /\ ~ok[d]
          /\ jobs' = [jobs EXCEPT ![idOf[cur[d]]] = 0]
          /\ dpc' = [dpc EXCEPT ![d] = "release"]
          /\ UNCHANGED fails
    /\ UNCHANGED <<coord, processing, start, results, running, submit, files, hist,
                   restarts>>

(* ------------------------------- Workers -------------------------------- *)

\* A task fails, or its worker crashes or cannot submit: nobody is told.
TaskLost(t) ==
    /\ running[t] > 0
    /\ running' = [running EXCEPT ![t] = @ - 1]
    /\ Fails
    /\ UNCHANGED <<coord, processing, dpc, start, jobs, results, submit, files, hist,
                   restarts>>

(* ------------------ Master: RPCSubmitMapReduceResult -------------------- *)

\* The results of an Id, as the pairs that go into its result file.
Collated(rs) == {<<c, rs[c]>> : c \in {k \in Chunk : rs[k] # NoHandle}}

\* Mutation of AllReceived: off by one.
AllButOne(received, expected) == received + 1 >= expected

\* Whether the results of a job are all there.
AllReceived(received, expected) == received >= expected

\* The part under resultMux: store the result; if the job is tracked and has
\* enough results, collect them.
Submit(t) ==
    LET i == idOf[t[1]]
        rs == [results[i] EXCEPT ![t[2]] = t[1]]
        complete == jobs[i] # 0 /\ AllReceived(Cardinality(Collated(rs)), jobs[i])
    IN  /\ running[t] > 0 /\ spc[t] = "none"
        /\ running' = [running EXCEPT ![t] = @ - 1]
        /\ results' = [results EXCEPT ![i] = rs]
        /\ spc' = [spc EXCEPT ![t] = IF complete THEN "create" ELSE "none"]
        /\ payload' = [payload EXCEPT ![t] = IF complete THEN Collated(rs) ELSE Empty]
        /\ UNCHANGED <<coord, processing, dpc, start, jobs, fd, files, hist, fails,
                       restarts>>

\* os.Create on the .tmp file: an existing one is truncated and shared.  If it
\* cannot be created the reply is an error and the results stay where they are.
CreateTmp(t) ==
    /\ spc[t] = "create"
    /\ \/ /\ spc' = [spc EXCEPT ![t] = "encode"]
          /\ fd' = [fd EXCEPT ![t] = "tmp"]
          /\ tmp' = [tmp EXCEPT ![idOf[t[1]]] = Empty]
          /\ UNCHANGED <<payload, fails>>
       \/ /\ Fails
          /\ spc' = [spc EXCEPT ![t] = "none"]
          /\ payload' = [payload EXCEPT ![t] = Empty]
          /\ UNCHANGED <<fd, tmp>>
    /\ UNCHANGED <<coord, processing, dpc, start, jobs, results, running, result, hist,
                   restarts>>

\* What a file may hold after p is written from its beginning.  No two payloads
\* have the same bytes, or surely the same length: of an older and longer one
\* the tail stays.
Written(old, p) == IF old = Empty THEN {p} ELSE {p, Torn}

\* What it may hold after a write that has failed, with a part of p or without.
WrittenInPart(old) == {old, Torn}

\* The payload goes into the file that t has open, if it still has a name.
WriteOpenFile(t, how) ==
    LET i == idOf[t[1]]
        after(old) == IF how = "whole" THEN Written(old, payload[t]) ELSE WrittenInPart(old)
    IN  \/ /\ fd[t] = "tmp"
           /\ \E c \in after(tmp[i]) : tmp' = [tmp EXCEPT ![i] = c]
           /\ UNCHANGED result
        \/ /\ fd[t] = "result"
           /\ \E c \in after(result[i]) : result' = [result EXCEPT ![i] = c]
           /\ UNCHANGED tmp
        \/ fd[t] = "none" /\ UNCHANGED files

\* encoder.Encode, to whatever the open file has become meanwhile.
Encode(t) ==
    /\ spc[t] = "encode"
    /\ fd' = [fd EXCEPT ![t] = "none"]
    /\ \/ /\ spc' = [spc EXCEPT ![t] = "rename"]
          /\ WriteOpenFile(t, "whole")
          /\ UNCHANGED fails
       \/ /\ Fails
          /\ spc' = [spc EXCEPT ![t] = "discard"]
          /\ WriteOpenFile(t, "part")
    /\ UNCHANGED <<coord, processing, dpc, start, jobs, results, running, payload, hist,
                   restarts>>

\* os.Rename: whoever still has the .tmp file open now has the result file open.
Rename(t) ==
    LET i == idOf[t[1]]
        moved(u) == IF idOf[u[1]] # i THEN fd[u]
                    ELSE IF fd[u] = "tmp" THEN "result" ELSE "none"
    IN  /\ spc[t] = "rename" /\ tmp[i] # Absent
        /\ result' = [result EXCEPT ![i] = tmp[i]]
        /\ tmp' = [tmp EXCEPT ![i] = Absent]
        /\ fd' = [u \in Task |-> moved(u)]
        /\ spc' = [spc EXCEPT ![t] = "untrack"]
        /\ UNCHANGED <<coord, processing, dpc, start, jobs, results, running, payload,
                       hist, fails, restarts>>

\* os.Rename after another submission has renamed or removed the .tmp file, or
\* with an error of its own.
RenameFails(t) ==
    /\ spc[t] = "rename"
    /\ IF tmp[idOf[t[1]]] = Absent THEN UNCHANGED fails ELSE Fails
    /\ spc' = [spc EXCEPT ![t] = "discard"]
    /\ UNCHANGED <<coord, processing, dpc, start, jobs, results, running, payload, fd,
                   files, hist, restarts>>

\* os.Remove on the .tmp file after an error, whoever has it open by now; the
\* reply is an error and the job stays tracked.
Discard(t) ==
    LET i == idOf[t[1]]
        unlinked(u) == IF idOf[u[1]] = i /\ fd[u] = "tmp" THEN "none" ELSE fd[u]
    IN  /\ spc[t] = "discard"
        /\ tmp' = [tmp EXCEPT ![i] = Absent]
        /\ fd' = [u \in Task |-> unlinked(u)]
        /\ spc' = [spc EXCEPT ![t] = "none"]
        /\ payload' = [payload EXCEPT ![t] = Empty]
        /\ UNCHANGED <<coord, processing, dpc, start, jobs, results, running, result,
                       hist, fails, restarts>>

\* delete(m.jobs, id).
Untrack(t) ==
    /\ spc[t] = "untrack"
    /\ jobs' = [jobs EXCEPT ![idOf[t[1]]] = 0]
    /\ spc' = [spc EXCEPT ![t] = "notify"]
    /\ payload' = [payload EXCEPT ![t] = Empty]
    /\ UNCHANGED <<coord, processing, dpc, start, results, running, fd, files, hist,
                   fails, restarts>>

\* notifyCoordinator: RPCNotifyJobComplete releases the handle, or is not reached.
Notify(t) ==
    /\ spc[t] = "notify"
    /\ spc' = [spc EXCEPT ![t] = "none"]
    /\ \/ processing' = [processing EXCEPT ![t[1]] = "none"] /\ UNCHANGED fails
       \/ Fails /\ UNCHANGED processing
    /\ UNCHANGED <<coord, dpc, start, jobs, results, running, payload, fd, files, hist,
                   restarts>>

(* ------------------------------------------------------------------------ *)

Scan(d) == \E h \in Handle : TakeFree(d, h) \/ SkipBusy(d, h) \/ SeeStale(d, h)

Dispatch(d) == \/ Scan(d) \/ Restamp(d) \/ ScanDone(d) \/ DispatchDone(d)
               \/ CallMaster(d) \/ DispatchChunk(d) \/ CallReturns(d) \/ Release(d)

Collate(t) == CreateTmp(t) \/ Encode(t) \/ Rename(t) \/ RenameFails(t)
              \/ Discard(t) \/ Untrack(t) \/ Notify(t)

Next == \/ HandleUploaded \/ CoordRestart
        \/ \E d \in Dispatchers : StartMapReduce(d) \/ Dispatch(d)
        \/ \E h \in Handle : Elapse(h) \/ Prune(h)
        \/ \E t \in Task : TaskLost(t) \/ Submit(t) \/ Collate(t)

Spec == Init /\ [][Next]_vars

\* The goroutines run, the ticker fires, the tasks that do not fail end, and
\* time passes.  A submission that again and again finds the .tmp file in place
\* when it writes, and whole when it renames, does so once: for it never to,
\* another submission of the same handle would have to remove or overwrite the
\* file between two system calls of this one every time.
FairSpec == /\ Spec
            /\ \A d \in Dispatchers : WF_vars(StartMapReduce(d)) /\ WF_vars(Dispatch(d))
            /\ \A h \in Handle : WF_vars(Elapse(h))
            /\ \A t \in Task : WF_vars(Submit(t)) /\ WF_vars(Collate(t))
            /\ \A t \in Task : /\ SF_vars(fd[t] = "tmp" /\ Encode(t))
                              /\ SF_vars(Rename(t) /\ tmp[idOf[t[1]]] = payload[t])

(* ------------------------------ Properties ------------------------------ *)

\* Type invariant.
Content == SUBSET ((0 .. Chunks) \X (0 .. MaxHandle))
TypeOK ==
    /\ issued \in 0 .. MaxHandle /\ nextHandle \in 0 .. MaxHandle
    /\ idOf \in [Handle -> 0 .. MaxHandle] /\ uploaded \subseteq Handle
    /\ processing \in [Handle -> {"none", "fresh", "stale"}]
    /\ dpc \in [Dispatchers -> {"idle", "scan", "restamp", "next", "call", "release"}]
    /\ todo \in [Dispatchers -> SUBSET Handle] /\ list \in [Dispatchers -> SUBSET Handle]
    /\ cur \in [Dispatchers -> 0 .. MaxHandle]
    /\ left \in [Dispatchers -> SUBSET Chunk] /\ ok \in [Dispatchers -> BOOLEAN]
    /\ jobs \in [Id -> {0, Chunks}] /\ results \in [Id -> [Chunk -> 0 .. MaxHandle]]
    /\ running \in [Task -> 0 .. MaxRunning]
    /\ spc \in [Task -> {"none", "create", "encode", "rename", "discard", "untrack",
                      "notify"}]
    /\ payload \in [Task -> Content]
    /\ fd \in [Task -> {"none", "tmp", "result"}]
    /\ tmp \in [Id -> Content] /\ result \in [Id -> Content]
    /\ hist \subseteq Handle \X {"taken", "again", "elapsed"}
    /\ fails \in 0 .. MaxFails /\ restarts \in 0 .. MaxRestarts

\* The result file of a handle once it is finished.
Complete(h) == {<<c, h>> : c \in Chunk}

\* The handles a dispatcher has taken and is not done with.
Holds(d, h) == h \in list[d] \/ (cur[d] = h /\ dpc[d] \in {"call", "release"})

\* No two dispatchers work on one handle, unless its TTL has run out or its job
\* has come to an end.
OneDispatcher ==
    \A h \in Handle : \A d, e \in Dispatchers :
       Holds(d, h) /\ Holds(e, h) /\ d # e => <<h, "elapsed">> \in hist \/ result[idOf[h]] # Absent

\* A result file is only ever published with all the chunks of its handle and
\* none of another.  The exception: of a handle that was dispatched more than
\* once two submissions may share the .tmp file, and the result may be seen
\* truncated, or torn between their payloads.
ResultSound ==
    \A h \in uploaded : \/ result[idOf[h]] \in {Absent, Complete(h)}
                        \/ result[idOf[h]] \in {Empty, Torn} /\ <<h, "again">> \in hist

\* A result file holds the results of one handle.
ResultUnmixed == \A i \in Id : Cardinality({p[2] : p \in result[i]}) <= 1

\* Every uploaded handle has its result in the end.
Finishes == \A h \in Handle : 
    h \in uploaded ~> h \in uploaded /\ result[idOf[h]] = Complete(h)
===============================================================================
