--------------------------------- MODULE Cluster ---------------------------------
(***************************************************************************)
(* The cluster as its users see it: requests to the dashboard API that run *)
(* a real job (dashboard/api/main.go), the coordinator's upload and        *)
(* dispatch passes for a trigger and for the ticker (mrp/coordinator.go),  *)
(* the master's choice of workers by plugin and its result file            *)
(* (mrp/master.go).  A request uploads one file, under a handle of its     *)
(* own, triggers processing with its plugin and polls for the result.  A   *)
(* pass takes every uploaded handle, whoever uploaded it.                  *)
(* What DurableBuffer, JobDispatch and Worker have in detail is one step   *)
(* here: an upload pass, and the submissions of a dispatched job, in       *)
(* whatever order, with their collation.  The five-minute TTL of the       *)
(* processing registry is left to JobDispatch.                             *)
(***************************************************************************)
EXTENDS Selection

CONSTANTS Jobs,         \* requests; each has one handle, of the same name
          Plugins,
          PluginOf,     \* the plugin that each request asks for
          Before,       \* the request before this one in a comparison, or "none"
          Workers,      \* workerAddresses: a sequence
          StartPlugin,  \* the plugin that each worker starts with
          Chunks,       \* number of chunks of a file
          MaxRuns,      \* bound: how often a handle is run, as long as it is uploaded
          MaxFaults     \* bound: refused writes, lost files, lost replies, failures,
                        \* and workers that come back with another plugin

ASSUME JobsAssumption == /\ PluginOf \in [Jobs -> Plugins]
                         /\ Before \in [Jobs -> Jobs \cup {"none"}]
                         /\ "none" \notin Jobs \cup Plugins /\ "ticker" \notin Jobs
\* /api/compare goes through the plugins of its request one after the other.
ASSUME TurnsAssumption ==
    \E turn \in [Jobs -> 1 .. Cardinality(Jobs)] :
       \A j, k \in Jobs : /\ turn[j] = turn[k] => j = k
                          /\ Before[j] = "none" <=> turn[j] = 1
                          /\ Before[j] = k => turn[k] = turn[j] - 1
ASSUME SizesAssumption == /\ Len(Workers) > 0 /\ Chunks \in Nat \ {0}
                          /\ MaxFaults \in Nat /\ MaxRuns \in [Jobs -> Nat]

Worker == {Workers[k] : k \in 1 .. Len(Workers)}
ASSUME WorkersAssumption == Workers \in Seq(Worker) /\ StartPlugin \in [Worker -> Plugins]

Pass == Jobs \cup {"ticker"}    \* a trigger's handler is named after its request

VARIABLES
  compare,    \* whether the requests are the turns of one /api/compare
  pc,         \* where each request is
  complete,   \* d.handles: complete, to be uploaded
  lost,       \* complete handles that have no .dlog file
  uploaded,   \* d.uploadedHandles
  processing, \* d.processingHandles
  step,       \* where each pass is
  todo,       \* the handles it has still to dispatch
  reply,      \* Status of a trigger, once it is set
  plugin,     \* the plugin that each worker has loaded
  cache,      \* m.workerPlugins
  running,    \* the runs that the master has started, by handle
  results,    \* m.results: the last output of every chunk, by handle
  result,     \* the result file of each handle
  runs,       \* how often the master has accepted each handle
  dropped,    \* history: requests whose call to the coordinator broke off
  faults      \* how much of the bound is used

dashboard == <<compare, pc, dropped>>
registry == <<complete, lost, uploaded, processing>>
passes == <<step, todo, reply>>
master == <<cache, running, results, result, runs>>
vars == <<dashboard, registry, passes, plugin, master, faults>>

\* The output of one chunk: the plugin of the worker that it was sent to, the pass
\* that dispatched it, and whether the master had an old plugin for the worker.
Part == [plugin : Plugins \cup {"none"}, by : Pass, stale : BOOLEAN]
NoPart == [plugin |-> "none", by |-> "ticker", stale |-> FALSE]

\* A run, what the master has of it, a result file.
Chunk == 0 .. Chunks - 1
Run == [Chunk -> Part]
NoRun == [c \in Chunk |-> NoPart]

Fault == faults < MaxFaults /\ faults' = faults + 1

Init == /\ compare \in BOOLEAN
        /\ pc = [j \in Jobs |-> "idle"]
        /\ complete = {} /\ lost = {} /\ uploaded = {} /\ processing = {}
        /\ step = [p \in Pass |-> IF p \in Jobs THEN "idle" ELSE "upload"]
        /\ todo = [p \in Pass |-> {}]
        /\ reply = [j \in Jobs |-> "none"]
        /\ plugin = StartPlugin /\ cache = [w \in Worker |-> "none"]
        /\ running = [j \in Jobs |-> NoRun] /\ results = [j \in Jobs |-> NoRun]
        /\ result = [j \in Jobs |-> NoRun] /\ runs = [j \in Jobs |-> 0]
        /\ dropped = {} /\ faults = 0

Ended(j) == pc[j] \in {"real", "failed"}

(* ------------------------------ The dashboard ------------------------------ *)

\* Mutation of Request: /api/compare runs its plugins side by side.
RequestAtOnce(j) ==
    /\ pc[j] = "idle"
    /\ pc' = [pc EXCEPT ![j] = "upload"]
    /\ UNCHANGED <<compare, dropped, registry, passes, plugin, master, faults>>

\* handleSimulate, or the turn of this plugin in handleCompare: runRealJob
\* starts, if the coordinator answers rpcPing.
Request(j) ==
    /\ pc[j] = "idle"
    /\ compare /\ Before[j] # "none" => Ended(Before[j])
    /\ pc' = [pc EXCEPT ![j] = "upload"]
    /\ UNCHANGED <<compare, dropped, registry, passes, plugin, master, faults>>

\* uploadFilesToCoordinator.  The Status of the replies is not looked at: when
\* the last chunk is refused the handle is never complete.  A handle that
\* expires before its chunks are flushed is complete and has no file.
UploadFile(j) ==
    /\ pc[j] = "upload"
    /\ \/ /\ pc' = [pc EXCEPT ![j] = "trigger"]
          /\ complete' = complete \cup {j}
          /\ UNCHANGED <<lost, faults>>
       \/ /\ Fault
          /\ pc' = [pc EXCEPT ![j] = "trigger"]
          /\ UNCHANGED <<complete, lost>>
       \/ /\ Fault
          /\ pc' = [pc EXCEPT ![j] = "trigger"]
          /\ complete' = complete \cup {j} /\ lost' = lost \cup {j}
       \/ /\ Fault
          /\ pc' = [pc EXCEPT ![j] = "failed"]
          /\ UNCHANGED <<complete, lost>>
    /\ UNCHANGED <<compare, dropped, uploaded, processing, passes, plugin, master>>

CallTrigger(j) ==
    /\ pc[j] = "trigger"
    /\ pc' = [pc EXCEPT ![j] = "called"]
    /\ step' = [step EXCEPT ![j] = "upload"]
    /\ UNCHANGED <<compare, dropped, registry, todo, reply, plugin, master, faults>>

\* The call breaks off; its handler goes on.
CallLost(j) ==
    /\ pc[j] = "called" /\ Fault
    /\ pc' = [pc EXCEPT ![j] = "failed"]
    /\ dropped' = dropped \cup {j}
    /\ UNCHANGED <<compare, registry, passes, plugin, master>>

CallReturns(j) ==
    /\ pc[j] = "called" /\ reply[j] # "none"
    /\ pc' = [pc EXCEPT ![j] = IF reply[j] = "success" THEN "poll" ELSE "failed"]
    /\ UNCHANGED <<compare, dropped, registry, passes, plugin, master, faults>>

\* pollForResults: RPCGetJobResult finds the result file, which ends the poll,
\* whether or not the dashboard can decode it.
Poll(j) ==
    /\ pc[j] = "poll" /\ result[j] # NoRun
    /\ pc' = [pc EXCEPT ![j] = "real"]
    /\ UNCHANGED <<compare, dropped, registry, passes, plugin, master, faults>>

\* Mutation of PollTimeout: only a request that has been dispatched gives up.
PollTimeoutRunning(j) ==
    /\ pc[j] = "poll" /\ runs[j] > 0
    /\ pc' = [pc EXCEPT ![j] = "failed"]
    /\ UNCHANGED <<compare, dropped, registry, passes, plugin, master, faults>>

\* The deadline of 120 seconds.  The answer is an error or a simulation.
PollTimeout(j) ==
    /\ pc[j] = "poll"
    /\ pc' = [pc EXCEPT ![j] = "failed"]
    /\ UNCHANGED <<compare, dropped, registry, passes, plugin, master, faults>>

(* --------------------- Upload and dispatch passes: p ----------------------- *)

\* The end of a pass: a trigger answers, the ticker waits for its next tick.
Leave(p, status) ==
    /\ step' = [step EXCEPT ![p] = IF p \in Jobs THEN "idle" ELSE "upload"]
    /\ reply' = IF p \in Jobs THEN [reply EXCEPT ![p] = status] ELSE reply

\* Mutation of Upload: handles that are uploaded stay among the complete ones.
UploadKeeps(bad) ==
    /\ lost \cap complete \subseteq bad /\ bad \subseteq complete
    /\ IF bad \subseteq lost THEN UNCHANGED faults ELSE Fault
    /\ uploaded' = uploaded \cup (complete \ bad)
    /\ UNCHANGED complete

\* The upload of what is complete, save for the handles of one set: of these
\* the upload fails, for lost ones in every pass.
Upload(bad) ==
    /\ lost \cap complete \subseteq bad /\ bad \subseteq complete
    /\ IF bad \subseteq lost THEN UNCHANGED faults ELSE Fault
    /\ uploaded' = uploaded \cup (complete \ bad)
    /\ complete' = bad

\* Mutation of UploadPass: an error also ends the pass of the ticker.
UploadPassStops(p) ==
    /\ step[p] = "upload"
    /\ \E bad \in SUBSET complete :
          /\ Upload(bad)
          /\ \/ bad # {} /\ Leave(p, "error")
             \/ bad = {} /\ step' = [step EXCEPT ![p] = "claim"] /\ UNCHANGED reply
    /\ UNCHANGED <<dashboard, lost, processing, todo, plugin, master>>

\* uploadFileToStorage, under uploadMu.  After an error RPCTriggerProcessing
\* returns; the ticker only logs it.
UploadPass(p) ==
    /\ step[p] = "upload"
    /\ \E bad \in SUBSET complete :
          /\ Upload(bad)
          /\ \/ p \in Jobs /\ bad # {} /\ Leave(p, "error")
             \/ /\ p \in Jobs => bad = {}
                /\ step' = [step EXCEPT ![p] = "claim"] /\ UNCHANGED reply
    /\ UNCHANGED <<dashboard, lost, processing, todo, plugin, master>>

\* startMapReduce: GetUploadedHandles claims every handle that nobody has.
Claim(p) ==
    /\ step[p] = "claim"
    /\ todo' = [todo EXCEPT ![p] = {h \in uploaded \ processing : runs[h] < MaxRuns[h]}]
    /\ processing' = processing \cup todo'[p]
    /\ step' = [step EXCEPT ![p] = "dispatch"]
    /\ UNCHANGED <<dashboard, complete, lost, uploaded, reply, plugin, master, faults>>

PassEnds(p) ==
    /\ step[p] \in {"dispatch", "dispatch_error"} /\ todo[p] = {}
    /\ Leave(p, IF step[p] = "dispatch" THEN "success" ELSE "error")
    /\ UNCHANGED <<dashboard, registry, todo, plugin, master, faults>>

(* -------------------------------- The master ------------------------------- *)

\* Mutation of getWorkersForPlugin: a worker of unknown plugin will do.
WorkersPerhaps(q) ==
    Selected(Workers, {k \in 1 .. Len(Workers) : cache'[Workers[k]] \in {q, "none"}})

\* The workers that the master thinks have plugin q.
getWorkersForPlugin(q) ==
    Selected(Workers, {k \in 1 .. Len(Workers) : cache'[Workers[k]] = q})

\* It asks a worker for its plugin until it has got an answer, never again.
Probe(silent) ==
    cache' = [w \in Worker |-> IF cache[w] = "none" /\ w \notin silent THEN plugin[w]
                                                                       ELSE cache[w]]

\* The run of a job on the workers of a non-empty sequence, one for each chunk.
RunOn(targets, p) ==
    [c \in Chunk |->
       LET w == targets[(c % Len(targets)) + 1]
       IN  [plugin |-> plugin[w], by |-> p,
            stale |-> p # "ticker" /\ cache'[w] \notin {"none", plugin[w]}]]

\* runMapReduceForHandle and RPCStartMapReduce.  The ticker names no plugin, and
\* any worker will do.  When the job cannot be started the handle is released.
Dispatch(p) ==
    /\ step[p] \in {"dispatch", "dispatch_error"}
    /\ \E h \in todo[p], silent \in SUBSET {w \in Worker : cache[w] = "none"} :
          LET targets == IF p = "ticker" THEN Workers ELSE getWorkersForPlugin(PluginOf[p])
          IN  /\ IF p = "ticker" THEN silent = {} /\ UNCHANGED cache ELSE Probe(silent)
              /\ todo' = [todo EXCEPT ![p] = @ \ {h}]
              /\ \/ /\ Len(targets) > 0
                    /\ running' = [running EXCEPT ![h] = RunOn(targets, p)]
                    /\ runs' = [runs EXCEPT ![h] = @ + 1]
                    /\ IF silent = {} THEN UNCHANGED faults ELSE Fault
                    /\ UNCHANGED <<processing, step>>
                 \/ /\ IF Len(targets) = 0 /\ silent = {} THEN UNCHANGED faults ELSE Fault
                    /\ processing' = processing \ {h}
                    /\ step' = [step EXCEPT ![p] = "dispatch_error"]
                    /\ UNCHANGED <<running, runs>>
    /\ UNCHANGED <<dashboard, complete, lost, uploaded, reply, plugin, results, result>>

\* m.results for h when the outputs of some chunks of its run are submitted: they
\* replace those of earlier runs, which are never dropped.
Stored(h, cs) == [c \in Chunk |-> IF c \in cs THEN running[h][c] ELSE results[h][c]]

Missing(h) == {c \in Chunk : results[h][c] = NoPart}

\* RPCSubmitMapReduceResult for the chunks of a run, in any order.  With the
\* submission after which no chunk is missing, the first one if an earlier run has
\* left them all, what there is goes to the result file, over an earlier one, and
\* RPCNotifyJobComplete releases the handle, which stays in uploadedHandles.  The
\* submissions after it are only stored; some workers may fail before theirs.
RunEnds(h) ==
    /\ running[h] # NoRun
    /\ \E first, all \in (SUBSET Chunk) \ {{}} :
          /\ first \subseteq all
          /\ Missing(h) \subseteq first /\ (Missing(h) = {} => Cardinality(first) = 1)
          /\ result' = [result EXCEPT ![h] = Stored(h, first)]
          /\ results' = [results EXCEPT ![h] = Stored(h, all)]
          /\ IF all = Chunk THEN UNCHANGED faults ELSE Fault
    /\ running' = [running EXCEPT ![h] = NoRun]
    /\ processing' = processing \ {h}
    /\ UNCHANGED <<dashboard, complete, lost, uploaded, passes, plugin, cache, runs>>

\* Workers fail, or the result file cannot be written; what has been submitted
\* stays.  The handle is released when its TTL runs out.
RunFails(h) ==
    /\ running[h] # NoRun /\ Fault
    /\ \E some \in SUBSET Chunk : results' = [results EXCEPT ![h] = Stored(h, some)]
    /\ running' = [running EXCEPT ![h] = NoRun]
    /\ processing' = processing \ {h}
    /\ UNCHANGED <<dashboard, complete, lost, uploaded, passes, plugin, cache, result, runs>>

\* A worker is started again with another MAPREDUCE_PLUGIN_PATH.
WorkerRestart(w) ==
    /\ Fault
    /\ \E q \in Plugins \ {plugin[w]} : plugin' = [plugin EXCEPT ![w] = q]
    /\ UNCHANGED <<dashboard, registry, passes, master>>

(* ------------------------------------------------------------------------ *)

Dashboard(j) == UploadFile(j) \/ CallTrigger(j) \/ CallReturns(j) \/ Poll(j) \/ PollTimeout(j)
PassStep(p) == UploadPass(p) \/ Claim(p) \/ Dispatch(p) \/ PassEnds(p)

Next == \/ \E j \in Jobs : Request(j) \/ Dashboard(j) \/ CallLost(j)
        \/ \E p \in Pass : PassStep(p)
        \/ \E h \in Jobs : RunEnds(h) \/ RunFails(h)
        \/ \E w \in Worker : WorkerRestart(w)

Spec == Init /\ [][Next]_vars

\* The goroutines of the dashboard and the coordinator go on and the poll ticker
\* keeps firing; nobody has to make a request, and no run has to end.
FairSpec == /\ Spec
            /\ \A j \in Jobs : WF_vars(Dashboard(j))
            /\ \A p \in Pass : WF_vars(PassStep(p))

(* ------------------------------ Properties ------------------------------ *)

\* Type invariant; a handle is complete or uploaded, not both.
TypeOK ==
    /\ compare \in BOOLEAN
    /\ pc \in [Jobs -> {"idle", "upload", "trigger", "called", "poll", "real", "failed"}]
    /\ dropped \subseteq Jobs
    /\ complete \subseteq Jobs \ uploaded /\ lost \subseteq complete
    /\ uploaded \subseteq Jobs /\ processing \subseteq uploaded
    /\ step \in [Pass -> {"idle", "upload", "claim", "dispatch", "dispatch_error"}]
    /\ todo \in [Pass -> SUBSET Jobs]
    /\ reply \in [Jobs -> {"none", "success", "error"}]
    /\ plugin \in [Worker -> Plugins] /\ cache \in [Worker -> Plugins \cup {"none"}]
    /\ running \in [Jobs -> Run] /\ results \in [Jobs -> Run] /\ result \in [Jobs -> Run]
    /\ runs \in [Jobs -> Nat]
    /\ faults \in 0 .. MaxFaults

\* The result that the poll of a request finds was computed with its plugin on
\* every chunk, also where the master has kept a chunk of an earlier run.  The
\* exceptions, chunk by chunk: it was dispatched by the ticker, which names no
\* plugin, or by the trigger of a request for another plugin, or the worker has
\* changed its plugin since the master asked it.
RightPlugin ==
    \A j \in Jobs : pc[j] = "poll" /\ result[j] # NoRun =>
       \A c \in Chunk :
          LET part == result[j][c]
          IN  \/ part.plugin = PluginOf[j]
              \/ part.by = "ticker"
              \/ part.by \in Jobs /\ PluginOf[part.by] # PluginOf[j]
              \/ part.stale

\* The requests that /api/compare makes for its plugins do not run each other's
\* files: every chunk of the result that a poll finds is from a run of its own
\* trigger's or the ticker's.  The exception: a call for an earlier plugin broke
\* off, and its handler was still at work.
CompareUnmixed ==
    \A j \in Jobs : compare /\ pc[j] = "poll" =>
       \A c \in Chunk : result[j][c].by \in {j, "ticker"} \cup dropped

\* A handle that can be uploaded is accepted by the master in the end, also when
\* the upload of another one fails in every pass and every trigger fails.
Dispatched == \A j \in Jobs : j \in complete \ lost ~> runs[j] > 0

\* A request is answered in the end, with a result or without, also when the
\* coordinator has refused its file.
Answered == \A j \in Jobs : pc[j] = "upload" ~> Ended(j)

\* The result that the poll of a request finds was computed with its plugin.
PluginRouting ==
    \A j \in Jobs : pc[j] = "poll" /\ result[j] # NoRun =>
       \A c \in Chunk : result[j][c].plugin = PluginOf[j]
===============================================================================
