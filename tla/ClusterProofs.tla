----------------------------- MODULE ClusterProofs -----------------------------
(***************************************************************************)
(* Proofs about Cluster, for every number of requests, plugins, workers,   *)
(* chunks and faults: that its variables keep their types, that every      *)
(* chunk of a result was computed with the plugin of the request that      *)
(* dispatched it, unless the master's list of plugins was out of date, and *)
(* that the requests of one /api/compare do not run each other's files.    *)
(***************************************************************************)
EXTENDS Cluster, SelectionProofs

(* ---------------------------- The invariants ---------------------------- *)

\* The file of a request is with the coordinator only after its upload.
FreshInv == \A j \in Jobs : pc[j] \in {"idle", "upload"} => j \notin complete \cup uploaded

TypeInv == TypeOK /\ FreshInv

\* A chunk that a request has dispatched was computed with the plugin of that
\* request, unless the master had an old plugin for the worker.  It holds for what
\* is running, what the master has and the result file, of whatever run it is.
PartGood(x) == x.by = "ticker" \/ x.stale \/ x.plugin = PluginOf[x.by]
GoodInv == \A j \in Jobs : \A c \in Chunk :
              PartGood(running[j][c]) /\ PartGood(results[j][c]) /\ PartGood(result[j][c])

\* The place of each plugin in the list of a comparison.
Turn == CHOOSE turn \in [Jobs -> 1 .. Cardinality(Jobs)] :
           \A j, k \in Jobs : /\ turn[j] = turn[k] => j = k
                              /\ Before[j] = "none" <=> turn[j] = 1
                              /\ Before[j] = k => turn[k] = turn[j] - 1

\* Once the turn of a plugin has come, those before it have been answered.
OrderInv == compare => \A j, k \in Jobs : pc[j] # "idle" /\ Turn[k] < Turn[j] => Ended(k)

\* A trigger's pass is under way between its call and its reply, or its request
\* has lost the call; it holds handles only while it dispatches.
PassOf(k) == /\ pc[k] \in {"idle", "upload", "trigger"} => step[k] = "idle" /\ reply[k] = "none"
             /\ step[k] # "idle" => (pc[k] = "called" /\ reply[k] = "none") \/ k \in dropped
             /\ todo[k] # {} => step[k] \in {"dispatch", "dispatch_error"}
PassInv == \A k \in Jobs : PassOf(k)

\* In a comparison, until a request is answered only its own pass, the ticker's
\* and one that has been left alone can have its handle, or have run it.
Mine(j) == {j, "ticker"} \cup dropped
AloneOf(j) == /\ \A k \in Jobs : j \in todo[k] => k \in Mine(j)
              /\ \A c \in Chunk : /\ running[j][c].by \in Mine(j)
                                  /\ results[j][c].by \in Mine(j)
                                  /\ result[j][c].by \in Mine(j)
AloneInv == compare => \A j \in Jobs : ~ Ended(j) => AloneOf(j)


(* -------------------------- The choice of workers -------------------------- *)

\* The workers of a plugin are workers that the master has that plugin for.
LEMMA WorkersOf ==
  ASSUME NEW q
  PROVE  /\ getWorkersForPlugin(q) \in Seq(Worker)
         /\ \A i \in 1 .. Len(getWorkersForPlugin(q)) :
               cache'[getWorkersForPlugin(q)[i]] = q
<1> DEFINE ps == {k \in 1 .. Len(Workers) : cache'[Workers[k]] = q}
<1>1. Workers \in Seq(Worker) /\ ps \in SUBSET (1 .. Len(Workers))
  BY WorkersAssumption
<1> HIDE DEF ps
<1>2. /\ Selected(Workers, ps) \in Seq(Worker)
      /\ Len(Selected(Workers, ps)) = Cardinality(ps)
      /\ \A i \in 1 .. Cardinality(ps) : /\ Nth(ps, i) \in ps
                                         /\ Selected(Workers, ps)[i] = Workers[Nth(ps, i)]
  BY <1>1, SelectedIs
<1>3. \A k \in ps : cache'[Workers[k]] = q
  BY DEF ps
<1>4. getWorkersForPlugin(q) = Selected(Workers, ps)
  BY DEF getWorkersForPlugin, ps
<1> QED BY <1>2, <1>3, <1>4

\* Every chunk of a run is the pass's, and it is good when each of the chosen workers
\* is one that the master has the plugin of the request for.
LEMMA RunOnIs ==
  ASSUME NEW targets \in Seq(Worker), Len(targets) > 0, NEW p \in Pass,
         plugin \in [Worker -> Plugins],
         p = "ticker" \/ \A i \in 1 .. Len(targets) : cache'[targets[i]] = PluginOf[p]
  PROVE  /\ RunOn(targets, p) \in Run
         /\ \A c \in Chunk : /\ RunOn(targets, p)[c].by = p
                             /\ PartGood(RunOn(targets, p)[c])
<1> SUFFICES ASSUME NEW c \in Chunk
             PROVE  /\ RunOn(targets, p)[c] \in Part /\ RunOn(targets, p)[c].by = p
                    /\ PartGood(RunOn(targets, p)[c])
  BY DEF Run, RunOn
<1> DEFINE n == Len(targets)
           i == (c % n) + 1
           w == targets[i]
           st == p # "ticker" /\ cache'[w] \notin {"none", plugin[w]}
<1>1. RunOn(targets, p)[c] = [plugin |-> plugin[w], by |-> p, stale |-> st]
  BY DEF RunOn
<1>2. n \in Nat \ {0} /\ c \in Nat
  BY SizesAssumption DEF Chunk
<1> HIDE DEF n
<1>3. i \in 1 .. n
  BY <1>2
<1> HIDE DEF i
<1>4. w \in Worker
  BY <1>3 DEF n
<1>5. p # "ticker" => cache'[w] = PluginOf[p]
  BY <1>3 DEF n
<1> HIDE DEF w
<1>6. plugin[w] \in Plugins
  BY <1>4
<1>7. p = "ticker" \/ st \/ plugin[w] = PluginOf[p]
  <2>1. p # "ticker" => PluginOf[p] # "none"
    BY JobsAssumption DEF Pass
  <2> QED BY <1>5, <2>1
<1>8. st \in BOOLEAN
  BY Zenon
<1> HIDE DEF st
<1>9. /\ RunOn(targets, p)[c].by = p /\ RunOn(targets, p)[c].stale = st
      /\ RunOn(targets, p)[c].plugin = plugin[w]
  BY <1>1
<1>10. RunOn(targets, p)[c] \in Part
  BY <1>1, <1>6, <1>8 DEF Part
<1> QED BY <1>7, <1>8, <1>9, <1>10 DEF PartGood

\* What a dispatch of pass p does with a handle h of its list: the master runs it,
\* or it is released.
Ran(p, r) == r \in Run /\ \A c \in Chunk : r[c].by = p /\ PartGood(r[c])
Accepts(p, h) ==
    /\ running' = [running EXCEPT ![h] = running'[h]] /\ Ran(p, running'[h])
    /\ runs' = [runs EXCEPT ![h] = @ + 1] /\ UNCHANGED <<processing, step>>
Releases(p, h) ==
    /\ processing' = processing \ {h}
    /\ step' = [step EXCEPT ![p] = "dispatch_error"]
    /\ UNCHANGED <<running, runs>>

LEMMA DispatchIs ==
  ASSUME TypeOK, NEW p \in Pass, Dispatch(p)
  PROVE  /\ step[p] \in {"dispatch", "dispatch_error"}
         /\ \E h \in Jobs : /\ h \in todo[p]
                            /\ todo' = [todo EXCEPT ![p] = @ \ {h}]
                            /\ Accepts(p, h) \/ Releases(p, h)
         /\ cache' \in [Worker -> Plugins \cup {"none"}] /\ faults' \in 0 .. MaxFaults
         /\ UNCHANGED <<dashboard, complete, lost, uploaded, reply, plugin, results, result>>
<1> DEFINE targets == IF p = "ticker" THEN Workers ELSE getWorkersForPlugin(PluginOf[p])
<1>1. PICK h \in todo[p], silent \in SUBSET {w \in Worker : cache[w] = "none"} :
          /\ IF p = "ticker" THEN silent = {} /\ UNCHANGED cache ELSE Probe(silent)
          /\ todo' = [todo EXCEPT ![p] = @ \ {h}]
          /\ \/ /\ Len(targets) > 0
                /\ running' = [running EXCEPT ![h] = RunOn(targets, p)]
                /\ runs' = [runs EXCEPT ![h] = @ + 1]
                /\ IF silent = {} THEN UNCHANGED faults ELSE Fault
                /\ UNCHANGED <<processing, step>>
             \/ /\ IF Len(targets) = 0 /\ silent = {} THEN UNCHANGED faults ELSE Fault
                /\ processing' = processing \ {h}
                /\ step' = [step EXCEPT ![p] = "dispatch_error"]
                /\ UNCHANGED <<running, runs>>
  BY DEF Dispatch
<1>2. h \in Jobs
  BY <1>1 DEF TypeOK
<1>3. cache' \in [Worker -> Plugins \cup {"none"}]
  BY <1>1 DEF TypeOK, Probe
<1>4. faults' \in 0 .. MaxFaults
  BY <1>1, SizesAssumption DEF TypeOK, Fault
<1>5. targets \in Seq(Worker)
  BY WorkersAssumption, WorkersOf
<1>6. p = "ticker" \/ \A i \in 1 .. Len(targets) : cache'[targets[i]] = PluginOf[p]
  BY WorkersOf
<1> HIDE DEF targets
<1>7. Accepts(p, h) \/ Releases(p, h)
  <2>1. ASSUME Len(targets) > 0, running' = [running EXCEPT ![h] = RunOn(targets, p)]
        PROVE  running' = [running EXCEPT ![h] = running'[h]] /\ Ran(p, running'[h])
    <3>1. running'[h] = RunOn(targets, p)
      BY <1>2, <2>1 DEF TypeOK
    <3>2. plugin \in [Worker -> Plugins]
      BY DEF TypeOK
    <3>3. Ran(p, RunOn(targets, p))
      BY <1>5, <1>6, <2>1, <3>2, RunOnIs DEF Ran
    <3> QED BY <2>1, <3>1, <3>3
  <2> QED BY <1>1, <2>1 DEF Accepts, Releases
<1> QED BY <1>1, <1>2, <1>3, <1>4, <1>7 DEF Dispatch


(* --------------------------- Type correctness --------------------------- *)

LEMMA NoPartIs == NoPart \in Part /\ NoPart.by = "ticker" /\ PartGood(NoPart)
BY DEF NoPart, Part, Pass, PartGood

LEMMA NoRunType == NoRun \in Run /\ \A c \in Chunk : NoRun[c] = NoPart
BY NoPartIs DEF NoRun, Run

\* What the master has of a handle after some submissions.
LEMMA StoredIs ==
  ASSUME TypeOK, NEW h \in Jobs, NEW cs
  PROVE  /\ Stored(h, cs) \in Run
         /\ \A c \in Chunk : Stored(h, cs)[c] \in {running[h][c], results[h][c]}
<1>1. running[h] \in Run /\ results[h] \in Run
  BY DEF TypeOK
<1> QED BY <1>1 DEF Stored, Run

LEMMA TypeInit == Init => TypeInv
<1> SUFFICES ASSUME Init PROVE TypeInv
  OBVIOUS
<1>1. /\ plugin \in [Worker -> Plugins] /\ cache \in [Worker -> Plugins \cup {"none"}]
      /\ faults \in 0 .. MaxFaults
  BY WorkersAssumption, SizesAssumption DEF Init
<1>2. /\ running \in [Jobs -> Run] /\ results \in [Jobs -> Run] /\ result \in [Jobs -> Run]
      /\ runs \in [Jobs -> Nat]
  BY NoRunType DEF Init
<1>3. /\ pc \in [Jobs -> {"idle", "upload", "trigger", "called", "poll", "real", "failed"}]
      /\ step \in [Pass -> {"idle", "upload", "claim", "dispatch", "dispatch_error"}]
      /\ todo \in [Pass -> SUBSET Jobs] /\ reply \in [Jobs -> {"none", "success", "error"}]
  BY DEF Init
<1> QED BY <1>1, <1>2, <1>3 DEF TypeInv, TypeOK, FreshInv, Init

LEMMA TypeNext == TypeInv /\ [Next]_vars => TypeInv'
<1> SUFFICES ASSUME TypeInv, [Next]_vars PROVE TypeInv'
  OBVIOUS
<1> USE DEF TypeInv
<1>u. CASE UNCHANGED vars
  BY <1>u DEF vars, dashboard, registry, passes, master, TypeOK, FreshInv
<1>1. ASSUME NEW j \in Jobs, Request(j) \/ CallTrigger(j) \/ CallReturns(j) \/ Poll(j)
                             \/ PollTimeout(j)
      PROVE  TypeInv'
  <2>1. /\ pc' \in [Jobs -> {"idle", "upload", "trigger", "called", "poll", "real", "failed"}]
        /\ step' \in [Pass -> {"idle", "upload", "claim", "dispatch", "dispatch_error"}]
    BY <1>1 DEF TypeOK, Request, CallTrigger, CallReturns, Poll, PollTimeout, passes
  <2>2. /\ UNCHANGED <<compare, dropped, complete, lost, uploaded, processing, todo,
                       reply, plugin, cache, running, results, result, runs, faults>>
    BY <1>1 DEF Request, CallTrigger, CallReturns, Poll, PollTimeout, registry, passes, master
  <2>3. \A k \in Jobs : pc'[k] \in {"idle", "upload"} => pc[k] \in {"idle", "upload"}
    BY <1>1 DEF TypeOK, Request, CallTrigger, CallReturns, Poll, PollTimeout
  <2> QED BY <2>1, <2>2, <2>3 DEF TypeOK, FreshInv
<1>2. ASSUME NEW j \in Jobs, UploadFile(j) PROVE TypeInv'
  <2>1. /\ pc' \in [Jobs -> {"idle", "upload", "trigger", "called", "poll", "real", "failed"}]
        /\ \A k \in Jobs : pc'[k] \in {"idle", "upload"} =>
              k # j /\ pc[k] \in {"idle", "upload"}
    BY <1>2 DEF TypeOK, UploadFile
  <2>2. /\ complete' \in SUBSET (complete \cup {j}) /\ complete \in SUBSET complete'
        /\ lost' \in SUBSET complete' /\ j \notin uploaded
    BY <1>2 DEF TypeOK, FreshInv, UploadFile
  <2>3. faults' \in 0 .. MaxFaults
    BY <1>2, SizesAssumption DEF TypeOK, UploadFile, Fault
  <2>4. UNCHANGED <<compare, dropped, uploaded, processing, step, todo, reply, plugin,
                    cache, running, results, result, runs>>
    BY <1>2 DEF UploadFile, passes, master
  <2> QED BY <2>1, <2>2, <2>3, <2>4 DEF TypeOK, FreshInv
<1>3. ASSUME NEW j \in Jobs, CallLost(j) PROVE TypeInv'
  <2>1. /\ pc' \in [Jobs -> {"idle", "upload", "trigger", "called", "poll", "real", "failed"}]
        /\ \A k \in Jobs : pc'[k] \in {"idle", "upload"} => pc[k] \in {"idle", "upload"}
    BY <1>3 DEF TypeOK, CallLost
  <2>2. faults' \in 0 .. MaxFaults
    BY <1>3, SizesAssumption DEF TypeOK, CallLost, Fault
  <2>3. /\ dropped' = dropped \cup {j}
        /\ UNCHANGED <<compare, complete, lost, uploaded, processing, step, todo,
                       reply, plugin, cache, running, results, result, runs>>
    BY <1>3 DEF CallLost, registry, passes, master
  <2> QED BY <2>1, <2>2, <2>3 DEF TypeOK, FreshInv
<1>4. ASSUME NEW p \in Pass, UploadPass(p) PROVE TypeInv'
  <2>1. PICK bad \in SUBSET complete :
           /\ Upload(bad)
           /\ \/ p \in Jobs /\ bad # {} /\ Leave(p, "error")
              \/ step' = [step EXCEPT ![p] = "claim"] /\ UNCHANGED reply
    BY <1>4 DEF UploadPass
  <2>2. /\ step' \in [Pass -> {"idle", "upload", "claim", "dispatch", "dispatch_error"}]
        /\ reply' \in [Jobs -> {"none", "success", "error"}]
    BY <2>1 DEF TypeOK, Leave
  <2>3. faults' \in 0 .. MaxFaults
    BY <2>1, SizesAssumption DEF TypeOK, Upload, Fault
  <2>4. UNCHANGED <<compare, pc, dropped, lost, processing, todo, plugin, cache,
                    running, results, result, runs>>
    BY <1>4 DEF UploadPass, dashboard, master
  <2>5. /\ uploaded' = uploaded \cup (complete \ bad) /\ complete' = bad
        /\ lost \cap complete \subseteq bad
    BY <2>1 DEF Upload
  <2>6. /\ complete' \subseteq Jobs \ uploaded' /\ lost' \subseteq complete'
        /\ uploaded' \subseteq Jobs /\ processing' \subseteq uploaded'
        /\ complete' \cup uploaded' = complete \cup uploaded
    BY <2>4, <2>5 DEF TypeOK
  <2>7. FreshInv'
    BY <2>4, <2>6 DEF FreshInv
  <2> QED BY <2>2, <2>3, <2>4, <2>6, <2>7 DEF TypeOK
<1>5. ASSUME NEW p \in Pass, Claim(p) PROVE TypeInv'
  <2>1. /\ todo' \in [Pass -> SUBSET Jobs] /\ processing' \subseteq uploaded
        /\ step' \in [Pass -> {"idle", "upload", "claim", "dispatch", "dispatch_error"}]
    BY <1>5 DEF TypeOK, Claim
  <2>2. UNCHANGED <<compare, pc, dropped, complete, lost, uploaded, reply, plugin,
                    cache, running, results, result, runs, faults>>
    BY <1>5 DEF Claim, dashboard, master
  <2> QED BY <2>1, <2>2 DEF TypeOK, FreshInv
<1>6. ASSUME NEW p \in Pass, PassEnds(p) PROVE TypeInv'
  <2>1. /\ reply' \in [Jobs -> {"none", "success", "error"}]
        /\ step' \in [Pass -> {"idle", "upload", "claim", "dispatch", "dispatch_error"}]
    BY <1>6 DEF TypeOK, PassEnds, Leave
  <2>2. UNCHANGED <<compare, pc, dropped, complete, lost, uploaded, processing, todo,
                    plugin, cache, running, results, result, runs, faults>>
    BY <1>6 DEF PassEnds, dashboard, registry, master
  <2> QED BY <2>1, <2>2 DEF TypeOK, FreshInv
<1>7. ASSUME NEW p \in Pass, Dispatch(p) PROVE TypeInv'
  <2>1. PICK h \in Jobs : /\ todo' = [todo EXCEPT ![p] = @ \ {h}]
                          /\ Accepts(p, h) \/ Releases(p, h)
    BY <1>7, DispatchIs
  <2>2. /\ cache' \in [Worker -> Plugins \cup {"none"}] /\ faults' \in 0 .. MaxFaults
        /\ UNCHANGED <<compare, pc, dropped, complete, lost, uploaded, reply, plugin,
                       results, result>>
    BY <1>7, DispatchIs DEF dashboard
  <2>3. todo' \in [Pass -> SUBSET Jobs]
    BY <2>1 DEF TypeOK
  <2>4. /\ step' \in [Pass -> {"idle", "upload", "claim", "dispatch", "dispatch_error"}]
        /\ processing' \subseteq uploaded /\ runs' \in [Jobs -> Nat]
        /\ running' \in [Jobs -> Run]
    BY <2>1 DEF TypeOK, Accepts, Releases, Ran
  <2> QED BY <2>2, <2>3, <2>4 DEF TypeOK, FreshInv
<1>8. ASSUME NEW h \in Jobs, RunEnds(h) \/ RunFails(h) PROVE TypeInv'
  <2>1. running' \in [Jobs -> Run]
    BY <1>8, NoRunType DEF TypeOK, RunEnds, RunFails
  <2>4. results' \in [Jobs -> Run] /\ result' \in [Jobs -> Run]
    <3>1. \A cs : Stored(h, cs) \in Run
      BY StoredIs
    <3>2. (\E cs : results' = [results EXCEPT ![h] = Stored(h, cs)])
          /\ (result' = result \/ \E cs : result' = [result EXCEPT ![h] = Stored(h, cs)])
      BY <1>8 DEF RunEnds, RunFails
    <3> QED BY <3>1, <3>2 DEF TypeOK
  <2>2. faults' \in 0 .. MaxFaults
    BY <1>8, SizesAssumption DEF TypeOK, RunEnds, RunFails, Fault
  <2>3. /\ processing' = processing \ {h}
        /\ UNCHANGED <<compare, pc, dropped, complete, lost, uploaded, step, todo,
                       reply, plugin, cache, runs>>
    BY <1>8 DEF RunEnds, RunFails, dashboard, passes
  <2> QED BY <2>1, <2>2, <2>3, <2>4 DEF TypeOK, FreshInv
<1>9. ASSUME NEW w \in Worker, WorkerRestart(w) PROVE TypeInv'
  <2>1. plugin' \in [Worker -> Plugins] /\ faults' \in 0 .. MaxFaults
    BY <1>9, SizesAssumption DEF TypeOK, WorkerRestart, Fault
  <2>2. UNCHANGED <<compare, pc, dropped, complete, lost, uploaded, processing, step,
                    todo, reply, cache, running, results, result, runs>>
    BY <1>9 DEF WorkerRestart, dashboard, registry, passes, master
  <2> QED BY <2>1, <2>2 DEF TypeOK, FreshInv
<1> QED BY <1>u, <1>1, <1>2, <1>3, <1>4, <1>5, <1>6, <1>7, <1>8, <1>9
        DEF Next, Dashboard, PassStep

LEMMA TypeAlways == Spec => []TypeInv
BY TypeInit, TypeNext, PTL DEF Spec

\* The type invariant.  A handle is never complete and uploaded at once: each goes
\* from one registry to the other in a single step of one upload pass, although
\* triggers and the ticker make their passes side by side.
THEOREM TypeCorrect == Spec => []TypeOK
BY TypeAlways, PTL DEF TypeInv


(* ------------------------- The plugin of a result ------------------------- *)

\* What a step does to the parts that there are of a handle: the master takes a run
\* of a pass that has the handle, or it moves the parts about, or drops some.
Takes(j) == /\ \E p \in Pass : j \in todo[p] /\ Ran(p, running'[j])
            /\ results'[j] = results[j] /\ result'[j] = result[j]
Parts(j, c) == {running[j][c], results[j][c], result[j][c], NoPart}
Moves(j) == \A c \in Chunk : /\ running'[j][c] \in Parts(j, c)
                             /\ results'[j][c] \in Parts(j, c)
                             /\ result'[j][c] \in Parts(j, c)

LEMMA RunSteps ==
  ASSUME TypeOK, [Next]_vars, NEW j \in Jobs
  PROVE  Takes(j) \/ Moves(j)
<1> DEFINE Still == running'[j] = running[j] /\ results'[j] = results[j] /\ result'[j] = result[j]
<1>0. Still => Moves(j)
  BY DEF Moves, Parts
<1>1. ASSUME \/ UNCHANGED vars \/ \E i \in Jobs : Request(i) \/ Dashboard(i) \/ CallLost(i)
             \/ \E p \in Pass : UploadPass(p) \/ Claim(p) \/ PassEnds(p)
             \/ \E w \in Worker : WorkerRestart(w)
      PROVE  Still
  BY <1>1 DEF vars, Request, Dashboard, UploadFile, CallTrigger, CallReturns, Poll,
              PollTimeout, CallLost, UploadPass, Claim, PassEnds, WorkerRestart, master
<1>2. ASSUME NEW p \in Pass, Dispatch(p) PROVE Takes(j) \/ Still
  <2>1. PICK h \in Jobs : h \in todo[p] /\ (Accepts(p, h) \/ Releases(p, h))
    BY <1>2, DispatchIs
  <2>2. UNCHANGED <<results, result>>
    BY <1>2, DispatchIs
  <2>3. CASE Releases(p, h)
    BY <2>2, <2>3 DEF Releases
  <2>4. CASE Accepts(p, h) /\ h # j
    <3>1. running'[j] = running[j]
      BY <2>4 DEF Accepts, TypeOK
    <3> QED BY <2>2, <3>1
  <2>5. CASE Accepts(p, h) /\ h = j
    BY <2>1, <2>2, <2>5 DEF Accepts, Takes
  <2> QED BY <2>1, <2>3, <2>4, <2>5
<1>3. ASSUME NEW h \in Jobs, RunEnds(h) \/ RunFails(h) PROVE Moves(j)
  <2>1. running' = [running EXCEPT ![h] = NoRun]
    BY <1>3 DEF RunEnds, RunFails
  <2>2. PICK all : results' = [results EXCEPT ![h] = Stored(h, all)]
    BY <1>3 DEF RunEnds, RunFails
  <2>3. result' = result \/ \E first : result' = [result EXCEPT ![h] = Stored(h, first)]
    BY <1>3 DEF RunEnds, RunFails
  <2>4. CASE h # j
    <3>1. Still
      BY <2>1, <2>2, <2>3, <2>4 DEF TypeOK
    <3> QED BY <1>0, <3>1
  <2>5. CASE h = j
    <3>1. running'[j] = NoRun /\ results'[j] = Stored(j, all)
      BY <2>1, <2>2, <2>5 DEF TypeOK
    <3>2. result'[j] = result[j] \/ \E first : result'[j] = Stored(j, first)
      BY <2>3, <2>5 DEF TypeOK
    <3>3. \A cs : \A c \in Chunk : Stored(j, cs)[c] \in {running[j][c], results[j][c]}
      BY StoredIs
    <3> QED BY <3>1, <3>2, <3>3, NoRunType DEF Moves, Parts
  <2> QED BY <2>4, <2>5
<1> HIDE DEF Still
<1> QED BY <1>0, <1>1, <1>2, <1>3 DEF Next, PassStep

LEMMA GoodInit == Init => GoodInv
BY NoPartIs, NoRunType DEF Init, GoodInv

LEMMA GoodNext == TypeOK /\ GoodInv /\ [Next]_vars => GoodInv'
<1> SUFFICES ASSUME TypeOK, GoodInv, [Next]_vars, NEW k \in Jobs, NEW c \in Chunk
             PROVE  /\ PartGood(running'[k][c]) /\ PartGood(results'[k][c])
                    /\ PartGood(result'[k][c])
  BY DEF GoodInv, PartGood
<1>0. /\ PartGood(running[k][c]) /\ PartGood(results[k][c]) /\ PartGood(result[k][c])
      /\ PartGood(NoPart)
  BY NoPartIs DEF GoodInv
<1>1. CASE Takes(k)
  <2>1. PartGood(running'[k][c]) /\ results'[k] = results[k] /\ result'[k] = result[k]
    BY <1>1 DEF Takes, Ran
  <2> QED BY <1>0, <2>1
<1>2. CASE Moves(k)
  BY <1>0, <1>2 DEF Moves, Parts
<1> QED BY <1>1, <1>2, RunSteps

\* The result that a request for a plugin finds was computed with it, on every chunk
\* and whatever the passes and the runs did side by side, also where the master has
\* put chunks of several runs together (RPCSubmitMapReduceResult, mrp/master.go).  The
\* exceptions, for each chunk: the ticker dispatched it, which names no plugin, or
\* another request for another plugin, or the worker has changed its plugin since the
\* master asked (getWorkersForPlugin).
THEOREM RightPluginUsed == Spec => []RightPlugin
<1>1. TypeOK /\ GoodInv => RightPlugin
  <2> SUFFICES ASSUME TypeOK, GoodInv, NEW j \in Jobs, NEW c \in Chunk
               PROVE  \/ result[j][c].plugin = PluginOf[j]
                      \/ result[j][c].by = "ticker"
                      \/ result[j][c].by \in Jobs /\ PluginOf[result[j][c].by] # PluginOf[j]
                      \/ result[j][c].stale
    BY DEF RightPlugin
  <2>1. result[j][c].by \in Pass
    BY DEF TypeOK, Run, Part
  <2> QED BY <2>1 DEF GoodInv, PartGood, Pass
<1>2. Spec => []GoodInv
  BY TypeCorrect, GoodInit, GoodNext, PTL DEF Spec
<1> QED BY <1>1, <1>2, TypeCorrect, PTL


(* ---------------------------- One comparison ---------------------------- *)

\* The plugins of a comparison have their turns one after the other.
LEMMA TurnIs ==
  /\ Turn \in [Jobs -> Nat]
  /\ \A j, k \in Jobs : /\ Turn[j] = Turn[k] => j = k
                        /\ Before[j] = "none" => Turn[j] = 1
                        /\ Before[j] = k => Turn[k] = Turn[j] - 1
  /\ \A j \in Jobs : Turn[j] >= 1
<1> DEFINE T(turn) ==
             \A j, k \in Jobs : /\ turn[j] = turn[k] => j = k
                                /\ Before[j] = "none" <=> turn[j] = 1
                                /\ Before[j] = k => turn[k] = turn[j] - 1
<1>1. \E turn \in [Jobs -> 1 .. Cardinality(Jobs)] : T(turn)
  BY TurnsAssumption
<1>2. Turn = CHOOSE turn \in [Jobs -> 1 .. Cardinality(Jobs)] : T(turn)
  BY DEF Turn
<1>3. Turn \in [Jobs -> 1 .. Cardinality(Jobs)] /\ T(Turn)
  BY <1>1, <1>2
<1> QED BY <1>3

\* What a step does to the requests: nothing, or one of them goes on.
Goes(j) == /\ pc' = [pc EXCEPT ![j] = pc'[j]]
           /\ pc'[j] # "idle" /\ ~ Ended(j)
           /\ pc'[j] \in {"upload", "trigger"} => pc[j] \in {"idle", "upload"}
           /\ pc[j] = "idle" => (compare /\ Before[j] # "none" => Ended(Before[j]))
           /\ pc[j] = "called" => reply[j] # "none" \/ dropped' = dropped \cup {j}

LEMMA RequestSteps ==
  TypeOK /\ [Next]_vars => /\ compare' = compare /\ dropped \subseteq dropped'
                           /\ pc' = pc \/ \E j \in Jobs : Goes(j)
<1> SUFFICES ASSUME TypeOK, [Next]_vars
             PROVE  /\ compare' = compare /\ dropped \subseteq dropped'
                    /\ pc' = pc \/ \E j \in Jobs : Goes(j)
  OBVIOUS
<1>u. CASE UNCHANGED vars
  BY <1>u DEF vars, dashboard
<1>1. ASSUME NEW j \in Jobs, Request(j) \/ CallTrigger(j) \/ CallReturns(j)
      PROVE  Goes(j) /\ compare' = compare /\ dropped' = dropped
  BY <1>1 DEF Goes, TypeOK, Ended, Request, CallTrigger, CallReturns
<1>2. ASSUME NEW j \in Jobs, UploadFile(j) PROVE Goes(j) /\ compare' = compare /\ dropped' = dropped
  BY <1>2 DEF Goes, TypeOK, Ended, UploadFile
<1>3. ASSUME NEW j \in Jobs, Poll(j) \/ PollTimeout(j)
      PROVE  Goes(j) /\ compare' = compare /\ dropped' = dropped
  BY <1>3 DEF Goes, TypeOK, Ended, Poll, PollTimeout
<1>4. ASSUME NEW j \in Jobs, CallLost(j)
      PROVE  Goes(j) /\ compare' = compare /\ dropped \subseteq dropped'
  BY <1>4 DEF Goes, TypeOK, Ended, CallLost
<1>5. ASSUME NEW p \in Pass, UploadPass(p) \/ Claim(p) \/ PassEnds(p)
      PROVE  UNCHANGED <<compare, dropped, pc>>
  BY <1>5 DEF UploadPass, Claim, PassEnds, dashboard
<1>6. ASSUME NEW p \in Pass, Dispatch(p) PROVE UNCHANGED <<compare, dropped, pc>>
  BY <1>6 DEF Dispatch, dashboard
<1>7. ASSUME NEW h \in Jobs, RunEnds(h) \/ RunFails(h) PROVE UNCHANGED <<compare, dropped, pc>>
  BY <1>7 DEF RunEnds, RunFails, dashboard
<1>8. ASSUME NEW w \in Worker, WorkerRestart(w) PROVE UNCHANGED <<compare, dropped, pc>>
  BY <1>8 DEF WorkerRestart, dashboard
<1> QED BY <1>u, <1>1, <1>2, <1>3, <1>4, <1>5, <1>6, <1>7, <1>8 DEF Next, Dashboard, PassStep

LEMMA EndedStays ==
  ASSUME TypeOK, [Next]_vars, NEW k \in Jobs, Ended(k)
  PROVE  Ended(k)' /\ pc'[k] = pc[k]
<1>1. pc' = pc \/ \E j \in Jobs : Goes(j)
  BY RequestSteps
<1>2. ASSUME NEW j \in Jobs, Goes(j) PROVE pc'[k] = pc[k]
  BY <1>2 DEF Goes, TypeOK
<1> QED BY <1>1, <1>2 DEF Ended

LEMMA OrderInit == Init => OrderInv
BY DEF Init, OrderInv

LEMMA OrderNext == TypeOK /\ OrderInv /\ [Next]_vars => OrderInv'
<1> SUFFICES ASSUME TypeOK, OrderInv, [Next]_vars, compare',
                    NEW j \in Jobs, NEW k \in Jobs, pc'[j] # "idle", Turn[k] < Turn[j]
             PROVE  Ended(k)'
  BY DEF OrderInv
<1>1. compare
  BY RequestSteps
<1>2. SUFFICES Ended(k)
  BY EndedStays
<1>3. CASE pc[j] # "idle"
  BY <1>1, <1>3 DEF OrderInv
<1>4. CASE pc[j] = "idle"
  <2>1. PICK i \in Jobs : Goes(i)
    BY <1>4, RequestSteps
  <2>2. i = j
    BY <1>4, <2>1 DEF Goes, TypeOK
  <2>3. Before[j] # "none" => Ended(Before[j])
    BY <1>1, <1>4, <2>1, <2>2 DEF Goes
  <2>4. Turn[j] \in Nat /\ Turn[k] \in Nat /\ Turn[k] >= 1
    BY TurnIs
  <2>5. Before[j] # "none"
    BY <2>4, TurnIs
  <2>6. Before[j] \in Jobs
    BY <2>5, JobsAssumption
  <2>7. Turn[Before[j]] = Turn[j] - 1 /\ pc[Before[j]] # "idle" /\ Ended(Before[j])
    BY <2>3, <2>5, <2>6, TurnIs DEF Ended
  <2>8. CASE Turn[k] = Turn[Before[j]]
    BY <2>6, <2>7, <2>8, TurnIs
  <2>9. CASE Turn[k] # Turn[Before[j]]
    <3>1. Turn[k] < Turn[Before[j]]
      BY <2>4, <2>7, <2>9
    <3> QED BY <1>1, <2>6, <2>7, <3>1 DEF OrderInv
  <2> QED BY <2>8, <2>9
<1> QED BY <1>3, <1>4


(* ------------------------------ Its passes ------------------------------ *)

LEMMA PassInit == Init => PassInv
BY DEF Init, PassInv, PassOf, Pass

LEMMA PassNext == TypeOK /\ PassInv /\ [Next]_vars => PassInv'
<1> SUFFICES ASSUME TypeOK, PassInv, [Next]_vars, NEW k \in Jobs PROVE PassOf(k)'
  BY DEF PassInv
<1>0. PassOf(k) /\ k \in Pass /\ k # "ticker"
  BY JobsAssumption DEF PassInv, Pass
<1>u. CASE UNCHANGED <<pc, dropped, step, todo, reply>>
  BY <1>u, <1>0 DEF PassOf
<1>1. ASSUME NEW j \in Jobs, Request(j) \/ UploadFile(j) \/ CallReturns(j) \/ Poll(j)
                             \/ PollTimeout(j) \/ CallLost(j)
      PROVE  PassOf(k)'
  <2>1. /\ UNCHANGED <<step, todo, reply>> /\ dropped \subseteq dropped'
        /\ pc' = pc \/ \E i \in Jobs : Goes(i)
    BY <1>1, RequestSteps
       DEF Request, UploadFile, CallReturns, Poll, PollTimeout, CallLost, passes
  <2>2. CASE pc' = pc
    BY <2>1, <2>2, <1>0 DEF PassOf
  <2>3. ASSUME NEW i \in Jobs, Goes(i) PROVE PassOf(k)'
    <3>1. CASE i # k
      <4>1. pc'[k] = pc[k]
        BY <2>3, <3>1 DEF Goes, TypeOK
      <4> QED BY <1>0, <2>1, <4>1 DEF PassOf
    <3>2. CASE i = k
      <4>1. /\ pc'[k] \in {"idle", "upload", "trigger"} => pc[k] \in {"idle", "upload"}
            /\ pc[k] = "called" => reply[k] # "none" \/ k \in dropped'
        BY <2>3, <3>2 DEF Goes
      <4>2. step[k] = "idle" \/ k \in dropped'
        BY <1>0, <2>1, <4>1 DEF PassOf
      <4> QED BY <1>0, <2>1, <4>1, <4>2 DEF PassOf
    <3> QED BY <3>1, <3>2
  <2> QED BY <2>1, <2>2, <2>3
<1>2. ASSUME NEW j \in Jobs, CallTrigger(j) PROVE PassOf(k)'
  <2>1. /\ UNCHANGED <<dropped, todo, reply>> /\ pc[j] = "trigger" /\ j \in Pass
        /\ pc' = [pc EXCEPT ![j] = "called"] /\ step' = [step EXCEPT ![j] = "upload"]
    BY <1>2 DEF CallTrigger, Pass
  <2>2. CASE j = k
    <3>1. pc'[k] = "called" /\ step'[k] = "upload" /\ pc[k] = "trigger"
      BY <1>0, <2>1, <2>2 DEF TypeOK
    <3> QED BY <1>0, <2>1, <3>1 DEF PassOf
  <2>3. CASE j # k
    <3>1. pc'[k] = pc[k] /\ step'[k] = step[k]
      BY <1>0, <2>1, <2>3 DEF TypeOK
    <3> QED BY <1>0, <2>1, <3>1 DEF PassOf
  <2> QED BY <2>2, <2>3
<1>3. ASSUME NEW p \in Pass, NEW status, step[p] # "idle", todo[p] = {}, Leave(p, status),
             UNCHANGED <<pc, dropped, todo>>
      PROVE  PassOf(k)'
  <2>1. CASE p = k
    <3>1. step'[k] = "idle" /\ todo'[k] = {}
      BY <1>0, <1>3, <2>1 DEF TypeOK, Leave
    <3>2. pc[k] \notin {"idle", "upload", "trigger"}
      BY <1>0, <1>3, <2>1 DEF PassOf
    <3> QED BY <1>3, <3>1, <3>2 DEF PassOf
  <2>2. CASE p # k
    <3>1. step'[k] = step[k] /\ reply'[k] = reply[k]
      BY <1>0, <1>3, <2>2 DEF TypeOK, Leave
    <3> QED BY <1>0, <1>3, <3>1 DEF PassOf
  <2> QED BY <2>1, <2>2
<1>4. ASSUME NEW p \in Pass, NEW s, step[p] # "idle", step' = [step EXCEPT ![p] = s],
             UNCHANGED <<pc, dropped, reply>>, \A q \in Pass : q # p => todo'[q] = todo[q],
             s # "idle", todo'[p] # {} => s \in {"dispatch", "dispatch_error"}
      PROVE  PassOf(k)'
  <2>1. CASE p = k
    <3>1. step'[k] = s
      BY <1>0, <1>4, <2>1 DEF TypeOK
    <3> QED BY <1>0, <1>4, <2>1, <3>1 DEF PassOf
  <2>2. CASE p # k
    <3>1. step'[k] = step[k] /\ todo'[k] = todo[k]
      BY <1>0, <1>4, <2>2 DEF TypeOK
    <3> QED BY <1>0, <1>4, <3>1 DEF PassOf
  <2> QED BY <2>1, <2>2
<1>5. ASSUME NEW p \in Pass, UploadPass(p) PROVE PassOf(k)'
  <2>1. /\ step[p] = "upload" /\ UNCHANGED <<pc, dropped, todo>>
        /\ (p \in Jobs /\ Leave(p, "error"))
           \/ (step' = [step EXCEPT ![p] = "claim"] /\ UNCHANGED reply)
    BY <1>5 DEF UploadPass, dashboard
  <2>2. CASE p = "ticker"
    <3>1. step' = [step EXCEPT ![p] = "claim"] /\ UNCHANGED reply
      BY <2>1, <2>2, JobsAssumption
    <3>2. step'[k] = step[k]
      BY <1>0, <2>2, <3>1 DEF TypeOK
    <3> QED BY <1>0, <2>1, <3>1, <3>2 DEF PassOf
  <2>3. CASE p \in Jobs
    <3>1. todo[p] = {}
      BY <2>1, <2>3 DEF PassInv, PassOf
    <3> QED BY <2>1, <3>1, <1>3, <1>4
  <2> QED BY <2>2, <2>3 DEF Pass
<1>6. ASSUME NEW p \in Pass, Claim(p) PROVE PassOf(k)'
  <2>1. /\ step[p] = "claim" /\ step' = [step EXCEPT ![p] = "dispatch"]
        /\ UNCHANGED <<pc, dropped, reply>> /\ \A q \in Pass : q # p => todo'[q] = todo[q]
    BY <1>6 DEF Claim, dashboard, TypeOK
  <2> QED BY <2>1, <1>4
<1>7. ASSUME NEW p \in Pass, PassEnds(p) PROVE PassOf(k)'
  <2>1. /\ step[p] # "idle" /\ todo[p] = {} /\ UNCHANGED <<pc, dropped, todo>>
        /\ \E status : Leave(p, status)
    BY <1>7 DEF PassEnds, dashboard
  <2> QED BY <2>1, <1>3
<1>8. ASSUME NEW p \in Pass, Dispatch(p) PROVE PassOf(k)'
  <2>1. PICK h \in Jobs : /\ todo' = [todo EXCEPT ![p] = @ \ {h}]
                          /\ Accepts(p, h) \/ Releases(p, h)
    BY <1>8, DispatchIs
  <2>2. step[p] \in {"dispatch", "dispatch_error"} /\ UNCHANGED <<pc, dropped, reply>>
    BY <1>8, DispatchIs DEF dashboard
  <2>3. \A q \in Pass : q # p => todo'[q] = todo[q]
    BY <2>1 DEF TypeOK
  <2>4. step' = [step EXCEPT ![p] = step[p]] \/ step' = [step EXCEPT ![p] = "dispatch_error"]
    BY <2>1 DEF Accepts, Releases, TypeOK
  <2> QED BY <2>2, <2>3, <2>4, <1>4
<1>9. ASSUME \/ UNCHANGED vars \/ \E h \in Jobs : RunEnds(h) \/ RunFails(h)
             \/ \E w \in Worker : WorkerRestart(w)
      PROVE  UNCHANGED <<pc, dropped, step, todo, reply>>
  BY <1>9 DEF vars, RunEnds, RunFails, WorkerRestart, dashboard, passes
<1> QED BY <1>u, <1>1, <1>2, <1>5, <1>6, <1>7, <1>8, <1>9 DEF Next, Dashboard, PassStep


(* ------------------------- Whose run is reported ------------------------- *)

\* A pass gets handles when it claims what is uploaded, and then only.
LEMMA TodoSteps ==
  ASSUME TypeOK, [Next]_vars, NEW k \in Jobs, NEW j \in todo'[k]
  PROVE  j \in todo[k] \/ (step[k] = "claim" /\ j \in uploaded /\ pc' = pc)
<1>0. k \in Pass
  BY DEF Pass
<1>1. ASSUME NEW p \in Pass, Claim(p)
      PROVE  j \in todo[k] \/ (step[k] = "claim" /\ j \in uploaded /\ pc' = pc)
  <2>1. /\ step[p] = "claim" /\ pc' = pc
        /\ todo' = [todo EXCEPT ![p] = {h \in uploaded \ processing : runs[h] < MaxRuns[h]}]
    BY <1>1 DEF Claim, dashboard
  <2>2. p = k \/ todo'[k] = todo[k]
    BY <1>0, <2>1 DEF TypeOK
  <2>3. p = k => todo'[k] \subseteq uploaded
    BY <1>0, <2>1 DEF TypeOK
  <2> QED BY <2>1, <2>2, <2>3
<1>2. ASSUME NEW p \in Pass, Dispatch(p) PROVE j \in todo[k]
  <2>1. PICK h \in Jobs : todo' = [todo EXCEPT ![p] = @ \ {h}]
    BY <1>2, DispatchIs
  <2> QED BY <1>0, <2>1 DEF TypeOK
<1>3. ASSUME NEW i \in Jobs, Request(i) \/ Dashboard(i) \/ CallLost(i) PROVE todo' = todo
  BY <1>3 DEF Dashboard, Request, UploadFile, CallTrigger, CallReturns, Poll, PollTimeout,
              CallLost, passes
<1>4. ASSUME NEW p \in Pass, UploadPass(p) \/ PassEnds(p) PROVE todo' = todo
  BY <1>4 DEF UploadPass, PassEnds
<1>5. ASSUME \/ UNCHANGED vars \/ \E h \in Jobs : RunEnds(h) \/ RunFails(h)
             \/ \E w \in Worker : WorkerRestart(w)
      PROVE  todo' = todo
  BY <1>5 DEF vars, RunEnds, RunFails, WorkerRestart, passes
<1> QED BY <1>1, <1>2, <1>3, <1>4, <1>5 DEF Next, PassStep

LEMMA AloneInit == Init => AloneInv
BY NoPartIs, NoRunType DEF Init, AloneInv, AloneOf, Mine, Pass

LEMMA AloneNext ==
  TypeInv /\ OrderInv /\ PassInv /\ AloneInv /\ [Next]_vars => AloneInv'
<1> SUFFICES ASSUME TypeInv, OrderInv, PassInv, AloneInv, [Next]_vars, compare',
                    NEW j \in Jobs, ~ Ended(j)'
             PROVE  AloneOf(j)'
  BY DEF AloneInv
<1>1. compare /\ dropped \subseteq dropped' /\ ~ Ended(j) /\ TypeOK
  BY RequestSteps, EndedStays DEF TypeInv
<1>2. AloneOf(j) /\ Mine(j) \subseteq Mine(j)'
  BY <1>1 DEF AloneInv, Mine
<1>3. ASSUME NEW k \in Jobs, j \in todo'[k] PROVE k \in Mine(j)'
  <2>1. CASE j \in todo[k]
    BY <1>2, <2>1 DEF AloneOf
  <2>2. ASSUME step[k] = "claim", j \in uploaded, k \notin dropped, k # j PROVE FALSE
    <3>1. pc[j] # "idle"
      BY <2>2 DEF TypeInv, FreshInv
    <3>2. pc[k] = "called"
      BY <2>2 DEF PassInv, PassOf
    <3>3. Turn[j] \in Nat /\ Turn[k] \in Nat /\ Turn[j] # Turn[k]
      BY <2>2, TurnIs
    <3>4. Turn[j] < Turn[k] \/ Turn[k] < Turn[j]
      BY <3>3
    <3> QED BY <1>1, <3>1, <3>2, <3>4 DEF OrderInv, Ended
  <2> QED BY <1>1, <1>2, <1>3, <2>1, <2>2, TodoSteps DEF Mine
<1>4. ASSUME NEW c \in Chunk
      PROVE  /\ running'[j][c].by \in Mine(j)' /\ results'[j][c].by \in Mine(j)'
             /\ result'[j][c].by \in Mine(j)'
  <2>1. /\ running[j][c].by \in Mine(j)' /\ results[j][c].by \in Mine(j)'
        /\ result[j][c].by \in Mine(j)' /\ NoPart.by \in Mine(j)'
    BY <1>2, NoPartIs DEF AloneOf, Mine
  <2>2. CASE Takes(j)
    <3>1. PICK p \in Pass : j \in todo[p] /\ Ran(p, running'[j])
      BY <2>2 DEF Takes
    <3>2. running'[j][c].by = p
      BY <3>1 DEF Ran
    <3>3. p \in Mine(j)
      BY <1>2, <3>1 DEF AloneOf, Mine, Pass
    <3> QED BY <1>2, <2>1, <2>2, <3>2, <3>3 DEF Takes
  <2>3. CASE Moves(j)
    BY <2>1, <2>3 DEF Moves, Parts
  <2> QED BY <1>1, <2>2, <2>3, RunSteps
<1> QED BY <1>3, <1>4 DEF AloneOf

\* What /api/compare finds for a plugin comes, chunk by chunk, from runs that its own
\* request or the ticker has dispatched: the plugins have their turns one after the other
\* (handleCompare, dashboard/api/main.go), and a pass that could take the file of a
\* later one has replied before that one starts, unless its call broke off.
THEOREM ComparisonUnmixed == Spec => []CompareUnmixed
<1>1. Spec => []OrderInv
  BY TypeCorrect, OrderInit, OrderNext, PTL DEF Spec
<1>2. Spec => []PassInv
  BY TypeCorrect, PassInit, PassNext, PTL DEF Spec
<1>3. Spec => []AloneInv
  BY <1>1, <1>2, TypeAlways, AloneInit, AloneNext, PTL DEF Spec
<1>4. AloneInv => CompareUnmixed
  BY DEF AloneInv, AloneOf, Mine, CompareUnmixed, Ended
<1> QED BY <1>3, <1>4, PTL

================================================================================
