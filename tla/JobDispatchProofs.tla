--------------------------- MODULE JobDispatchProofs ---------------------------
(***************************************************************************)
(* Proofs about JobDispatch: type correctness, that no two dispatchers     *)
(* work on one handle, and that result files are whole.                    *)
(***************************************************************************)
EXTENDS JobDispatch, FiniteSetTheorems, TLAPS

(* -------------------------------- Typing -------------------------------- *)

\* A handle that anything refers to has been issued and has an Id.
IssuedInv ==
    /\ nextHandle <= issued /\ uploaded = 1 .. issued
    /\ \A h \in uploaded : idOf[h] \in Id
    /\ \A d \in Dispatchers :
          /\ todo[d] \subseteq uploaded /\ list[d] \subseteq uploaded
          /\ dpc[d] \in {"restamp", "call", "release"} => cur[d] \in uploaded
    /\ \A t \in Task : running[t] > 0 \/ spc[t] # "none" => t[1] \in uploaded

TypeInv == TypeOK /\ IssuedInv

LEMMA TypeInit == Init => TypeInv
<1> SUFFICES ASSUME Init PROVE TypeInv
  OBVIOUS
<1> USE SizesAssumption, BoundsAssumption DEF Init, Handle, Id, Chunk, Task
<1>1. TypeOK
  BY DEF TypeOK, NoHandle, Content, Empty, Absent
<1>2. IssuedInv
  BY DEF IssuedInv, NoHandle
<1> QED BY <1>1, <1>2 DEF TypeInv

\* The steps of the coordinator keep the types.
LEMMA TypeCoordinator ==
  ASSUME TypeInv,
         \/ HandleUploaded \/ CoordRestart
         \/ \E d \in Dispatchers : \/ StartMapReduce(d) \/ Scan(d) \/ Restamp(d)
                                   \/ ScanDone(d) \/ DispatchDone(d) \/ Release(d)
         \/ \E h \in Handle : Elapse(h) \/ Prune(h)
  PROVE  TypeInv'
<1> USE SizesAssumption, BoundsAssumption DEF TypeInv
<1> DEFINE Past == Handle \X {"taken", "again", "elapsed"}
<1>1. CASE HandleUploaded
  <2>0. /\ issued + 1 \in Handle /\ issued + 1 \in 0 .. MaxHandle
        /\ nextHandle + 1 \in 0 .. MaxHandle
    BY <1>1 DEF Handle, HandleUploaded, TypeOK, IssuedInv
  <2>1. TypeOK'
    <3>1. idOf' \in [Handle -> 0 .. MaxHandle] /\ uploaded' \subseteq Handle
      BY <1>1, <2>0 DEF HandleUploaded, TypeOK
    <3>2. issued' \in 0 .. MaxHandle /\ nextHandle' \in 0 .. MaxHandle
      BY <1>1, <2>0 DEF HandleUploaded
    <3> QED BY <1>1, <3>1, <3>2 DEF HandleUploaded, TypeOK, start, submit, files
  <2>2. IssuedInv'
    BY <1>1 DEF Handle, Id, HandleUploaded, TypeOK, IssuedInv, start, submit, files
  <2> QED BY <2>1, <2>2
<1>2. CASE CoordRestart
  <2>1. TypeOK'
    BY <1>2 DEF CoordRestart, TypeOK, submit, files, NoHandle
  <2>2. IssuedInv'
    BY <1>2 DEF CoordRestart, TypeOK, IssuedInv, submit, files
  <2> QED BY <2>1, <2>2
<1>3. ASSUME NEW d \in Dispatchers, StartMapReduce(d) PROVE TypeInv'
  <2>1. TypeOK'
    BY <1>3 DEF StartMapReduce, coord, submit, files, TypeOK, IssuedInv
  <2>2. IssuedInv'
    BY <1>3 DEF StartMapReduce, coord, submit, files, TypeOK, IssuedInv
  <2> QED BY <2>1, <2>2
<1>4. ASSUME NEW d \in Dispatchers, NEW h \in Handle, TakeFree(d, h) PROVE TypeInv'
  <2>0. hist' \subseteq Past
    BY <1>4 DEF TakeFree, Took, TypeOK
  <2>1. TypeOK'
    BY <1>4, <2>0 DEF TakeFree, coord, submit, files, TypeOK
  <2>2. IssuedInv'
    BY <1>4 DEF TakeFree, Took, coord, submit, files, TypeOK, IssuedInv
  <2> QED BY <2>1, <2>2
<1>5. ASSUME NEW d \in Dispatchers, NEW h \in Handle, SkipBusy(d, h) PROVE TypeInv'
  <2>1. TypeOK'
    BY <1>5 DEF SkipBusy, coord, submit, files, TypeOK, IssuedInv
  <2>2. IssuedInv'
    BY <1>5 DEF SkipBusy, coord, submit, files, TypeOK, IssuedInv
  <2> QED BY <2>1, <2>2
<1>6. ASSUME NEW d \in Dispatchers, NEW h \in Handle, SeeStale(d, h) PROVE TypeInv'
  <2>1. TypeOK'
    <3>1. h \in 0 .. MaxHandle
      BY DEF Handle
    <3>2. /\ todo' \in [Dispatchers -> SUBSET Handle] /\ cur' \in [Dispatchers -> 0 .. MaxHandle]
          /\ dpc' \in [Dispatchers -> {"idle", "scan", "restamp", "next", "call", "release"}]
      BY <1>6, <3>1 DEF SeeStale, TypeOK
    <3> QED BY <1>6, <3>2 DEF SeeStale, coord, submit, files, TypeOK
  <2>2. IssuedInv'
    BY <1>6 DEF SeeStale, coord, submit, files, TypeOK, IssuedInv
  <2> QED BY <2>1, <2>2
<1>7. ASSUME NEW d \in Dispatchers, Restamp(d) PROVE TypeInv'
  <2>0. cur[d] \in Handle /\ hist' \subseteq Past
    BY <1>7 DEF Restamp, Took, TypeOK, IssuedInv
  <2>1. TypeOK'
    BY <1>7, <2>0 DEF Restamp, coord, submit, files, TypeOK
  <2>2. IssuedInv'
    BY <1>7 DEF Restamp, Took, coord, submit, files, TypeOK, IssuedInv
  <2> QED BY <2>1, <2>2
<1>8. ASSUME NEW d \in Dispatchers, ScanDone(d) \/ Release(d) PROVE TypeInv'
  <2>1. TypeOK'
    <3>1. CASE ScanDone(d)
      BY <3>1 DEF ScanDone, coord, start, submit, files, TypeOK
    <3>2. CASE Release(d)
      BY <3>2 DEF Release, coord, start, submit, files, TypeOK
    <3> QED BY <1>8, <3>1, <3>2
  <2>2. IssuedInv'
    <3>1. CASE ScanDone(d)
      BY <3>1 DEF ScanDone, coord, start, submit, files, TypeOK, IssuedInv
    <3>2. CASE Release(d)
      BY <3>2 DEF Release, coord, start, submit, files, TypeOK, IssuedInv
    <3> QED BY <1>8, <3>1, <3>2
  <2> QED BY <2>1, <2>2
<1>9. ASSUME NEW d \in Dispatchers, DispatchDone(d) PROVE TypeInv'
  <2>1. TypeOK'
    BY <1>9 DEF DispatchDone, NoHandle, coord, submit, files, TypeOK, IssuedInv
  <2>2. IssuedInv'
    BY <1>9 DEF DispatchDone, NoHandle, coord, submit, files, TypeOK, IssuedInv
  <2> QED BY <2>1, <2>2
<1>10. ASSUME NEW h \in Handle, Elapse(h) \/ Prune(h) PROVE TypeInv'
  <2>0. hist' \subseteq Past
    BY <1>10 DEF Elapse, Prune, TypeOK
  <2>1. TypeOK'
    BY <1>10, <2>0 DEF Elapse, Prune, coord, start, submit, files, TypeOK
  <2>2. IssuedInv'
    BY <1>10 DEF Elapse, Prune, coord, start, submit, files, TypeOK, IssuedInv
  <2> QED BY <2>1, <2>2
<1> QED BY <1>1, <1>2, <1>3, <1>4, <1>5, <1>6, <1>7, <1>8, <1>9, <1>10 DEF Scan

\* What a result file may hold.
LEMMA CollatedType ==
  ASSUME NEW rs \in [Chunk -> 0 .. MaxHandle]
  PROVE  Collated(rs) \subseteq Chunk \X Handle
BY SizesAssumption DEF Collated, Chunk, Handle, NoHandle

LEMMA ContentType ==
  /\ SUBSET (Chunk \X Handle) \subseteq Content
  /\ {Empty, Absent} \subseteq Content
  /\ Handle # {} => Torn \in Content
BY SizesAssumption DEF Content, Chunk, Handle, Empty, Absent, Torn

LEMMA OkType ==
  ASSUME NEW f \in [Dispatchers -> BOOLEAN], NEW d \in Dispatchers, NEW b \in BOOLEAN
  PROVE  [f EXCEPT ![d] = b] \in [Dispatchers -> BOOLEAN]
OBVIOUS

\* The steps of RPCStartMapReduce keep the types.
LEMMA TypeStart ==
  ASSUME TypeInv, NEW d \in Dispatchers,
         CallMaster(d) \/ DispatchChunk(d) \/ CallReturns(d)
  PROVE  TypeInv'
<1> USE SizesAssumption, BoundsAssumption DEF TypeInv
<1>1. CASE CallMaster(d)
  <2>1. PICK h \in list[d] : /\ list' = [list EXCEPT ![d] = @ \ {h}]
                             /\ cur' = [cur EXCEPT ![d] = h]
    BY <1>1 DEF CallMaster
  <2>2. list' \in [Dispatchers -> SUBSET Handle] /\ cur' \in [Dispatchers -> 0 .. MaxHandle]
    BY <2>1 DEF TypeOK, Handle
  <2>3. /\ jobs' \in [Id -> {0, Chunks}]
        /\ left' \in [Dispatchers -> SUBSET Chunk]
        /\ fails' \in 0 .. MaxFails
    <3>1. fails' \in 0 .. MaxFails
      BY <1>1 DEF CallMaster, Fails, TypeOK
    <3>2. UNCHANGED left \/ left' = [left EXCEPT ![d] = Chunk]
      BY <1>1 DEF CallMaster
    <3>3. UNCHANGED jobs \/ \E i : jobs' = [jobs EXCEPT ![i] = Chunks]
      BY <1>1 DEF CallMaster, ExpectedChunks
    <3>4. left' \in [Dispatchers -> SUBSET Chunk]
      BY <3>2 DEF TypeOK
    <3>5. jobs' \in [Id -> {0, Chunks}]
      BY <3>3 DEF TypeOK
    <3> QED BY <3>1, <3>4, <3>5
  <2>6. ok' \in [Dispatchers -> BOOLEAN]
    <3>1. ok' = ok \/ ok' = [ok EXCEPT ![d] = FALSE]
      BY <1>1 DEF CallMaster
    <3> QED BY <3>1, OkType DEF TypeOK
  <2>4. TypeOK'
    BY <1>1, <2>2, <2>3, <2>6 DEF CallMaster, coord, submit, files, TypeOK
  <2>5. IssuedInv'
    BY <1>1 DEF CallMaster, Fails, coord, submit, files, TypeOK, IssuedInv
  <2> QED BY <2>4, <2>5
<1>2. CASE DispatchChunk(d)
  <2>1. PICK c \in left[d] :
          /\ left' = [left EXCEPT ![d] = @ \ {c}]
          /\ \/ /\ running[<<cur[d], c>>] < MaxRunning
                /\ running' = [running EXCEPT ![<<cur[d], c>>] = @ + 1]
             \/ UNCHANGED running
    BY <1>2 DEF DispatchChunk
  <2>2. c \in Chunk /\ cur[d] \in uploaded /\ <<cur[d], c>> \in Task
    BY <1>2 DEF DispatchChunk, TypeOK, IssuedInv, Task
  <2>3. running' \in [Task -> 0 .. MaxRunning]
    <3>1. running[<<cur[d], c>>] \in 0 .. MaxRunning
      BY <2>2 DEF TypeOK
    <3>2. CASE UNCHANGED running
      BY <3>2 DEF TypeOK
    <3>3. CASE /\ running[<<cur[d], c>>] < MaxRunning
               /\ running' = [running EXCEPT ![<<cur[d], c>>] = @ + 1]
      <4>1. running[<<cur[d], c>>] + 1 \in 0 .. MaxRunning
        BY <3>1, <3>3
      <4> QED BY <3>3, <4>1 DEF TypeOK
    <3> QED BY <2>1, <3>2, <3>3
  <2>4. TypeOK'
    <3>1. fails' \in 0 .. MaxFails
      BY <1>2 DEF DispatchChunk, Fails, TypeOK
    <3>2. ok' = ok \/ ok' = [ok EXCEPT ![d] = TRUE]
      BY <1>2 DEF DispatchChunk
    <3>3. ok' \in [Dispatchers -> BOOLEAN]
      BY <3>2, OkType DEF TypeOK
    <3> QED BY <1>2, <2>1, <2>3, <3>1, <3>3 DEF DispatchChunk, coord, submit, files, TypeOK
  <2>5. \A t \in Task : running'[t] > 0 => running[t] > 0 \/ t[1] \in uploaded
    BY <2>1, <2>2, <2>3 DEF TypeOK
  <2>6. IssuedInv'
    BY <1>2, <2>5 DEF DispatchChunk, coord, submit, files, TypeOK, IssuedInv
  <2> QED BY <2>4, <2>6
<1>3. CASE CallReturns(d)
  <2>1. TypeOK'
    <3>1. fails' \in 0 .. MaxFails
      BY <1>3 DEF CallReturns, Fails, TypeOK
    <3> QED BY <1>3, <3>1 DEF CallReturns, coord, start, submit, files, TypeOK
  <2>2. IssuedInv'
    BY <1>3 DEF CallReturns, coord, start, submit, files, TypeOK, IssuedInv
  <2> QED BY <2>1, <2>2
<1> QED BY <1>1, <1>2, <1>3

\* The steps of tasks and submissions keep the types.
LEMMA TypeSubmit ==
  ASSUME TypeInv, NEW t \in Task, TaskLost(t) \/ Submit(t) \/ Collate(t)
  PROVE  TypeInv'
<1> USE SizesAssumption, BoundsAssumption DEF TypeInv
<1>0. t[1] \in Handle /\ t[2] \in Chunk
  BY DEF Task
<1>1. CASE TaskLost(t)
  <2>1. TypeOK'
    BY <1>1 DEF TaskLost, Fails, coord, start, submit, files, TypeOK
  <2>2. IssuedInv'
    BY <1>1 DEF TaskLost, coord, start, submit, files, TypeOK, IssuedInv
  <2> QED BY <2>1, <2>2
<1>2. CASE Submit(t)
  <2> DEFINE i == idOf[t[1]]
             rs == [results[i] EXCEPT ![t[2]] = t[1]]
  <2>1. t[1] \in uploaded /\ i \in Id
    BY <1>2 DEF Submit, TypeOK, IssuedInv
  <2>2. rs \in [Chunk -> 0 .. MaxHandle]
    BY <1>0, <2>1 DEF TypeOK, Handle
  <2>3. Collated(rs) \in Content /\ Empty \in Content
    BY <2>2, CollatedType, ContentType
  <2> HIDE DEF rs
  <2>4. TypeOK'
    <3>1. results' = [results EXCEPT ![i] = rs] /\ payload'[t] \in {Collated(rs), Empty}
      BY <1>2 DEF rs, Submit, TypeOK
    <3>2. payload' \in [Task -> Content]
      BY <1>2, <2>3, <3>1 DEF Submit, TypeOK
    <3>3. running' \in [Task -> 0 .. MaxRunning]
      BY <1>2 DEF Submit, TypeOK
    <3>4. spc' \in [Task -> {"none", "create", "encode", "rename", "discard", "untrack",
                           "notify"}]
      BY <1>2 DEF Submit, TypeOK
    <3>5. results' \in [Id -> [Chunk -> 0 .. MaxHandle]]
      BY <2>2, <3>1 DEF TypeOK
    <3> QED BY <1>2, <3>2, <3>3, <3>4, <3>5 DEF Submit, coord, start, files, TypeOK
  <2>5. IssuedInv'
    BY <1>2, <2>1 DEF Submit, coord, start, files, TypeOK, IssuedInv
  <2> QED BY <2>4, <2>5
<1>3. CASE CreateTmp(t)
  <2>1. TypeOK'
    <3>1. fails' \in 0 .. MaxFails
      BY <1>3 DEF CreateTmp, Fails, TypeOK
    <3>2. tmp' \in [Id -> Content] /\ payload' \in [Task -> Content]
      <4>1. Empty \in Content
        BY ContentType
      <4>2. tmp' = tmp \/ tmp' = [tmp EXCEPT ![idOf[t[1]]] = Empty]
        BY <1>3 DEF CreateTmp
      <4>3. payload' = payload \/ payload' = [payload EXCEPT ![t] = Empty]
        BY <1>3 DEF CreateTmp
      <4> QED BY <4>1, <4>2, <4>3 DEF TypeOK
    <3> QED BY <1>3, <3>1, <3>2 DEF CreateTmp, coord, start, TypeOK
  <2>2. IssuedInv'
    BY <1>3 DEF CreateTmp, coord, start, TypeOK, IssuedInv
  <2> QED BY <2>1, <2>2
<1>4. CASE Encode(t)
  <2>1. tmp' \in [Id -> Content] /\ result' \in [Id -> Content]
    <3>1. payload[t] \in Content /\ Torn \in Content
      BY <1>0, ContentType DEF TypeOK
    <3>2. \A old \in Content : /\ Written(old, payload[t]) \subseteq Content
                              /\ WrittenInPart(old) \subseteq Content
      BY <3>1 DEF Written, WrittenInPart
    <3>3. tmp[idOf[t[1]]] \in Content /\ result[idOf[t[1]]] \in Content
      BY <1>4 DEF Encode, TypeOK, IssuedInv
    <3>4. ASSUME NEW how \in {"whole", "part"}, WriteOpenFile(t, how)
          PROVE  tmp' \in [Id -> Content] /\ result' \in [Id -> Content]
      <4>1. \/ \E c \in Content : tmp' = [tmp EXCEPT ![idOf[t[1]]] = c] /\ UNCHANGED result
            \/ \E c \in Content : result' = [result EXCEPT ![idOf[t[1]]] = c] /\ UNCHANGED tmp
            \/ UNCHANGED files
        BY <3>2, <3>3, <3>4 DEF WriteOpenFile
      <4> QED BY <4>1 DEF files, TypeOK
    <3> QED BY <1>4, <3>4 DEF Encode
  <2>2. TypeOK'
    BY <1>4, <2>1 DEF Encode, Fails, coord, start, TypeOK
  <2>3. IssuedInv'
    BY <1>4 DEF Encode, coord, start, TypeOK, IssuedInv
  <2> QED BY <2>2, <2>3
<1>5. CASE Rename(t)
  <2>1. t[1] \in uploaded /\ idOf[t[1]] \in Id
    BY <1>5 DEF Rename, IssuedInv
  <2>2. TypeOK'
    BY <1>5, <2>1, ContentType DEF Rename, coord, start, TypeOK
  <2>3. IssuedInv'
    BY <1>5 DEF Rename, coord, start, TypeOK, IssuedInv
  <2> QED BY <2>2, <2>3
<1>6. CASE RenameFails(t)
  <2>1. TypeOK'
    <3>1. fails' \in 0 .. MaxFails
      BY <1>6 DEF RenameFails, Fails, TypeOK
    <3> QED BY <1>6, <3>1 DEF RenameFails, coord, start, files, TypeOK
  <2>2. IssuedInv'
    BY <1>6 DEF RenameFails, coord, start, files, TypeOK, IssuedInv
  <2> QED BY <2>1, <2>2
<1>7. CASE Discard(t)
  <2>1. TypeOK'
    BY <1>7, ContentType DEF Discard, coord, start, TypeOK
  <2>2. IssuedInv'
    BY <1>7 DEF Discard, coord, start, TypeOK, IssuedInv
  <2> QED BY <2>1, <2>2
<1>8. CASE Untrack(t)
  <2>1. TypeOK'
    BY <1>8, ContentType DEF Untrack, coord, start, files, TypeOK
  <2>2. IssuedInv'
    BY <1>8 DEF Untrack, coord, start, files, TypeOK, IssuedInv
  <2> QED BY <2>1, <2>2
<1>9. CASE Notify(t)
  <2>1. TypeOK'
    BY <1>0, <1>9 DEF Notify, Fails, coord, start, files, TypeOK
  <2>2. IssuedInv'
    BY <1>9 DEF Notify, coord, start, files, TypeOK, IssuedInv
  <2> QED BY <2>1, <2>2
<1> QED BY <1>1, <1>2, <1>3, <1>4, <1>5, <1>6, <1>7, <1>8, <1>9 DEF Collate

LEMMA TypeStep == TypeInv /\ [Next]_vars => TypeInv'
<1> SUFFICES ASSUME TypeInv, [Next]_vars PROVE TypeInv'
  OBVIOUS
<1>1. CASE UNCHANGED vars
  BY <1>1 DEF vars, coord, start, submit, files, TypeInv, TypeOK, IssuedInv
<1>2. CASE Next
  BY <1>2, TypeCoordinator, TypeStart, TypeSubmit DEF Next, Dispatch
<1> QED BY <1>1, <1>2

\* Type correctness of the dispatch protocol, whatever fails or is restarted:
\* every handle that a dispatcher, a task or a submission works on has been
\* issued, and every result file is made of chunks and handles.
THEOREM TypeCorrect == Spec => []TypeOK
<1>1. TypeInv => TypeOK
  BY DEF TypeInv
<1> QED BY <1>1, TypeInit, TypeStep, PTL DEF Spec

(* --------------------- One dispatcher for each handle --------------------- *)

\* The TTL of the handle has run out, or its job has come to an end.
Over(h) == <<h, "elapsed">> \in hist \/ result[idOf[h]] # Absent

\* A dispatcher has a handle in one place only.
PlacesInv ==
    \A d \in Dispatchers :
       /\ todo[d] \cap list[d] = {}
       /\ dpc[d] \notin {"scan", "restamp"} => todo[d] = {}
       /\ dpc[d] = "idle" => list[d] = {}
       /\ dpc[d] = "restamp" => cur[d] \notin todo[d] \cup list[d]
       /\ dpc[d] \in {"call", "release"} => cur[d] \notin list[d]

\* While a dispatcher holds a handle its registry entry is fresh, unless it is
\* over; an entry past the TTL, the restamping of one, and a job that has been
\* renamed into place mean that it is over.
HoldInv ==
    /\ \A d \in Dispatchers, h \in Handle : Holds(d, h) => processing[h] = "fresh" \/ Over(h)
    /\ \A h \in Handle : processing[h] = "stale" => <<h, "elapsed">> \in hist
    /\ \A d \in Dispatchers : dpc[d] = "restamp" => <<cur[d], "elapsed">> \in hist
    /\ \A t \in Task : /\ spc[t] \in {"untrack", "notify"} => result[idOf[t[1]]] # Absent
                       /\ payload[t] \subseteq Chunk \X Handle
                       /\ fd[t] # "none" => spc[t] = "encode"
                       /\ fd[t] = "result" => result[idOf[t[1]]] # Absent

DispatchInv == TypeInv /\ PlacesInv /\ HoldInv /\ OneDispatcher

\* A collated result is not the mark of an absent file.
LEMMA NotAbsent == /\ \A p \in SUBSET (Chunk \X Handle) : p # Absent
                   /\ Torn # Absent /\ Empty # Absent
<1>1. <<0, 0>> \notin Chunk \X Handle
  BY DEF Chunk
<1>2. <<0, 0>> \in Absent /\ <<0, 0>> \notin Torn /\ <<0, 0>> \notin Empty
  BY DEF Absent, Torn, Empty
<1> QED BY <1>1, <1>2

LEMMA DispatchInit == Init => DispatchInv
<1> SUFFICES ASSUME Init PROVE DispatchInv
  OBVIOUS
<1>1. TypeInv
  BY TypeInit
<1>2. PlacesInv /\ HoldInv /\ OneDispatcher
  BY DEF Init, PlacesInv, HoldInv, OneDispatcher, Holds, Empty
<1> QED BY <1>1, <1>2 DEF DispatchInv

\* The steps of startMapReduce up to the call of the master, and of time.
LEMMA DispatchScan ==
  ASSUME DispatchInv, TypeInv', NEW d \in Dispatchers,
         \/ StartMapReduce(d) \/ Scan(d) \/ Restamp(d) \/ ScanDone(d)
  PROVE  DispatchInv'
<1> USE DEF DispatchInv, TypeInv
<1>0. UNCHANGED <<idOf, spc, payload, fd, result>>
  BY DEF StartMapReduce, Scan, TakeFree, SkipBusy, SeeStale, Restamp, ScanDone, coord,
         submit, files
<1>1. CASE StartMapReduce(d)
  BY <1>0, <1>1 DEF StartMapReduce, TypeOK, PlacesInv, HoldInv, OneDispatcher, Holds, Over
<1>2. ASSUME NEW h \in Handle, TakeFree(d, h) PROVE DispatchInv'
  <2>1. PlacesInv'
    BY <1>2 DEF TakeFree, TypeOK, PlacesInv
  <2>2. hist \subseteq hist'
    BY <1>2 DEF TakeFree, Took
  <2>3. \A e \in Dispatchers, g \in Handle : Holds(e, g)' => Holds(e, g) \/ (e = d /\ g = h)
    BY <1>2 DEF TakeFree, TypeOK, Holds
  <2>4. HoldInv'
    BY <1>0, <1>2, <2>2, <2>3 DEF TakeFree, TypeOK, HoldInv, Over
  <2>5. \A e \in Dispatchers : Holds(e, h) => Over(h)
    BY <1>2 DEF TakeFree, HoldInv
  <2>6. OneDispatcher'
    BY <1>0, <2>2, <2>3, <2>5 DEF OneDispatcher, Over
  <2> QED BY <2>1, <2>4, <2>6
<1>3. ASSUME NEW h \in Handle, SkipBusy(d, h) PROVE DispatchInv'
  BY <1>0, <1>3 DEF SkipBusy, TypeOK, PlacesInv, HoldInv, OneDispatcher, Holds, Over
<1>4. ASSUME NEW h \in Handle, SeeStale(d, h) PROVE DispatchInv'
  <2>1. PlacesInv'
    BY <1>4 DEF SeeStale, TypeOK, PlacesInv
  <2>2. \A e \in Dispatchers, g \in Handle : Holds(e, g)' => Holds(e, g)
    BY <1>4 DEF SeeStale, TypeOK, Holds
  <2>3. HoldInv'
    BY <1>0, <1>4, <2>2 DEF SeeStale, TypeOK, HoldInv, Over
  <2>4. OneDispatcher'
    BY <1>0, <1>4, <2>2 DEF SeeStale, OneDispatcher
  <2> QED BY <2>1, <2>3, <2>4
<1>5. CASE Restamp(d)
  <2>0. cur[d] \in Handle
    BY <1>5 DEF Restamp, TypeOK, IssuedInv
  <2>1. PlacesInv'
    BY <1>5 DEF Restamp, TypeOK, PlacesInv
  <2>2. hist \subseteq hist'
    BY <1>5 DEF Restamp, Took
  <2>3. \A e \in Dispatchers, g \in Handle : Holds(e, g)' => Holds(e, g) \/ g = cur[d]
    BY <1>5 DEF Restamp, TypeOK, Holds
  <2>4. Over(cur[d])
    BY <1>5 DEF Restamp, HoldInv, Over
  <2>5. HoldInv'
    BY <1>0, <1>5, <2>0, <2>2, <2>3, <2>4 DEF Restamp, TypeOK, HoldInv, Over
  <2>6. OneDispatcher'
    BY <1>0, <2>2, <2>3, <2>4 DEF OneDispatcher, Over
  <2> QED BY <2>1, <2>5, <2>6
<1>6. CASE ScanDone(d)
  BY <1>0, <1>6 DEF ScanDone, start, TypeOK, PlacesInv, HoldInv, OneDispatcher, Holds, Over
<1> QED BY <1>1, <1>2, <1>3, <1>4, <1>5, <1>6 DEF Scan

\* The call of the master and what follows it.
LEMMA DispatchCall ==
  ASSUME DispatchInv, TypeInv', NEW d \in Dispatchers,
         \/ DispatchDone(d) \/ CallMaster(d) \/ DispatchChunk(d) \/ CallReturns(d)
         \/ Release(d)
  PROVE  DispatchInv'
<1> USE DEF DispatchInv, TypeInv
<1>0. UNCHANGED <<idOf, spc, payload, fd, result, hist>>
  BY DEF DispatchDone, CallMaster, DispatchChunk, CallReturns, Release, coord, submit, files
<1>1. CASE DispatchDone(d)
  BY <1>0, <1>1 DEF DispatchDone, TypeOK, PlacesInv, HoldInv, OneDispatcher, Holds, Over
<1>2. CASE CallMaster(d)
  <2>1. PICK h \in list[d] : /\ list' = [list EXCEPT ![d] = @ \ {h}]
                             /\ cur' = [cur EXCEPT ![d] = h]
    BY <1>2 DEF CallMaster
  <2>2. /\ dpc[d] = "next" /\ UNCHANGED <<todo, processing>>
        /\ \E x \in {"call", "release"} : dpc' = [dpc EXCEPT ![d] = x]
    BY <1>2 DEF CallMaster
  <2>3. PlacesInv'
    BY <2>1, <2>2 DEF TypeOK, PlacesInv
  <2>4. \A e \in Dispatchers, g \in Handle : Holds(e, g)' => Holds(e, g)
    BY <2>1, <2>2 DEF TypeOK, Holds
  <2>5. HoldInv'
    BY <1>0, <2>1, <2>2, <2>4 DEF TypeOK, HoldInv, Over
  <2>6. OneDispatcher'
    BY <1>0, <2>4 DEF OneDispatcher
  <2> QED BY <2>3, <2>5, <2>6
<1>3. CASE DispatchChunk(d)
  BY <1>0, <1>3 DEF DispatchChunk, PlacesInv, HoldInv, OneDispatcher, Holds, Over
<1>4. CASE CallReturns(d)
  <2>1. /\ dpc[d] = "call" /\ UNCHANGED <<processing, start>>
        /\ \E x \in {"next", "release"} : dpc' = [dpc EXCEPT ![d] = x]
    BY <1>4 DEF CallReturns
  <2>2. PlacesInv'
    BY <2>1 DEF start, TypeOK, PlacesInv
  <2>3. \A e \in Dispatchers, g \in Handle : Holds(e, g)' => Holds(e, g)
    BY <2>1 DEF start, TypeOK, Holds
  <2>4. HoldInv'
    BY <1>0, <2>1, <2>3 DEF start, TypeOK, HoldInv, Over
  <2>5. OneDispatcher'
    BY <1>0, <2>3 DEF OneDispatcher
  <2> QED BY <2>2, <2>4, <2>5
<1>5. CASE Release(d)
  <2>0. cur[d] \in Handle /\ Holds(d, cur[d])
    BY <1>5 DEF Release, TypeOK, IssuedInv, Holds
  <2>1. PlacesInv'
    BY <1>5 DEF Release, start, TypeOK, PlacesInv
  <2>2. \A e \in Dispatchers, g \in Handle :
           Holds(e, g)' => Holds(e, g) /\ ~(e = d /\ g = cur[d])
    BY <1>5 DEF Release, start, TypeOK, PlacesInv, Holds
  <2>3. \A e \in Dispatchers, g \in Handle : g = cur[d] /\ Holds(e, g)' => Over(g)
    BY <2>0, <2>2 DEF OneDispatcher, Over
  <2>4. HoldInv'
    BY <1>0, <1>5, <2>0, <2>2, <2>3 DEF Release, start, TypeOK, HoldInv, Over
  <2>5. OneDispatcher'
    BY <1>0, <2>2 DEF OneDispatcher
  <2> QED BY <2>1, <2>4, <2>5
<1> QED BY <1>1, <1>2, <1>3, <1>4, <1>5

\* New handles, time and restarts.
LEMMA DispatchWorld ==
  ASSUME DispatchInv, TypeInv',
         HandleUploaded \/ CoordRestart \/ \E h \in Handle : Elapse(h) \/ Prune(h)
  PROVE  DispatchInv'
<1> USE DEF DispatchInv, TypeInv
<1>1. CASE HandleUploaded
  <2>1. \A h \in uploaded : idOf'[h] = idOf[h]
    BY <1>1 DEF HandleUploaded, TypeOK, IssuedInv
  <2>2. \A e \in Dispatchers, h \in Handle : Holds(e, h) => h \in uploaded
    BY DEF Holds, IssuedInv
  <2>3. PlacesInv' /\ \A e \in Dispatchers, h \in Handle : Holds(e, h)' <=> Holds(e, h)
    BY <1>1 DEF HandleUploaded, start, PlacesInv, Holds
  <2>4. \A t \in Task : spc[t] # "none" => t[1] \in uploaded
    BY DEF IssuedInv
  <2>5. \A t \in Task : fd[t] = "result" => spc[t] # "none"
    BY DEF HoldInv
  <2>6. HoldInv'
    BY <1>1, <2>1, <2>2, <2>3, <2>4, <2>5 DEF HandleUploaded, start, submit, files, HoldInv, Over
  <2>7. OneDispatcher'
    BY <1>1, <2>1, <2>2, <2>3 DEF HandleUploaded, files, OneDispatcher
  <2> QED BY <2>3, <2>6, <2>7
<1>2. CASE CoordRestart
  BY <1>2 DEF CoordRestart, submit, files, PlacesInv, HoldInv, OneDispatcher, Holds, Over
<1>3. ASSUME NEW h \in Handle, Elapse(h) \/ Prune(h) PROVE DispatchInv'
  <2>1. UNCHANGED <<idOf, dpc, start, submit, files>> /\ hist \subseteq hist'
    BY <1>3 DEF Elapse, Prune, coord
  <2>2. <<h, "elapsed">> \in hist'
    BY <1>3 DEF Elapse, Prune, HoldInv
  <2>3. PlacesInv' /\ \A e \in Dispatchers, g \in Handle : Holds(e, g)' <=> Holds(e, g)
    BY <2>1 DEF start, PlacesInv, Holds
  <2>4. HoldInv'
    BY <1>3, <2>1, <2>2, <2>3 DEF Elapse, Prune, start, submit, files, TypeOK, HoldInv, Over
  <2>5. OneDispatcher'
    BY <2>1, <2>3 DEF files, OneDispatcher
  <2> QED BY <2>3, <2>4, <2>5
<1> QED BY <1>1, <1>2, <1>3

\* Tasks and submissions: files do not become absent again, and only a
\* submission that has renamed its file releases the handle.
LEMMA DispatchSubmit ==
  ASSUME DispatchInv, TypeInv', NEW t \in Task, TaskLost(t) \/ Submit(t) \/ Collate(t)
  PROVE  DispatchInv'
<1> USE DEF DispatchInv, TypeInv
<1>0. /\ UNCHANGED <<coord, dpc, start, hist>> /\ t[1] \in Handle
      /\ processing' \in {processing, [processing EXCEPT ![t[1]] = "none"]}
  BY DEF TaskLost, Submit, Collate, CreateTmp, Encode, Rename, RenameFails, Discard, Untrack,
         Notify, Task
<1>1. PlacesInv' /\ \A e \in Dispatchers, h \in Handle : Holds(e, h)' <=> Holds(e, h)
  BY <1>0 DEF start, PlacesInv, Holds
<1>2. \A u \in Task : spc[u] # "none" => idOf[u[1]] \in Id
  BY DEF IssuedInv
<1>3. t = <<t[1], t[2]>> /\ \A u \in Task : u[1] \in Handle
  BY DEF Task
<1> DEFINE Kept == \A i \in Id : result[i] # Absent => result'[i] # Absent
           Tasks == \A u \in Task :
                       /\ spc'[u] \in {"untrack", "notify"} => result'[idOf[u[1]]] # Absent
                       /\ payload'[u] \subseteq Chunk \X Handle
                       /\ fd'[u] # "none" => spc'[u] = "encode"
                       /\ fd'[u] = "result" => result'[idOf[u[1]]] # Absent
           Freed == UNCHANGED processing \/ (idOf[t[1]] \in Id /\ result[idOf[t[1]]] # Absent)
<1>4. ASSUME TaskLost(t) PROVE Kept /\ Tasks /\ Freed
  BY <1>4 DEF TaskLost, submit, files, HoldInv
<1>5. ASSUME Submit(t) PROVE Kept /\ Tasks /\ Freed
  <2>1. idOf[t[1]] \in Id /\ t[1] \in Handle /\ t[2] \in Chunk
    BY <1>5 DEF Submit, IssuedInv, Task
  <2>2. [results[idOf[t[1]]] EXCEPT ![t[2]] = t[1]] \in [Chunk -> 0 .. MaxHandle]
    <3>1. results[idOf[t[1]]] \in [Chunk -> 0 .. MaxHandle]
      BY <2>1 DEF TypeOK
    <3>2. t[1] \in 0 .. MaxHandle
      BY <2>1 DEF Handle
    <3> QED BY <2>1, <3>1, <3>2
  <2>3. \A rs \in [Chunk -> 0 .. MaxHandle] : Collated(rs) \subseteq Chunk \X Handle
    BY CollatedType
  <2>4. \/ payload' = [payload EXCEPT ![t] = Empty]
        \/ payload' = [payload EXCEPT ![t] = Collated([results[idOf[t[1]]] EXCEPT ![t[2]] = t[1]])]
    BY <1>5 DEF Submit, IssuedInv
  <2>5. \A u \in Task : payload'[u] \subseteq Chunk \X Handle
    <3>1. PICK p : p \subseteq Chunk \X Handle /\ payload' = [payload EXCEPT ![t] = p]
      <4>1. Empty \subseteq Chunk \X Handle
        BY DEF Empty
      <4> QED BY <2>2, <2>3, <2>4, <4>1
    <3> QED BY <3>1 DEF TypeOK, HoldInv
  <2>6. UNCHANGED <<processing, fd, files>> /\ spc[t] = "none"
        /\ \E x \in {"create", "none"} : spc' = [spc EXCEPT ![t] = x]
    BY <1>5 DEF Submit
  <2> QED BY <2>5, <2>6 DEF files, TypeOK, HoldInv
<1>6. ASSUME CreateTmp(t) PROVE Kept /\ Tasks /\ Freed
  <2>1. /\ UNCHANGED <<processing, result>> /\ spc[t] = "create"
        /\ \/ spc' = [spc EXCEPT ![t] = "encode"] /\ fd' = [fd EXCEPT ![t] = "tmp"]
              /\ UNCHANGED payload
           \/ spc' = [spc EXCEPT ![t] = "none"] /\ UNCHANGED fd
              /\ payload' = [payload EXCEPT ![t] = Empty]
    BY <1>6 DEF CreateTmp
  <2> QED BY <2>1 DEF TypeOK, HoldInv, Empty
<1>7. ASSUME Encode(t) PROVE Kept /\ Tasks /\ Freed
  <2>1. /\ UNCHANGED <<processing, payload>> /\ spc[t] = "encode"
        /\ fd' = [fd EXCEPT ![t] = "none"]
        /\ \E x \in {"rename", "discard"} : spc' = [spc EXCEPT ![t] = x]
        /\ WriteOpenFile(t, "whole") \/ WriteOpenFile(t, "part")
    BY <1>7 DEF Encode
  <2>2. payload[t] # Absent /\ Torn # Absent
    BY NotAbsent DEF HoldInv
  <2>3. UNCHANGED result \/ \E c : c # Absent /\ result' = [result EXCEPT ![idOf[t[1]]] = c]
    <3>1. fd[t] = "result" => result[idOf[t[1]]] # Absent
      BY DEF HoldInv
    <3>2. CASE fd[t] = "result"
      <4> DEFINE old == result[idOf[t[1]]]
                 new == Written(old, payload[t]) \cup WrittenInPart(old)
      <4>1. PICK c \in new : result' = [result EXCEPT ![idOf[t[1]]] = c]
        BY <2>1, <3>2 DEF WriteOpenFile
      <4>2. Absent \notin Written(old, payload[t]) /\ Absent \notin WrittenInPart(old)
        BY <2>2, <3>1, <3>2 DEF Written, WrittenInPart
      <4>3. c # Absent
        BY <4>2
      <4> QED BY <4>1, <4>3
    <3>3. CASE fd[t] # "result"
      BY <2>1, <3>3 DEF WriteOpenFile, files
    <3> QED BY <3>2, <3>3
  <2>4. Kept
    BY <2>3 DEF TypeOK
  <2> QED BY <1>2, <2>1, <2>4 DEF TypeOK, HoldInv
<1>8. ASSUME Rename(t) PROVE Kept /\ Tasks /\ Freed
  <2>1. /\ UNCHANGED <<processing, payload>> /\ spc[t] = "rename"
        /\ spc' = [spc EXCEPT ![t] = "untrack"]
        /\ tmp[idOf[t[1]]] # Absent
        /\ result' = [result EXCEPT ![idOf[t[1]]] = tmp[idOf[t[1]]]]
    BY <1>8 DEF Rename
  <2>2. \A u \in Task : /\ fd'[u] # "none" => fd[u] # "none"
                        /\ fd'[u] = "result" => \/ fd[u] = "result"
                                                \/ idOf[u[1]] = idOf[t[1]]
    BY <1>8 DEF Rename
  <2>3. Kept /\ result'[idOf[t[1]]] # Absent
    BY <1>2, <2>1 DEF TypeOK
  <2> QED BY <1>2, <2>1, <2>2, <2>3 DEF TypeOK, HoldInv
<1>9. ASSUME RenameFails(t) PROVE Kept /\ Tasks /\ Freed
  BY <1>9 DEF RenameFails, files, TypeOK, HoldInv
<1>10. ASSUME Discard(t) PROVE Kept /\ Tasks /\ Freed
  <2>1. /\ UNCHANGED <<processing, result>> /\ spc[t] = "discard"
        /\ spc' = [spc EXCEPT ![t] = "none"] /\ payload' = [payload EXCEPT ![t] = Empty]
    BY <1>10 DEF Discard
  <2>2. \A u \in Task : fd'[u] # "none" => fd'[u] = fd[u]
    BY <1>10 DEF Discard
  <2> QED BY <2>1, <2>2 DEF TypeOK, HoldInv, Empty
<1>11. ASSUME Untrack(t) PROVE Kept /\ Tasks /\ Freed
  BY <1>11 DEF Untrack, files, TypeOK, HoldInv, Empty
<1>12. ASSUME Notify(t) PROVE Kept /\ Tasks /\ Freed
  BY <1>2, <1>12 DEF Notify, files, TypeOK, HoldInv
<1>13. Kept /\ Tasks /\ Freed
  BY <1>4, <1>5, <1>6, <1>7, <1>8, <1>9, <1>10, <1>11, <1>12 DEF Collate
<1>14. \A e \in Dispatchers, h \in Handle : Holds(e, h) => idOf[h] \in Id
  BY DEF Holds, IssuedInv
<1>15. HoldInv'
  BY <1>0, <1>1, <1>13, <1>14 DEF coord, start, TypeOK, HoldInv, Over
<1>16. OneDispatcher'
  BY <1>0, <1>1, <1>13, <1>14 DEF coord, OneDispatcher
<1> QED BY <1>1, <1>15, <1>16

LEMMA DispatchStep == DispatchInv /\ [Next]_vars => DispatchInv'
<1> SUFFICES ASSUME DispatchInv, [Next]_vars PROVE DispatchInv'
  OBVIOUS
<1>0. TypeInv'
  BY TypeStep DEF DispatchInv
<1>1. CASE UNCHANGED vars
  BY <1>0, <1>1 DEF vars, coord, start, submit, files, DispatchInv, PlacesInv, HoldInv,
                    OneDispatcher, Holds, Over
<1>2. CASE Next
  BY <1>0, <1>2, DispatchScan, DispatchCall, DispatchWorld, DispatchSubmit DEF Next, Dispatch
<1> QED BY <1>1, <1>2

\* No lock keeps the dispatchers apart, yet two of them hold one handle only
\* after its TTL has run out or once its result is there: for any number of
\* dispatchers, handles and chunks, whatever fails and through any number of
\* restarts of the coordinator.
THEOREM DispatchedByOne == Spec => []OneDispatcher
<1>1. DispatchInv => OneDispatcher
  BY DEF DispatchInv
<1> QED BY <1>1, DispatchInit, DispatchStep, PTL DEF Spec

(* ---------------------- Whole results, without a restart ---------------------- *)

\* Until the coordinator restarts the Id of a handle is its own.
IdInv == restarts = 0 /\ nextHandle = issued /\ \A h \in uploaded : idOf[h] = h

\* The result files that one Id can have when nobody else has it.
FileOf(h) == {Absent, Empty, Torn, Complete(h)}

\* A file of an Id is absent, truncated, torn or complete, and what is collated
\* is complete.
FileInv ==
    /\ \A h \in Handle : /\ tmp[h] \in FileOf(h) /\ result[h] \in FileOf(h)
                         /\ \A c \in Chunk : results[h][c] \in {NoHandle, h}
    /\ \A t \in Task : spc[t] \in {"create", "encode"} => payload[t] = Complete(t[1])

Taken(h) == <<h, "taken">> \in hist
Once(h) == <<h, "again">> \notin hist

\* What the registry or a restamping dispatcher knows has been taken.
TakenInv ==
    /\ \A h \in Handle : processing[h] # "none" => Taken(h)
    /\ \A d \in Dispatchers : dpc[d] = "restamp" => Taken(cur[d])

\* Nothing is running and nothing has been submitted for the chunk.
Untouched(h, c) == running[<<h, c>>] = 0 /\ results[h][c] = NoHandle

\* A handle taken at most once is held by one dispatcher at most, and each of
\* its chunks is dispatched at most once and submitted at most once.
ChunkInv ==
    \A h \in Handle : Once(h) =>
       /\ \A d \in Dispatchers : Holds(d, h) => Taken(h)
       /\ \A d, e \in Dispatchers : Holds(d, h) /\ Holds(e, h) => d = e
       /\ ~Taken(h) => \A c \in Chunk : Untouched(h, c)
       /\ \A d \in Dispatchers : h \in list[d] => \A c \in Chunk : Untouched(h, c)
       /\ \A d \in Dispatchers : dpc[d] = "call" /\ cur[d] = h =>
             \A c \in left[d] : Untouched(h, c)
       /\ \A c \in Chunk : running[<<h, c>>] # 0 =>
             running[<<h, c>>] = 1 /\ results[h][c] = NoHandle

\* So one submission at most collates it, and finds its .tmp file as it left it:
\* it writes to an empty file, which cannot be torn, and renames a whole one.
CollateInv ==
    \A h \in Handle : Once(h) =>
       /\ result[h] \notin {Empty, Torn}
       /\ \A c \in Chunk : spc[<<h, c>>] # "none" => \A k \in Chunk : results[h][k] = h
       /\ \A c, k \in Chunk : spc[<<h, c>>] # "none" /\ spc[<<h, k>>] # "none" => c = k
       /\ \A c \in Chunk : spc[<<h, c>>] = "encode" => fd[<<h, c>>] = "tmp" /\ tmp[h] = Empty
       /\ \A c \in Chunk : spc[<<h, c>>] = "rename" => tmp[h] = Complete(h)

ResultInv == DispatchInv /\ IdInv /\ FileInv /\ TakenInv /\ ChunkInv /\ CollateInv

\* Enough results of one handle are all its results.
LEMMA WholeResult ==
  ASSUME NEW h \in Handle, NEW rs \in [Chunk -> {NoHandle, h}],
         Cardinality(Collated(rs)) >= Chunks
  PROVE  Collated(rs) = Complete(h) /\ \A c \in Chunk : rs[c] = h
<1> DEFINE f == [c \in Chunk |-> <<c, h>>]
<1>1. IsFiniteSet(Chunk) /\ Cardinality(Chunk) = Chunks
  BY FS_Interval, SizesAssumption DEF Chunk
<1>2. f \in Bijection(Chunk, Complete(h))
  <2>1. f \in [Chunk -> Complete(h)] /\ \A c, k \in Chunk : f[c] = f[k] => c = k
    BY DEF Complete
  <2>2. \A p \in Complete(h) : \E c \in Chunk : f[c] = p
    BY DEF Complete
  <2> QED BY <2>1, <2>2 DEF Bijection, Injection, IsInjective, Surjection
<1>3. IsFiniteSet(Complete(h)) /\ Cardinality(Complete(h)) = Chunks
  BY <1>1, <1>2, FS_Bijection DEF ExistsBijection
<1>4. Collated(rs) \in SUBSET Complete(h)
  BY DEF Collated, Complete, NoHandle
<1>5. /\ Cardinality(Collated(rs)) <= Chunks
      /\ Chunks = Cardinality(Collated(rs)) => Complete(h) = Collated(rs)
  BY <1>3, <1>4, FS_Subset
<1>6. Cardinality(Collated(rs)) \in Nat
  BY <1>3, <1>4, FS_Subset, FS_CardinalityType
<1>7. Collated(rs) = Complete(h)
  BY <1>5, <1>6, SizesAssumption
<1>8. ASSUME NEW c \in Chunk PROVE rs[c] = h
  <2>1. <<c, h>> \in Collated(rs)
    BY <1>7 DEF Complete
  <2> QED BY <2>1 DEF Collated
<1> QED BY <1>7, <1>8

\* The four things a file can be are different.
LEMMA ContentsDiffer ==
  ASSUME NEW h \in Handle
  PROVE  /\ Absent \notin {Empty, Torn}
         /\ Complete(h) \notin {Absent, Empty, Torn}
<1>1. 1 \in Chunk /\ <<1, h>> \in Complete(h) /\ Complete(h) \subseteq Chunk \X Handle
  BY SizesAssumption DEF Chunk, Complete
<1>2. <<0, 1>> \in Torn /\ <<0, 1>> \notin Chunk \X Handle
  BY DEF Torn, Chunk
<1> QED BY <1>1, <1>2, NotAbsent DEF Empty

LEMMA ResultInit == Init => ResultInv
<1> SUFFICES ASSUME Init PROVE ResultInv
  OBVIOUS
<1>1. DispatchInv
  BY DispatchInit
<1>2. IdInv /\ FileInv /\ TakenInv
  BY DEF Init, IdInv, FileInv, FileOf, TakenInv, Handle, Id, Task
<1>3. ChunkInv
  BY DEF Init, ChunkInv, Holds, Untouched, Handle, Id, Task
<1>4. \A h \in Handle : result[h] = Absent /\ \A c \in Chunk : spc[<<h, c>>] = "none"
  BY DEF Init, Handle, Id, Task
<1>5. CollateInv
  BY <1>4, ContentsDiffer DEF CollateInv
<1> QED BY <1>1, <1>2, <1>3, <1>5 DEF ResultInv

\* Without a restart every handle keeps the Id that it alone has.
LEMMA IdStep ==
  ASSUME MaxRestarts = 0, IdInv, TypeInv, Next
  PROVE  IdInv'
<1>1. CASE HandleUploaded
  <2>1. /\ issued + 1 \in Handle /\ uploaded = 1 .. issued /\ uploaded \subseteq Handle
        /\ issued \in Nat
    BY <1>1, SizesAssumption DEF HandleUploaded, TypeInv, TypeOK, IssuedInv, Handle
  <2>2. nextHandle' = issued' /\ restarts' = 0
    BY <1>1, <2>1 DEF HandleUploaded, IdInv
  <2>3. \A h \in uploaded' : idOf'[h] = h
    BY <1>1, <2>1 DEF HandleUploaded, IdInv, TypeInv, TypeOK
  <2> QED BY <2>2, <2>3 DEF IdInv
<1>2. CASE CoordRestart
  BY <1>2 DEF CoordRestart, IdInv
<1>3. CASE UNCHANGED <<coord, restarts>>
  BY <1>3 DEF coord, IdInv
<1>4. ASSUME NEW d \in Dispatchers, StartMapReduce(d) \/ Dispatch(d)
      PROVE  UNCHANGED <<coord, restarts>>
  BY <1>4 DEF StartMapReduce, Dispatch, Scan, TakeFree, SkipBusy, SeeStale, Restamp, ScanDone,
              DispatchDone, CallMaster, DispatchChunk, CallReturns, Release
<1>5. ASSUME NEW h \in Handle, Elapse(h) \/ Prune(h) PROVE UNCHANGED <<coord, restarts>>
  BY <1>5 DEF Elapse, Prune
<1>6. ASSUME NEW t \in Task, TaskLost(t) \/ Submit(t) \/ Collate(t)
      PROVE  UNCHANGED <<coord, restarts>>
  BY <1>6 DEF TaskLost, Submit, Collate, CreateTmp, Encode, Rename, RenameFails, Discard,
              Untrack, Notify
<1> QED BY <1>1, <1>2, <1>3, <1>4, <1>5, <1>6 DEF Next

\* The steps that leave the tasks, the submissions and the files alone.
LEMMA ResultQuiet ==
  ASSUME ResultInv, UNCHANGED <<results, submit, files>>, hist \subseteq hist'
  PROVE  FileInv' /\ CollateInv'
BY DEF ResultInv, submit, files, FileInv, CollateInv, Once

\* A handle that is not taken again, is held by nobody new and is called for by
\* nobody new has its chunks as they were.
LEMMA ChunkQuiet ==
  ASSUME ChunkInv, UNCHANGED <<results, running>>, hist \subseteq hist',
         \A g \in Handle, e \in Dispatchers : Once(g)' =>
            /\ Holds(e, g)' => Holds(e, g)
            /\ g \in list'[e] => g \in list[e]
            /\ dpc'[e] = "call" /\ cur'[e] = g =>
                  dpc[e] = "call" /\ cur[e] = g /\ left'[e] = left[e]
  PROVE  ChunkInv'
<1>1. \A g \in Handle : Once(g)' => Once(g) /\ (Taken(g) => Taken(g)')
  BY DEF Once, Taken
<1>2. \A g, c : Untouched(g, c)' <=> Untouched(g, c)
  BY DEF Untouched
<1> QED BY <1>1, <1>2 DEF ChunkInv

\* New handles, the scan, the end of a dispatch, and time.
LEMMA ResultScan ==
  ASSUME ResultInv, DispatchInv',
         \/ HandleUploaded
         \/ \E d \in Dispatchers : \/ StartMapReduce(d) \/ Scan(d) \/ Restamp(d)
                                   \/ ScanDone(d) \/ DispatchDone(d) \/ Release(d)
         \/ \E h \in Handle : Elapse(h) \/ Prune(h)
  PROVE  FileInv' /\ TakenInv' /\ ChunkInv' /\ CollateInv'
<1> USE DEF ResultInv, DispatchInv, TypeInv
<1>1. UNCHANGED <<results, running, submit, files>> /\ hist \subseteq hist'
  BY DEF HandleUploaded, StartMapReduce, Scan, TakeFree, SkipBusy, SeeStale, Restamp, Took,
         ScanDone, DispatchDone, Release, Elapse, Prune
<1>2. FileInv' /\ CollateInv'
  BY <1>1, ResultQuiet
<1> DEFINE Quiet == \A g \in Handle, e \in Dispatchers : Once(g)' =>
                       /\ Holds(e, g)' => Holds(e, g)
                       /\ g \in list'[e] => g \in list[e]
                       /\ dpc'[e] = "call" /\ cur'[e] = g =>
                             dpc[e] = "call" /\ cur[e] = g /\ left'[e] = left[e]
<1>3. ASSUME HandleUploaded PROVE TakenInv' /\ Quiet
  BY <1>3 DEF HandleUploaded, start, TakenInv, Taken, Holds
<1>4. ASSUME NEW d \in Dispatchers, StartMapReduce(d) PROVE TakenInv' /\ Quiet
  BY <1>4 DEF StartMapReduce, TypeOK, TakenInv, Taken, Holds
<1>5. ASSUME NEW d \in Dispatchers, NEW h \in Handle, TakeFree(d, h)
      PROVE  TakenInv' /\ ChunkInv'
  <2>0. \/ Taken(h) /\ hist' = hist \cup {<<h, "again">>}
        \/ ~Taken(h) /\ hist' = hist \cup {<<h, "taken">>}
    BY <1>5 DEF TakeFree, Took, Taken
  <2>1. Taken(h)' /\ (Once(h)' => ~Taken(h))
    BY <2>0 DEF Taken, Once
  <2>2. TakenInv'
    <3>1. \A g \in Handle : Taken(g) => Taken(g)'
      BY <1>1 DEF Taken
    <3>2. \A g \in Handle : processing'[g] # "none" => Taken(g)'
      BY <1>5, <2>1, <3>1 DEF TakeFree, TypeOK, TakenInv
    <3>3. \A e \in Dispatchers : dpc'[e] = "restamp" => Taken(cur[e])'
      BY <1>1, <1>5 DEF TakeFree, TakenInv, Taken
    <3> QED BY <3>2, <3>3 DEF TakenInv
  <2>3. \A g \in Handle, e \in Dispatchers : Holds(e, g)' => Holds(e, g) \/ (e = d /\ g = h)
    BY <1>5 DEF TakeFree, TypeOK, Holds
  <2>4. \A g \in Handle, e \in Dispatchers : g \in list'[e] => g \in list[e] \/ g = h
    BY <1>5 DEF TakeFree, TypeOK
  <2>5. UNCHANGED <<dpc, cur, left>>
    BY <1>5 DEF TakeFree
  <2>6. \A g \in Handle : Once(g)' => Once(g) /\ (Taken(g) => Taken(g)')
    BY <1>1 DEF Once, Taken
  <2>7. \A g, c : Untouched(g, c)' <=> Untouched(g, c)
    BY <1>1 DEF Untouched
  <2>8. ASSUME NEW g \in Handle, Once(g)'
        PROVE  /\ \A e \in Dispatchers : Holds(e, g)' => Taken(g)'
               /\ \A e, f \in Dispatchers : Holds(e, g)' /\ Holds(f, g)' => e = f
               /\ ~Taken(g)' => \A c \in Chunk : Untouched(g, c)
               /\ \A e \in Dispatchers : g \in list'[e] => \A c \in Chunk : Untouched(g, c)
               /\ \A e \in Dispatchers : dpc'[e] = "call" /\ cur'[e] = g =>
                     \A c \in left'[e] : Untouched(g, c)
               /\ \A c \in Chunk : running'[<<g, c>>] # 0 =>
                     running'[<<g, c>>] = 1 /\ results'[g][c] = NoHandle
    <3>1. CASE g = h
      BY <1>1, <2>1, <2>3, <2>4, <2>5, <2>6, <2>8, <3>1 DEF ChunkInv
    <3>2. CASE g # h
      BY <1>1, <2>3, <2>4, <2>5, <2>6, <2>8, <3>2 DEF ChunkInv
    <3> QED BY <3>1, <3>2
  <2>9. ChunkInv'
    BY <2>7, <2>8 DEF ChunkInv
  <2> QED BY <2>2, <2>9
<1>6. ASSUME NEW d \in Dispatchers, NEW h \in Handle, SkipBusy(d, h)
      PROVE  TakenInv' /\ Quiet
  BY <1>6 DEF SkipBusy, TakenInv, Taken, Holds
<1>7. ASSUME NEW d \in Dispatchers, NEW h \in Handle, SeeStale(d, h)
      PROVE  TakenInv' /\ Quiet
  BY <1>7 DEF SeeStale, TypeOK, TakenInv, Taken, Holds
<1>8. ASSUME NEW d \in Dispatchers, Restamp(d) PROVE TakenInv' /\ Quiet
  <2>1. cur[d] \in Handle /\ Taken(cur[d])
    BY <1>8 DEF Restamp, TypeOK, IssuedInv, TakenInv
  <2>2. \A g \in Handle : g = cur[d] => ~Once(g)'
    BY <1>8, <2>1 DEF Restamp, Took, Taken, Once
  <2>3. TakenInv'
    BY <1>1, <1>8, <2>1 DEF Restamp, TypeOK, TakenInv, Taken
  <2>4. Quiet
    BY <1>8, <2>2 DEF Restamp, TypeOK, Holds
  <2> QED BY <2>3, <2>4
<1>9. ASSUME NEW d \in Dispatchers, ScanDone(d) PROVE TakenInv' /\ Quiet
  BY <1>9 DEF ScanDone, start, TypeOK, TakenInv, Taken, Holds
<1>10. ASSUME NEW d \in Dispatchers, DispatchDone(d) PROVE TakenInv' /\ Quiet
  BY <1>10 DEF DispatchDone, TypeOK, TakenInv, Taken, Holds
<1>11. ASSUME NEW d \in Dispatchers, Release(d) PROVE TakenInv' /\ Quiet
  BY <1>11 DEF Release, start, TypeOK, TakenInv, Taken, Holds
<1>12. ASSUME NEW h \in Handle, Elapse(h) \/ Prune(h) PROVE TakenInv' /\ Quiet
  BY <1>1, <1>12 DEF Elapse, Prune, start, TypeOK, TakenInv, Taken, Holds
<1>13. Quiet => ChunkInv'
  BY <1>1, ChunkQuiet
<1> QED
  BY <1>2, <1>3, <1>4, <1>5, <1>6, <1>7, <1>8, <1>9, <1>10, <1>11, <1>12, <1>13 DEF Scan

\* The call of the master.
LEMMA ResultCall ==
  ASSUME ResultInv, DispatchInv', NEW d \in Dispatchers,
         CallMaster(d) \/ DispatchChunk(d) \/ CallReturns(d)
  PROVE  FileInv' /\ TakenInv' /\ ChunkInv' /\ CollateInv'
<1> USE DEF ResultInv, DispatchInv, TypeInv
<1>1. UNCHANGED <<processing, results, submit, files, hist>> /\ hist \subseteq hist'
  BY DEF CallMaster, DispatchChunk, CallReturns
<1>2. FileInv' /\ CollateInv'
  BY <1>1, ResultQuiet
<1>3. \A g : (Once(g)' <=> Once(g)) /\ (Taken(g)' <=> Taken(g))
  BY <1>1 DEF Once, Taken
<1>4. ASSUME CallMaster(d) PROVE TakenInv' /\ ChunkInv'
  <2>1. PICK h \in list[d] :
           /\ list' = [list EXCEPT ![d] = @ \ {h}]
           /\ cur' = [cur EXCEPT ![d] = h]
           /\ \/ dpc' = [dpc EXCEPT ![d] = "call"]
              \/ dpc' = [dpc EXCEPT ![d] = "release"] /\ UNCHANGED left
    BY <1>4 DEF CallMaster
  <2>2. /\ dpc[d] = "next" /\ UNCHANGED <<processing, running>>
        /\ \A e \in Dispatchers \ {d} : left'[e] = left[e]
    BY <1>4 DEF CallMaster, TypeOK
  <2>3. /\ \A e \in Dispatchers \ {d} : dpc'[e] = dpc[e] /\ cur'[e] = cur[e] /\ list'[e] = list[e]
        /\ dpc'[d] \in {"call", "release"} /\ cur'[d] = h /\ list'[d] \subseteq list[d]
    BY <2>1 DEF TypeOK
  <2>4. \A e \in Dispatchers, g \in Handle : Holds(e, g)' => Holds(e, g)
    BY <2>3 DEF Holds
  <2>5. TakenInv'
    <3>1. \A g \in Handle : processing'[g] # "none" => Taken(g)'
      BY <1>3, <2>2 DEF TakenInv
    <3>2. \A e \in Dispatchers : dpc'[e] = "restamp" => Taken(cur[e])'
      BY <1>1, <2>3 DEF TakenInv, Taken
    <3> QED BY <3>1, <3>2 DEF TakenInv
  <2>6. \A g, c : Untouched(g, c)' <=> Untouched(g, c)
    BY <1>1, <2>2 DEF Untouched
  <2>7. ASSUME NEW g \in Handle, Once(g), NEW e \in Dispatchers,
               dpc'[e] = "call" /\ cur'[e] = g, NEW c \in left'[e]
        PROVE  Untouched(g, c)
    <3>1. CASE e = d
      <4>1. g \in list[d] /\ left'[d] \subseteq Chunk
        BY <2>1, <2>3, <2>7, <3>1 DEF TypeOK
      <4> QED BY <2>7, <3>1, <4>1 DEF ChunkInv
    <3>2. CASE e # d
      BY <2>2, <2>3, <2>7, <3>2 DEF ChunkInv
    <3> QED BY <3>1, <3>2
  <2>8. ChunkInv'
    BY <1>1, <1>3, <2>2, <2>3, <2>4, <2>6, <2>7 DEF ChunkInv
  <2> QED BY <2>5, <2>8
<1>5. ASSUME DispatchChunk(d) PROVE TakenInv' /\ ChunkInv'
  <2>1. PICK c \in left[d] :
           /\ left' = [left EXCEPT ![d] = @ \ {c}]
           /\ \/ UNCHANGED running
              \/ running' = [running EXCEPT ![<<cur[d], c>>] = @ + 1]
    BY <1>5 DEF DispatchChunk
  <2>2. dpc[d] = "call" /\ UNCHANGED <<dpc, list, cur>>
    BY <1>5 DEF DispatchChunk
  <2>3. PICK h \in Handle : h = cur[d]
    BY <2>2 DEF IssuedInv, TypeOK
  <2>4. /\ c \in Chunk /\ <<h, c>> \in Task /\ Holds(d, h) /\ h \notin list[d]
        /\ Once(h) => Taken(h) /\ Untouched(h, c)
    BY <2>1, <2>2, <2>3 DEF TypeOK, Task, Holds, PlacesInv, ChunkInv
  <2>5. TakenInv'
    BY <1>1, <2>2 DEF TakenInv, Taken
  <2>6. \A e \in Dispatchers, g \in Handle : Holds(e, g)' <=> Holds(e, g)
    BY <2>2 DEF Holds
  <2>7. /\ \A g \in Handle, k \in Chunk : Untouched(g, k) /\ <<g, k>> # <<h, c>> => Untouched(g, k)'
        /\ \A g \in Handle, k \in Chunk : <<g, k>> # <<h, c>> => running'[<<g, k>>] = running[<<g, k>>]
        /\ Once(h) => running'[<<h, c>>] \in {0, 1}
    BY <1>1, <2>1, <2>3, <2>4 DEF TypeOK, Task, Untouched
  <2>8. ASSUME NEW g \in Handle, Once(g)
        PROVE  /\ ~Taken(g) => \A k \in Chunk : Untouched(g, k)'
               /\ \A e \in Dispatchers : g \in list[e] => \A k \in Chunk : Untouched(g, k)'
               /\ \A e \in Dispatchers : dpc[e] = "call" /\ cur[e] = g =>
                     \A k \in left'[e] : Untouched(g, k)'
               /\ \A k \in Chunk : running'[<<g, k>>] # 0 =>
                     running'[<<g, k>>] = 1 /\ results[g][k] = NoHandle
    <3>1. \A e \in Dispatchers : left'[e] \subseteq left[e] /\ left[e] \subseteq Chunk
      BY <2>1 DEF TypeOK
    <3>2. CASE g # h
      BY <2>7, <2>8, <3>1, <3>2 DEF ChunkInv
    <3>3. CASE g = h
      <4>1. \A e \in Dispatchers : Holds(e, g) => e = d
        BY <2>4, <2>8, <3>3 DEF ChunkInv
      <4>2. \A e \in Dispatchers : g \notin list[e]
        BY <2>4, <3>3, <4>1 DEF Holds
      <4>3. \A e \in Dispatchers : dpc[e] = "call" /\ cur[e] = g => e = d
        BY <4>1 DEF Holds
      <4>4. \A k \in left'[d] : Untouched(g, k)'
        BY <2>1, <2>2, <2>3, <2>7, <2>8, <3>1, <3>3 DEF ChunkInv, TypeOK
      <4>5. \A k \in Chunk : running'[<<g, k>>] # 0 =>
               running'[<<g, k>>] = 1 /\ results[g][k] = NoHandle
        BY <2>4, <2>7, <2>8, <3>3 DEF ChunkInv, Untouched
      <4> QED BY <2>4, <2>8, <3>3, <4>2, <4>3, <4>4, <4>5
    <3> QED BY <3>2, <3>3
  <2>9. ChunkInv'
    BY <1>1, <1>3, <2>2, <2>6, <2>8 DEF ChunkInv
  <2> QED BY <2>5, <2>9
<1>6. ASSUME CallReturns(d) PROVE TakenInv' /\ ChunkInv'
  <2>1. /\ dpc[d] = "call" /\ UNCHANGED <<start, running>>
        /\ \E x \in {"next", "release"} : dpc' = [dpc EXCEPT ![d] = x]
    BY <1>6 DEF CallReturns
  <2>2. TakenInv'
    BY <1>1, <2>1 DEF start, TypeOK, TakenInv, Taken
  <2>3. \A g \in Handle, e \in Dispatchers :
            /\ Holds(e, g)' => Holds(e, g)
            /\ g \in list'[e] => g \in list[e]
            /\ dpc'[e] = "call" /\ cur'[e] = g =>
                  dpc[e] = "call" /\ cur[e] = g /\ left'[e] = left[e]
    BY <2>1 DEF start, TypeOK, Holds
  <2>4. ChunkInv'
    BY <1>1, <2>1, <2>3, ChunkQuiet
  <2> QED BY <2>2, <2>4
<1> QED BY <1>2, <1>4, <1>5, <1>6

\* A submission leaves the dispatchers alone, and the chunks too once the result
\* has been stored.
LEMMA ChunkSubmit ==
  ASSUME ResultInv, DispatchInv', NEW h \in Handle, NEW c \in Chunk,
         TaskLost(<<h, c>>) \/ Submit(<<h, c>>) \/ Collate(<<h, c>>)
  PROVE  TakenInv' /\ ChunkInv'
<1> USE DEF ResultInv, DispatchInv, TypeInv
<1>1. /\ UNCHANGED <<coord, dpc, start, hist>> /\ hist \subseteq hist'
      /\ processing' \in {processing, [processing EXCEPT ![h] = "none"]}
  BY DEF TaskLost, Submit, Collate, CreateTmp, Encode, Rename, RenameFails, Discard, Untrack,
         Notify
<1>2. TakenInv'
  BY <1>1 DEF start, TypeOK, TakenInv, Taken
<1>3. \A g : (Once(g)' <=> Once(g)) /\ (Taken(g)' <=> Taken(g))
  BY <1>1 DEF Once, Taken
<1>4. \A g \in Handle, e \in Dispatchers : Holds(e, g)' <=> Holds(e, g)
  BY <1>1 DEF start, Holds
<1>5. <<h, c>> \in Task
  BY DEF Task
<1>6. CASE UNCHANGED <<running, results>>
  BY <1>1, <1>2, <1>4, <1>6, ChunkQuiet DEF start
<1>7. ASSUME running[<<h, c>>] > 0, running' = [running EXCEPT ![<<h, c>>] = @ - 1],
             \/ UNCHANGED results
             \/ results' = [results EXCEPT ![h] = [results[h] EXCEPT ![c] = h]]
      PROVE  ChunkInv'
  <2>1. \A g \in Handle, k \in Chunk :
           <<g, k>> # <<h, c>> => /\ running'[<<g, k>>] = running[<<g, k>>]
                                  /\ results'[g][k] = results[g][k]
    <3>1. \A u \in Task : u # <<h, c>> => running'[u] = running[u]
      BY <1>5, <1>7 DEF TypeOK
    <3>2. \A g \in Handle, k \in Chunk : <<g, k>> \in Task /\ results[g] \in [Chunk -> 0 .. MaxHandle]
      BY DEF TypeOK, Task, Handle, Id
    <3>3. \A g \in Handle, k \in Chunk : g # h \/ k # c => results'[g][k] = results[g][k]
      <4>1. results \in [Handle -> [Chunk -> 0 .. MaxHandle]]
        BY DEF TypeOK, Handle, Id
      <4> QED BY <1>7, <4>1
    <3> QED BY <3>1, <3>2, <3>3
  <2>2. \A g \in Handle, k \in Chunk : Untouched(g, k) => Untouched(g, k)'
    BY <1>7, <2>1 DEF Untouched
  <2>3. Once(h) => running'[<<h, c>>] = 0
    BY <1>5, <1>7 DEF TypeOK, ChunkInv
  <2>4. \A g \in Handle, k \in Chunk : Once(g) /\ running'[<<g, k>>] # 0 =>
           running'[<<g, k>>] = 1 /\ results'[g][k] = NoHandle
    BY <2>1, <2>3 DEF ChunkInv
  <2>5. \A e \in Dispatchers : left[e] \subseteq Chunk
    BY DEF TypeOK
  <2>6. UNCHANGED <<dpc, list, cur, left>>
    BY <1>1 DEF start
  <2> QED BY <1>3, <1>4, <2>2, <2>4, <2>5, <2>6 DEF ChunkInv
<1>8. CASE TaskLost(<<h, c>>)
  BY <1>2, <1>7, <1>8 DEF TaskLost
<1>9. CASE Submit(<<h, c>>)
  <2>1. idOf[h] = h /\ h \in Id
    BY <1>5, <1>9 DEF Submit, IssuedInv, IdInv, Handle, Id
  <2>2. results' = [results EXCEPT ![h] = [results[h] EXCEPT ![c] = h]]
    BY <1>9, <2>1 DEF Submit
  <2> QED BY <1>2, <1>7, <1>9, <2>1, <2>2 DEF Submit
<1>10. CASE Collate(<<h, c>>)
  BY <1>2, <1>6, <1>10 DEF Collate, CreateTmp, Encode, Rename, RenameFails, Discard, Untrack, Notify
<1> QED BY <1>8, <1>9, <1>10

\* A result is stored, and collated when it is the last one.
LEMMA ResultStored ==
  ASSUME ResultInv, DispatchInv', NEW h \in Handle, NEW c \in Chunk,
         TaskLost(<<h, c>>) \/ Submit(<<h, c>>)
  PROVE  FileInv' /\ CollateInv'
<1> USE DEF ResultInv, DispatchInv, TypeInv
<1>1. CASE TaskLost(<<h, c>>)
  <2>1. UNCHANGED <<results, submit, files, hist>>
    BY <1>1 DEF TaskLost
  <2> QED BY <2>1, ResultQuiet
<1>2. CASE Submit(<<h, c>>)
  <2> DEFINE rs == [results[h] EXCEPT ![c] = h]
             t == <<h, c>>
  <2>1. t \in Task /\ idOf[h] = h /\ h \in Id /\ Handle = Id /\ h # NoHandle
    BY <1>2 DEF Submit, IssuedInv, IdInv, Handle, Id, Task, NoHandle
  <2>2. rs \in [Chunk -> {NoHandle, h}]
    BY <2>1 DEF TypeOK, FileInv
  <2>3. /\ results' = [results EXCEPT ![h] = rs] /\ UNCHANGED <<fd, files, hist>>
        /\ running[t] > 0 /\ spc[t] = "none"
    BY <1>2, <2>1 DEF Submit
  <2>4. \/ /\ spc' = [spc EXCEPT ![t] = "none"]
           /\ payload' = [payload EXCEPT ![t] = Empty]
        \/ /\ Cardinality(Collated(rs)) >= Chunks
           /\ spc' = [spc EXCEPT ![t] = "create"]
           /\ payload' = [payload EXCEPT ![t] = Collated(rs)]
    <3>1. jobs[h] \in {0, Chunks}
      BY <2>1 DEF TypeOK
    <3> QED BY <1>2, <2>1, <3>1 DEF Submit, AllReceived
  <2>5. \/ /\ spc' = [spc EXCEPT ![t] = "none"]
        \/ /\ \A k \in Chunk : rs[k] = h
           /\ spc' = [spc EXCEPT ![t] = "create"]
           /\ payload' = [payload EXCEPT ![t] = Complete(h)]
    BY <2>2, <2>4, WholeResult
  <2>6. \A u \in Task : u # t => spc'[u] = spc[u] /\ payload'[u] = payload[u]
    BY <2>4 DEF TypeOK
  <2>7. \A g \in Handle, k \in Chunk : results'[g][k] \in {NoHandle, g}
    BY <2>1, <2>2, <2>3 DEF TypeOK, FileInv
  <2>8. \A u \in Task : spc'[u] \in {"create", "encode"} => payload'[u] = Complete(u[1])
    <3>1. spc'[t] \in {"create", "encode"} => payload'[t] = Complete(h)
      BY <2>1, <2>5 DEF TypeOK
    <3>2. t[1] = h
      OBVIOUS
    <3> QED BY <2>6, <3>1, <3>2 DEF FileInv
  <2>9. FileInv'
    BY <2>3, <2>7, <2>8 DEF files, FileInv
  <2>10. Once(h) => \A k \in Chunk : spc[<<h, k>>] = "none"
    <3>1. Once(h) => results[h][c] # h
      BY <2>1, <2>3 DEF ChunkInv, TypeOK
    <3> QED BY <3>1 DEF CollateInv
  <2>11. \A g \in Handle, k \in Chunk : <<g, k>> \in Task /\ (<<g, k>> = t => g = h /\ k = c)
    BY DEF Task
  <2>12. \A k \in Chunk : spc'[<<h, k>>] # "none" /\ Once(h) => /\ \A l \in Chunk : results'[h][l] = h
                                                            /\ k = c /\ spc'[<<h, k>>] = "create"
    <3>1. spc'[t] = "none" \/ (spc'[t] = "create" /\ \A l \in Chunk : rs[l] = h)
      BY <2>1, <2>5 DEF TypeOK
    <3>2. results'[h] = rs
      BY <2>1, <2>3 DEF TypeOK
    <3>3. \A k \in Chunk : k # c /\ Once(h) => spc'[<<h, k>>] = "none"
      BY <2>6, <2>10, <2>11
    <3> QED BY <3>1, <3>2, <3>3
  <2>13. \A g \in Handle \ {h} : results'[g] = results[g]
    BY <2>1, <2>3 DEF TypeOK
  <2>14. \A g \in Handle, k \in Chunk : g # h => spc'[<<g, k>>] = spc[<<g, k>>]
    BY <2>6, <2>11
  <2>15. CollateInv'
    BY <2>3, <2>12, <2>13, <2>14 DEF files, CollateInv, Once
  <2> QED BY <2>9, <2>15
<1> QED BY <1>1, <1>2

\* What a step of the submission <<h, c>> has to show: it touches the files of h
\* only, and the open files of other submissions of h.
LEMMA CollateFrame ==
  ASSUME ResultInv, NEW h \in Handle, NEW c \in Chunk, spc[<<h, c>>] # "none",
         UNCHANGED <<results, hist>>,
         \A g \in Handle \ {h} : tmp'[g] = tmp[g] /\ result'[g] = result[g],
         \A u \in Task : u # <<h, c>> => /\ spc'[u] = spc[u] /\ payload'[u] = payload[u]
                                         /\ u[1] # h => fd'[u] = fd[u],
         tmp'[h] \in FileOf(h), result'[h] \in FileOf(h),
         spc'[<<h, c>>] \in {"create", "encode"} => payload'[<<h, c>>] = Complete(h),
         Once(h) => /\ result'[h] \notin {Empty, Torn}
                    /\ spc'[<<h, c>>] = "encode" => fd'[<<h, c>>] = "tmp" /\ tmp'[h] = Empty
                    /\ spc'[<<h, c>>] = "rename" => tmp'[h] = Complete(h)
  PROVE  FileInv' /\ CollateInv'
<1> USE DEF ResultInv
<1> DEFINE t == <<h, c>>
<1>1. t \in Task /\ t[1] = h /\ \A u \in Task : u[1] \in Handle
  BY DEF Task
<1>2. FileInv'
  <2>1. \A g \in Handle : /\ tmp'[g] \in FileOf(g) /\ result'[g] \in FileOf(g)
                          /\ \A k \in Chunk : results'[g][k] \in {NoHandle, g}
    BY DEF FileInv
  <2>2. \A u \in Task : spc'[u] \in {"create", "encode"} => payload'[u] = Complete(u[1])
    BY <1>1 DEF FileInv
  <2> QED BY <2>1, <2>2 DEF FileInv, FileOf, Complete
<1>3. \A g \in Handle, k \in Chunk : <<g, k>> \in Task /\ (<<g, k>> = t <=> g = h /\ k = c)
                                     /\ <<g, k>>[1] = g
  BY DEF Task
<1>4. \A g \in Handle : Once(g)' <=> Once(g)
  BY DEF Once
<1>5. ASSUME NEW g \in Handle, Once(g), g # h
      PROVE  /\ result'[g] \notin {Empty, Torn}
             /\ \A k \in Chunk : spc'[<<g, k>>] # "none" => \A l \in Chunk : results'[g][l] = g
             /\ \A k, l \in Chunk : spc'[<<g, k>>] # "none" /\ spc'[<<g, l>>] # "none" => k = l
             /\ \A k \in Chunk : spc'[<<g, k>>] = "encode" =>
                   fd'[<<g, k>>] = "tmp" /\ tmp'[g] = Empty
             /\ \A k \in Chunk : spc'[<<g, k>>] = "rename" => tmp'[g] = Complete(g)
  <2>1. \A k \in Chunk : spc'[<<g, k>>] = spc[<<g, k>>] /\ fd'[<<g, k>>] = fd[<<g, k>>]
    BY <1>3, <1>5
  <2> QED BY <1>5, <2>1 DEF CollateInv
<1>6. ASSUME Once(h)
      PROVE  /\ \A k \in Chunk : spc'[<<h, k>>] # "none" => \A l \in Chunk : results'[h][l] = h
             /\ \A k \in Chunk : spc'[<<h, k>>] # "none" => k = c
  <2>1. \A k \in Chunk : k # c => spc'[<<h, k>>] = "none"
    BY <1>3, <1>6 DEF CollateInv
  <2> QED BY <1>6, <2>1 DEF CollateInv
<1>7. CollateInv'
  BY <1>4, <1>5, <1>6 DEF CollateInv
<1> QED BY <1>2, <1>7

\* The steps of a submission that collates.
LEMMA ResultCollated ==
  ASSUME ResultInv, DispatchInv', NEW h \in Handle, NEW c \in Chunk, Collate(<<h, c>>)
  PROVE  FileInv' /\ CollateInv'
<1> USE DEF ResultInv, DispatchInv, TypeInv
<1> DEFINE t == <<h, c>>
<1>1. t \in Task /\ t[1] = h /\ Handle = Id /\ h \in Id
  BY DEF Task, Handle, Id
<1>2. UNCHANGED <<results, hist>> /\ spc[t] # "none"
  BY DEF Collate, CreateTmp, Encode, Rename, RenameFails, Discard, Untrack, Notify
<1>3. idOf[h] = h
  BY <1>1, <1>2 DEF IssuedInv, IdInv
<1>4. /\ tmp[h] \in FileOf(h) /\ result[h] \in FileOf(h)
      /\ Once(h) => result[h] \notin {Empty, Torn}
      /\ {Absent, Empty, Torn, Complete(h)} \subseteq FileOf(h)
      /\ Complete(h) \notin {Empty, Torn}
  BY ContentsDiffer DEF FileInv, FileOf, CollateInv
<1>6. CASE CreateTmp(t)
  <2>1. /\ spc[t] = "create" /\ UNCHANGED result
        /\ \/ /\ spc' = [spc EXCEPT ![t] = "encode"] /\ fd' = [fd EXCEPT ![t] = "tmp"]
              /\ tmp' = [tmp EXCEPT ![h] = Empty] /\ UNCHANGED payload
           \/ /\ spc' = [spc EXCEPT ![t] = "none"] /\ UNCHANGED <<fd, tmp>>
              /\ payload' = [payload EXCEPT ![t] = Empty]
    BY <1>3, <1>6 DEF CreateTmp
  <2>2. payload[t] = Complete(h)
    BY <1>1, <2>1 DEF FileInv
  <2>3. \A g \in Handle \ {h} : tmp'[g] = tmp[g] /\ result'[g] = result[g]
    BY <2>1, <1>1 DEF TypeOK
  <2>4. \A u \in Task : u # t => spc'[u] = spc[u] /\ payload'[u] = payload[u] /\ fd'[u] = fd[u]
    BY <2>1 DEF TypeOK
  <2>5. /\ tmp'[h] \in FileOf(h)
        /\ spc'[t] \in {"create", "encode"} => payload'[t] = Complete(h)
        /\ spc'[t] = "encode" => fd'[t] = "tmp" /\ tmp'[h] = Empty
        /\ spc'[t] # "rename"
    BY <1>1, <1>4, <2>1, <2>2 DEF TypeOK
  <2> QED BY <1>2, <1>4, <2>1, <2>3, <2>4, <2>5, CollateFrame
<1>7. CASE Encode(t)
  <2>1. /\ spc[t] = "encode" /\ fd' = [fd EXCEPT ![t] = "none"] /\ UNCHANGED payload
        /\ \/ spc' = [spc EXCEPT ![t] = "rename"] /\ WriteOpenFile(t, "whole")
           \/ spc' = [spc EXCEPT ![t] = "discard"] /\ WriteOpenFile(t, "part")
    BY <1>7 DEF Encode
  <2>2. payload[t] = Complete(h) /\ (Once(h) => fd[t] = "tmp" /\ tmp[h] = Empty)
    BY <1>1, <2>1 DEF FileInv, CollateInv
  <2>3. \A old \in FileOf(h) : /\ Written(old, payload[t]) \subseteq FileOf(h)
                              /\ WrittenInPart(old) \subseteq FileOf(h)
    BY <1>4, <2>2 DEF Written, WrittenInPart
  <2>4. ASSUME NEW how \in {"whole", "part"}, WriteOpenFile(t, how)
        PROVE  /\ \/ \E x \in FileOf(h) : tmp' = [tmp EXCEPT ![h] = x]
                  \/ UNCHANGED tmp
               /\ \/ \E x \in FileOf(h) : result' = [result EXCEPT ![h] = x]
                  \/ UNCHANGED result
               /\ fd[t] = "tmp" => UNCHANGED result
    BY <1>1, <1>3, <1>4, <2>3, <2>4 DEF WriteOpenFile, files
  <2>5. /\ tmp'[h] \in FileOf(h) /\ result'[h] \in FileOf(h)
        /\ fd[t] = "tmp" => UNCHANGED result
        /\ \A g \in Handle \ {h} : tmp'[g] = tmp[g] /\ result'[g] = result[g]
    BY <1>1, <1>4, <2>1, <2>4 DEF TypeOK
  <2>6. fd[t] = "tmp" /\ tmp[h] = Empty /\ WriteOpenFile(t, "whole") => tmp'[h] = Complete(h)
    BY <1>1, <1>3, <2>2 DEF WriteOpenFile, Written, TypeOK
  <2>7. \A u \in Task : u # t => spc'[u] = spc[u] /\ payload'[u] = payload[u] /\ fd'[u] = fd[u]
    BY <2>1 DEF TypeOK
  <2>8. spc'[t] \in {"rename", "discard"} /\ (spc'[t] = "rename" => WriteOpenFile(t, "whole"))
    BY <1>1, <2>1 DEF TypeOK
  <2>9. Once(h) => /\ result'[h] \notin {Empty, Torn}
                   /\ spc'[t] = "rename" => tmp'[h] = Complete(h)
    BY <1>4, <2>2, <2>5, <2>6, <2>8
  <2> QED BY <1>2, <2>5, <2>7, <2>8, <2>9, CollateFrame
<1>8. CASE Rename(t)
  <2>1. /\ spc[t] = "rename" /\ spc' = [spc EXCEPT ![t] = "untrack"] /\ UNCHANGED payload
        /\ result' = [result EXCEPT ![h] = tmp[h]] /\ tmp' = [tmp EXCEPT ![h] = Absent]
    BY <1>1, <1>3, <1>8 DEF Rename
  <2>2. \A u \in Task : fd'[u] = IF idOf[u[1]] # h THEN fd[u]
                                 ELSE IF fd[u] = "tmp" THEN "result" ELSE "none"
    BY <1>1, <1>3, <1>8 DEF Rename
  <2>3. \A u \in Task : fd[u] # "none" => idOf[u[1]] = u[1]
    BY DEF HoldInv, IssuedInv, IdInv
  <2>4. \A u \in Task : /\ u[1] # h => fd'[u] = fd[u]
                        /\ u[1] = h => fd'[u] # "tmp"
    BY <1>3, <2>2, <2>3
  <2>5. \A g \in Handle \ {h} : tmp'[g] = tmp[g] /\ result'[g] = result[g]
    BY <1>1, <2>1 DEF TypeOK
  <2>6. tmp'[h] = Absent /\ result'[h] = tmp[h] /\ spc'[t] = "untrack"
    BY <1>1, <2>1 DEF TypeOK
  <2>7. \A u \in Task : u # t => spc'[u] = spc[u] /\ payload'[u] = payload[u]
    BY <2>1 DEF TypeOK
  <2>8. Once(h) => tmp[h] = Complete(h)
    BY <2>1 DEF CollateInv
  <2> QED BY <1>2, <1>4, <2>4, <2>5, <2>6, <2>7, <2>8, CollateFrame
<1>9. CASE Discard(t)
  <2>1. /\ spc[t] = "discard" /\ spc' = [spc EXCEPT ![t] = "none"]
        /\ payload' = [payload EXCEPT ![t] = Empty]
        /\ UNCHANGED result /\ tmp' = [tmp EXCEPT ![h] = Absent]
    BY <1>1, <1>3, <1>9 DEF Discard
  <2>2. \A u \in Task : fd'[u] = IF idOf[u[1]] = h /\ fd[u] = "tmp" THEN "none" ELSE fd[u]
    BY <1>1, <1>3, <1>9 DEF Discard
  <2>3. \A u \in Task : fd[u] # "none" => idOf[u[1]] = u[1]
    BY DEF HoldInv, IssuedInv, IdInv
  <2>4. \A u \in Task : /\ u[1] # h => fd'[u] = fd[u]
                        /\ u[1] = h => fd'[u] # "tmp"
    BY <1>3, <2>2, <2>3
  <2>5. \A g \in Handle \ {h} : tmp'[g] = tmp[g] /\ result'[g] = result[g]
    BY <1>1, <2>1 DEF TypeOK
  <2>6. tmp'[h] = Absent /\ result'[h] = result[h] /\ spc'[t] = "none"
    BY <1>1, <2>1 DEF TypeOK
  <2>7. \A u \in Task : u # t => spc'[u] = spc[u] /\ payload'[u] = payload[u]
    BY <2>1 DEF TypeOK
  <2> QED BY <1>2, <1>4, <2>4, <2>5, <2>6, <2>7, CollateFrame
<1>10. CASE RenameFails(t) \/ Untrack(t) \/ Notify(t)
  <2>1. /\ UNCHANGED <<fd, tmp, result>>
        /\ \E x \in {"discard", "notify", "none"} : spc' = [spc EXCEPT ![t] = x]
        /\ payload' \in {payload, [payload EXCEPT ![t] = Empty]}
    BY <1>10 DEF RenameFails, Untrack, Notify, files
  <2>2. \A u \in Task : u # t => spc'[u] = spc[u] /\ payload'[u] = payload[u]
    BY <2>1 DEF TypeOK
  <2>3. spc'[t] \in {"discard", "notify", "none"}
    BY <1>1, <2>1 DEF TypeOK
  <2> QED BY <1>2, <1>4, <2>1, <2>2, <2>3, CollateFrame
<1> QED BY <1>6, <1>7, <1>8, <1>9, <1>10 DEF Collate

LEMMA ResultStep ==
  ASSUME MaxRestarts = 0, ResultInv, [Next]_vars
  PROVE  ResultInv'
<1>0. DispatchInv'
  BY DispatchStep DEF ResultInv
<1>1. CASE UNCHANGED vars
  <2>1. UNCHANGED <<results, submit, files, running, hist, start, dpc, processing, coord, restarts>>
    BY <1>1 DEF vars
  <2>2. FileInv' /\ CollateInv'
    BY <2>1, ResultQuiet
  <2>3. IdInv' /\ TakenInv' /\ ChunkInv'
    BY <2>1 DEF coord, start, ResultInv, IdInv, TakenInv, ChunkInv, Taken, Once, Holds, Untouched
  <2> QED BY <1>0, <2>2, <2>3 DEF ResultInv
<1>2. CASE Next
  <2>1. IdInv'
    BY <1>2, IdStep DEF ResultInv, DispatchInv
  <2>2. ~CoordRestart
    BY DEF CoordRestart, ResultInv, IdInv
  <2>3. ASSUME NEW t \in Task, TaskLost(t) \/ Submit(t) \/ Collate(t)
        PROVE  FileInv' /\ TakenInv' /\ ChunkInv' /\ CollateInv'
    <3>1. PICK h \in Handle, c \in Chunk : t = <<h, c>>
      BY DEF Task
    <3> QED BY <1>0, <2>3, <3>1, ChunkSubmit, ResultStored, ResultCollated
  <2>4. FileInv' /\ TakenInv' /\ ChunkInv' /\ CollateInv'
    BY <1>0, <1>2, <2>2, <2>3, ResultScan, ResultCall DEF Next, Dispatch
  <2> QED BY <1>0, <2>1, <2>4 DEF ResultInv
<1> QED BY <1>1, <1>2

\* As long as the coordinator is not restarted, and with it the numbering of
\* the handles, the result file of a handle that is dispatched once holds exactly
\* its own chunks from the moment it is there; the file of a handle that is
\* dispatched again may also be seen truncated or torn, by submissions that
\* share the .tmp file, but never with the chunks of another handle or with some
\* of its own missing.  For any number of dispatchers, handles and chunks, and
\* whatever fails on the way.
THEOREM ResultsWhole == ASSUME MaxRestarts = 0 PROVE Spec => []ResultSound
<1>1. ResultInv => ResultSound
  <2> SUFFICES ASSUME ResultInv, NEW h \in uploaded
               PROVE  \/ result[idOf[h]] \in {Absent, Complete(h)}
                      \/ result[idOf[h]] \in {Empty, Torn} /\ <<h, "again">> \in hist
    BY DEF ResultSound
  <2>1. idOf[h] = h /\ h \in Handle
    BY DEF ResultInv, IdInv, DispatchInv, TypeInv, TypeOK
  <2> QED BY <2>1 DEF ResultInv, FileInv, FileOf, CollateInv, Once
<1>2. ResultInv /\ [Next]_vars => ResultInv'
  BY ResultStep
<1> QED BY <1>1, <1>2, ResultInit, PTL DEF Spec
===============================================================================
