# Verification of map_reduce_rpc

TLA+ models of the map/reduce service in `src/`: the ring buffer, the durable
buffer with the upload to the DFS, its registry of uploaded handles, the
dispatch of jobs from the coordinator through the master to the workers, the
worker's pipeline, the cluster as the dashboard's requests see it, and the life
of a server process up to its exit. The modules are checked with TLC on small
instances, and every safety property that TLC checks is proved with TLAPS for
any number of goroutines, handles, chunks, workers and failures.

## The system

A client asks the coordinator for a handle and sends a file to it in chunks.
The coordinator buffers the chunks, logs them to disk and uploads a complete
file to the DFS. A ticker, or a client's trigger, then has the master start one
task per DFS chunk on the workers; the workers submit their results and the
master writes one result file per job.

| Component | State | Operations | Shared with |
|---|---|---|---|
| `mrp/ringbuffer.go` RingBuffer | `head`, `tail`, `slots[].sequence`, `slots[].val` | `Push`, `Pop`, `Drain`, `Len`/`IsFull`/`IsEmpty` | every goroutine that has the ring |
| `mrp/durable_buffer.go` DurableBuffer | the ring (under `logMu`), `handles`, `uploadedHandles`, `processingHandles`, `nextHandle`, one `.dlog` per handle, `uploaded_handles.dat` | `GenerateHandle`, `Write`, `Flush`, `Replay`, `GetCompletedHandleForRetransmission`, `MarkHandlesUploaded`, `GetUploadedHandles`, `ReleaseProcessingHandle`, `Close`; the monitor goroutine: replay, cleanup, log deletion | RPC handlers, monitor, uploader, dispatchers |
| `mrp/coordinator.go` Coordinator | `uploadMu`, the DFS client, the listener | `RPCGenerateDownloadHandle`, `RPCForwardDownload`, `RPCTriggerProcessing`, `RPCNotifyJobComplete`, the poll ticker (`uploadFileToStorage`, `startMapReduce`), `Close` | clients, master, DFS |
| `mrp/master.go` Master | `jobs`, `results`, `workerPlugins`, result files and their `.tmp` | `RPCStartMapReduce`, `RPCSubmitMapReduceResult`, `RPCGetJobResult`, heartbeat | coordinator, workers, DFS |
| `mrp/worker.go` Worker | intermediate and output files | `RPCMapReduce` (asynchronous pipeline), `submitResultToMaster` | master, DFS |
| `mrp/rpc_listener.go` RPCListener | listener, open connections | `Listen`, accept loop, `Close` | the three servers |
| `cmd/uploader` | - | send the chunks of a file | coordinator |
| `dashboard/api` | - | upload, trigger with a plugin, poll with a deadline; simulated results | coordinator, master |
| `plugins`, dashboard UI, `utils.go`, `main.go` | - | map and reduce functions, presentation, helpers | - |

What is hard here, and what makes each part correct:

- **Ring**: lock-free claims. Nobody may race on a slot, a full ring may not be
  overwritten, a stale counter may not be mistaken for full or empty, values
  come out once and in order.
- **Durable buffer**: three kinds of goroutine move chunks between ring, private
  buffers and files, with locks held only for the drain. An accepted chunk may
  be neither lost nor doubled, the uploaded content is what the client sent, and
  a completed handle is uploaded in the end; all this across crash and replay.
- **Dispatch**: several dispatchers, a TTL, silent failures of tasks, one `.tmp`
  file per job. A handle has one dispatcher at a time, a published result is
  whole, and every uploaded handle gets one.
- **Registry of uploaded handles**: two goroutines rewrite one file through one
  `.tmp` file, and the `.dlog` files go once it is written. A handle whose job
  has not been dispatched may not be forgotten, whenever the process dies.
- **Worker**: attempts at one chunk share all their files, goroutines of one
  attempt fail independently, and nobody is told. A submitted result is computed
  from the whole chunk; Close waits for every attempt and is not kept waiting.
- **Cluster**: a pass dispatches whatever is uploaded, whoever uploaded it and
  for whichever plugin. A request must be answered, and with its own plugin.
- **Shutdown**: listener, handlers, ticker, monitor and the last upload end in an
  order that may lose what was acknowledged, or wait for each other.

`PROJECT.json` lists the hazards with their lines and the properties that
cover them. Some of them do happen in this code; the property then excepts that
case by name and says that there is no other way to the same harm. A note on such
a hazard says so.

## Modules

| Module | Models | Kind |
|---|---|---|
| `BoundedQueue` | what the ring promises | abstract specification |
| `RingBuffer` | `ringbuffer.go` | detailed specification, refines `BoundedQueue` |
| `RingBufferProofs` | - | theorems about `RingBuffer` |
| `DurableBuffer` | `durable_buffer.go`, upload half of `coordinator.go`, the clients | specification |
| `JobDispatch` | processing registry, dispatch half of `coordinator.go`, `master.go`, the workers' outcome | specification |
| `HandleRegistry` | `uploadedHandles` and its file in `durable_buffer.go`, field by field | specification |
| `Worker` | `worker.go`, and how `master.go` cuts a file into chunks | specification |
| `Cluster` | requests in `dashboard/api/main.go`, passes of `coordinator.go`, plugin routing of `master.go` | composition |
| `Shutdown` | `rpc_listener.go`, Start and Close of the three servers and the log, `main.go` | specification |
| `Selection` | - | the elements of a sequence at some positions, used by `DurableBuffer` and `Cluster` |
| `SelectionProofs` | - | lemmas about `Selection` |
| `DurableBufferProofs`, `HandleRegistryProofs`, `JobDispatchProofs`, `WorkerProofs`, `ClusterProofs`, `ShutdownProofs` | - | theorems about the module in the name |
| `MC*` | model-checking instances; `MCRingBuffer` also `nextPowerOfTwo` | - |

Each module takes over where another one abstracts: `HandleRegistry` opens up
the one step in which `DurableBuffer` saves the registry; `Worker` the outcome of
a task in `JobDispatch`; `Cluster` puts the upload passes of `DurableBuffer` and
the dispatch of `JobDispatch` behind each other, each as one step, under the
requests that cause them; `Shutdown` has the flushes of `DurableBuffer` without
their files.

### RingBuffer

One action per atomic access. `PushStart`/`PushReload` are `rb.tail.Load()`,
`PushLoadSeq` the load of the sequence number with the switch on `difference`,
`PushClaim`/`PushLost` the two outcomes of the CAS, `PushWrite` the plain write
of the value, `PushPublish` the store that hands the slot on; Pop likewise. Len
is two loads. `sync/atomic` is sequentially consistent, so interleaving is the
memory model; the plain accesses are safe exactly when `SlotExclusive` holds.
`index & (capacity-1)` is `index % Cap`, capacities being powers of two; the
proofs hold for every `Cap > 1`. The 64-bit counters do not wrap in practice and
are naturals.

A `Push` takes effect at its CAS on `tail`, a `Pop` at its CAS on `head`. The
refinement mapping reads the value of an index from its producer until it is
written and from the slot afterwards (`Items`, `AbsQueue`, `AbsPopped`).

With a capacity of one the protocol fails: a published slot has the sequence
number `index + 1 = index + capacity`, which says "free" to the next producer.
`NewRingBuffer(0)` and `NewRingBuffer(1)` give such a ring. TLC finds
`FullPushFails` violated for `Cap = 1`, and the theorems assume `Cap > 1`.
`MCRingBuffer` has `nextPowerOfTwo` as the code has it, with shifts and ors, and
TLC evaluates the assumption `CapacityRoundsUp` for every word of eight bits: the
result is the least power of two that is not smaller, it is one only for 0 and 1,
and it wraps to zero only above the greatest power of two.

### DurableBuffer

A handle is the number of its `GenerateHandle` call; its `Id` is kept apart
(`idOf`), since Ids repeat after a restart. A chunk is its number in the file,
the last one carries Eof.

| Code | Actions |
|---|---|
| `RPCForwardDownload`, `Write` | `WriteCheck` (expiry), `WritePush` (under `logMu`), `WriteRegister` (after the unlock), `Refuse` (error reply) |
| `Flush`, `syncLogToFile`, `syncContentsToFile` | `Drain`, `Build`, `AppendFile` per file, `AppendFails`, `AppendDone` |
| `monitor` | `MonitorStart`, `ReplayOpen`, `ReplaySkip`, `ReplayVisit`, `ReplayPush`, `ReplayRegister`, `ReplayClose`, `CleanupTick`, `DeletionTick`, `Save` |
| `uploadFileToStorage` | `UploadTick`, the flush, `Snapshot`, `UploadFile`/`UploadFails`, `MarkHandlesUploaded`, `Save`, `RemoveFiles` |
| process death and `NewDurableBuffer` | `Crash` |

`hurt` is a history variable with no effect on the behaviour: it records why the
content of a handle may differ from what was sent (refused, dropped by the
overflow policy, expired, failed write, crash, replayed, two flushers out of
order, upload overtaking the flush). `UploadExact` says there is no other way to
lose, double or reorder a chunk. `ReplayTwice` drops the excuse for a replay. Two
others are as real in the code: a last chunk that `Write` pushes and registers
between the flush and the snapshot of an upload pass is not in the `.dlog` that
is uploaded and removed (`coordinator.go:367`), and a handle that expires before
its chunks are flushed is complete with no file, so that every pass fails on it
(`durable_buffer.go:277`); hence the exceptions of `CompletedUploaded`.

Abstractions: an append to a file is one step (no torn records); the registry is
saved in one step and entries do not expire (`HandleRegistry`); `Close` is in
`Shutdown`; a deletion tick that deletes nothing is a stutter; upload order is
arbitrary where the code sorts; the content is read once per upload (the
metadata is not used by the properties); clients lose their connection in a
crash and do not resume; `cmd/uploader` gives up on an error reply, the
dashboard goes on with the next chunk.

### JobDispatch

| Code | Actions |
|---|---|
| upload of a handle | `HandleUploaded` (abstracts `DurableBuffer`) |
| `GetUploadedHandles` | `StartMapReduce`, `TakeFree`, `SkipBusy`, `SeeStale`, `Restamp`, `ScanDone` |
| `startMapReduce` | `CallMaster`, `Release`, `DispatchDone` |
| `RPCStartMapReduce` | `CallMaster` (job entry), `DispatchChunk` per chunk, `CallReturns` |
| worker | `TaskLost`, or `Submit` |
| `RPCSubmitMapReduceResult` | `Submit` (under `resultMux`), `CreateTmp`, `Encode`, `Rename`/`RenameFails`, `Discard`, `Untrack`, `Notify` |
| time, cleanup, restart | `Elapse`, `Prune`, `CoordRestart` |

A result is the handle its chunk was computed from, so that a result file that
mixes two files is visible. `fd` says what a submission's open file has become:
after another submission's rename it is the result file itself, after a removal
it has no name. No two payloads have the same bytes (time stamps, worker and data,
`master.go:557`), or surely the same length: `Written` says that a payload written
over another one may leave `Torn` JSON, and `WrittenInPart` that an `Encode` that
fails may. `hist` is a history variable (dispatched, dispatched again, TTL elapsed).
`ResultSound` excepts jobs that were dispatched again: a finished handle stays in
`uploadedHandles`, a lost reply of the master releases a handle whose job runs on
(`coordinator.go:327`), and two submissions that share the `.tmp` file can publish it
truncated or torn (`master.go:576`). Of a handle that was dispatched once the
result is whole, whatever fails, as long as the coordinator is not restarted
(`IdReuse`).

Abstractions: submissions of one and the same chunk come one after another;
`MaxRunning` bounds the running tasks of a chunk; every dispatch finds the content
file with the same chunks (what else `fetchFileMetadataFromDFS` may answer is in
`Worker`); a coordinator crash waits for the call the master is serving; plugin
routing is in `Cluster`; a restart of the master is left out.

### HandleRegistry

| Code | Actions |
|---|---|
| `saveUploadedHandles` | `Create`, `Visit` and `WriteTimes` per entry, `Sync`, `Rename`; every failure is only logged |
| `MarkHandlesUploaded` | `Mark`, the save, `RemoveFile` per `.dlog` |
| `cleanup`, `performLogDeletion`, `pruneUploadedHandles` | `CleanupTick`, `DeletionTick`, the save |
| `loadUploadedHandles`, replay | `Crash` |
| time, `GetUploadedHandles` | `Age`, `Expire`, `Dispatch` |

A file is a sequence of fields. A record is two of them, the Id and the times
(`TimeStamp` and `uploadedAt` as one), so that a file may end in half a record,
have fields of two savers side by side, or lack one. `WriteField` may fail: the
error of `binary.Write` is ignored (`durable_buffer.go:841`), the next field goes
where this one should have been, and the file is synced and renamed all the same.
A record that is put together from several handles, or from zeros between two
fields, names no handle that was uploaded, so `Loaded` does not have it. `fd` says
what the file that a saver has open is called by now. `sync.Map.Range` visits the entries that stay
from its start to its end, others perhaps. `Recoverable` is what the order save,
then remove, is there for; the history `hurt` has its exceptions: a save that
failed (the `.dlog` goes all the same), log deletion (it drops undispatched
handles too), the TTL; and `regSpoilt`, a registry file that two savers wrote at
once or that lacks a field. `RegistrySound` says that nothing else spoils the file:
no crash, and no failure of `os.Create`, `Sync`, `Rename` or `os.Remove`. Left out:
a write that fails in the middle of a field (it spoils the file as one that writes
nothing does), and what a crash does to data that was not synced (the rename is
durable as it returns).

### Worker

| Code | Actions |
|---|---|
| `fetchFileMetadataFromDFS`, `readChunkData` | operators `SourcesOf`, `ChunksOf`, `ChunkAt`, `ReadSize`, `FileBytes`, `BytesOf` |
| `RPCMapReduce` | `Accept`, `Glob` and `Remove` (twice), `Read`, `Join`, `Submit` |
| `writeIntermediatePartition`, one goroutine per partition | `Create`, `Encode` per pair, `Send` |
| `runReduceFromChannel` | `RangeNext` per file, `RangeEnd`, `OutputCreate`, `OutputWrite`, `OutputRename`, `OutputLost`, `OutputDiscard` |
| `Close` | `CloseStop`, `CloseListener`, `CloseReturns` |

A key-value pair is the byte it was mapped from, a result the set of pairs it was
computed from; so a missing partition, or a file of another attempt, shows. Two
attempts that run at once are in the history `met`, and what they do to each
other's files excuses them from `SubmittedWhole`: they truncate and remove each
other's intermediate files. The model keeps that behaviour and shows what holds
for the rest.

`source` is the file that the master sends the workers to. `GetFile` may fail or find
nothing although the content is there (`master.go:363`), and then the metadata file
is the only chunk: the job succeeds and not a byte of the content is in its result.
`ChunksTile` is about the file that is read, whichever it is.

Abstractions: a failed write writes nothing; the DFS answers with the bytes of the
window or fails, also when `Close` has cancelled the context; all attempts have the
same request, that is, the DFS gives the master the same answer about the file at
every dispatch.

### Cluster

| Code | Actions |
|---|---|
| `handleSimulate`, `handleCompare`, `runRealJob` | `Request`, `UploadFile`, `CallTrigger`, `CallReturns`, `CallLost` |
| `pollForResults`, `RPCGetJobResult` | `Poll`, `PollTimeout` |
| ticker and `RPCTriggerProcessing` | `UploadPass`, `Claim`, `Dispatch`, `PassEnds` |
| `getWorkersForPlugin`, `RPCStartMapReduce` | `Probe`, `RunOn`, within `Dispatch` |
| collation and notice, failure of a worker, its restart | `RunEnds`, `RunFails`, `WorkerRestart` |

A `Part` is the output of one chunk: the plugin that its worker had, and the pass
that dispatched it. `results` is `m.results`, which nobody ever clears
(`master.go:484`). A handle stays uploaded and is run again; the first submission
of the second run then finds all chunks there, and the result file gets one chunk of
this run and the rest of the last one, dispatched perhaps by another pass for
another plugin (`Stored`, `Missing`, `RunEnds`). So the properties speak of each
chunk of the result file by itself. `RightPlugin` lists the three ways in which a
chunk can get the wrong plugin (the ticker, the trigger of another request, an old
entry in `workerPlugins`) and says there is no other, in whichever run it was
computed; `PluginRouting` is the same without exceptions. `CompareUnmixed` is about
the comment in `handleCompare` that the plugins run one after another to avoid
confusion. Both are about the result file that the poll of a request finds. `Poll`
ends the poll with it; the dashboard then fails to decode it, since it expects
`handle` to be a number (`dashboard/api/main.go:788`, `822`) and the master writes the
record (`master.go:520`), and answers without its contents.

Abstractions: a request has one file, with the same chunks in every run; a pass
uploads in one step under `uploadMu`; a failed run is released by its TTL. The
submissions of a run are one step: which of them come before the collation, which
behind it and which not at all is a choice, but one that comes after the next
dispatch of the handle is left to `JobDispatch`. It would change which run of the
handle a chunk is from, and the properties hold for each chunk of each run.

### Shutdown

| Code | Actions |
|---|---|
| `main`, `Start`, the signal | `Start`, `Signal`, `Alive` |
| `RPCListener.Listen` | `Accept`, `AcceptFails` with `reportErr`, `AcceptClosed`, `EndServe` |
| handlers | `Write`, `Trigger`, `Reply` |
| ticker, monitor, readers of `errChan` | `Tick`, `TickerStops`, `Replayed`, `Cleanup`, `LastCleanup`, `MonitorReturns`, `DrainErrors` |
| flush and upload pass | `Lock`, `Drain`, `Store` |
| `Close` of coordinator, listener, log, master and worker | `Join`, `LastUpload`, `Pick`, `CloseFlag`, `CloseSocket`, `CloseWait`, `CloseLog`, `CloseLogWait`, `ServerJoin` |

`Coordinator.Close` ranges over a Go map, so `Pick` closes listener and log in
any order; `docs/coordinator_design.md:160` has the listener first. With the log
closed first, `Write` still accepts chunks that no monitor will flush: that is
the exception of `AckedOnDisk`. A flush here succeeds and the ring has room.

## Runs

| Run | Checks | Shows |
|---|---|---|
| `RingBuffer` | `TypeOK`, `SlotExclusive`, `LenWithinCap`, `FullPushFails`, `FailuresJustified`, `RetriesJustified`, `ImplementsQueue` | the ring is a lock-free bounded queue without data races, and `Len` is bounded although its loads are not atomic |
| `DurableCrash` | `TypeOK`, `UploadExact`, `UploadedOnce` | one handle through overflow, expiry, crash and replay |
| `DurableFlush` | `UploadExact`, `Accounted`, `CompletedUploaded` | two clients, two flushers, a disk and a DFS failure; failed uploads are retried until they succeed |
| `HandleRegistry` | `TypeOK`, `Recoverable`, `RegistrySound` | two savers, a removal, two faults (failed calls and writes, expired entries, crashes) |
| `JobDispatch` | `TypeOK`, `OneDispatcher`, `ResultSound` | two dispatchers and one failure anywhere, a lost reply included |
| `JobDispatchLive` | `Finishes` | a result in the end, after a failure and a restart |
| `Worker` | `TypeOK`, `ChunksTile`, `SubmittedWhole`, `OutputKept`, `ClosedQuiet`, `CloseDrains` | two attempts at one chunk, of the content or the metadata file, one failing call, Close at any moment |
| `Cluster` | `TypeOK`, `RightPlugin`, `CompareUnmixed`, `Dispatched`, `Answered` | two requests for two plugins on two workers, a handle that runs twice, one fault of any kind |
| `Shutdown` | `TypeOK`, `HandlersJoined`, `AckedOnDisk`, `CloseReturns` | two clients write and trigger while the process is closed |
| `ReplayTwice` | `NoChunkTwice` violated | replayed chunks are appended to the file they came from |
| `IdReuse` | `ResultUnmixed` violated | Ids repeat after a restart and results of two files mix |
| `PluginRouting` | `PluginRouting` violated | the ticker dispatches a request's file before its trigger does, without its plugin |

The three violations are findings in `PROJECT.json`, each with the sentence of
the documentation or of a comment that it contradicts.

**Bounds.** Two producers, two consumers and a ring of two slots give every
conflict on a slot; `MaxTail = 3` makes the ring go around, so that a slot is
reused; more goroutines are a matter of the theorems. Producers, and consumers,
are interchangeable. Two chunks are the least for which order, a missing last
chunk and a partial dispatch exist; a ring of two overflows with two clients or a
replay. One crash, one failure of each kind and one cleanup tick are enough for each hazard listed; `MaxReplay = 3` lets replay
read one record that a flush appended while it was reading. `HandleRegistry` has
two handles, so that a file has two records, and two faults, so that a crash
meets a failed save, or a save that lacks a field. `Worker` has files of 0 and 3 bytes in chunks of 2: an empty
file, a full and a short chunk, two partitions. `Cluster` has one request for each
plugin, one worker with each and two chunks. `MaxRuns` lets one of the handles run
twice, so that a result file puts two runs together, and the other one once; a third
run meets the same `results` as a second. `Shutdown` has a place for one error and two
errors, so that the channel fills. Deadlock is checked for `Cluster`; elsewhere
the system rests once all bounds are used up and every
client is done, and in `Shutdown` the process exits.

**Fairness.** `RingBuffer` has none: a `Push` is lock-free, not wait-free, and may
lose its CAS to others for ever; `RetriesJustified` says that it can only lose,
never wait. Elsewhere the Go scheduler runs every runnable goroutine: weak
fairness of monitor and uploader (`DurableBuffer`), of each dispatcher, task and
collation (`JobDispatch`). The poll ticker keeps
firing (`UploadTick`, `StartMapReduce`) and time passes (`Elapse`). Nobody is
obliged to push, pop, write, expire or crash, and the pruning of the processing
registry is not counted on. `JobDispatch` needs strong fairness in one place: a
submission that again and again finds the `.tmp` file in place when it writes, and
its own payload in it when it renames, does so once. With weak fairness only, TLC
finds a behaviour in which overlapping re-dispatches of one handle remove or
overwrite each other's `.tmp` file between two system calls for ever; such a
schedule would need the TTL of minutes to end within microseconds of a collation
each time.
`CompletedUploaded` is checked without recovery: a replay that races an upload
can make an uploaded handle complete again with no file left to upload.
In `Worker` the goroutines of an accepted attempt and a `Close` that was called
go on. In `Cluster` every request and every pass goes on and the ticker fires;
no run has to end, since `Answered` rests on the deadline of the poll. In
`Shutdown` some goroutine goes on when one can, and a client hangs up in the end:
the dashboard, the uploader, the master and the workers dial for a call, or for
the calls of one file, and close. A client that kept its connection open would
keep `RPCListener.Close` waiting for ever; the code has no timeout for that.

## Proofs

Every invariant and every action property of the passing runs is a theorem, for
all values of the constants that the named assumptions admit. Each theorem is
`Spec => []Inv`, or `Spec => P` for an action property and the refinement, and
the argument is the same everywhere: an inductive invariant, whose parts TLC has
checked on the instance of the run before they were proved; one proof step per
action; and where several invariants follow, a lemma that says once what a step
can do to the variables concerned (`RunSteps`, `RequestSteps`, `Created`,
`Renamed`, `Step`, `Kept`).

| Module | Theorem | Property | Beyond the assumptions of the module |
|---|---|---|---|
| `RingBufferProofs` | `TypeCorrect` | `TypeOK` | |
| | `Protocol` | `IndInv` | `Cap > 1` |
| | `NoDataRace` | `SlotExclusive` | `Cap > 1` |
| | `LenBounded` | `LenWithinCap` | `Cap > 1` |
| | `NoOverflow` | `FullPushFails` | `Cap > 1` |
| | `HonestFailures` | `FailuresJustified` | `Cap > 1` |
| | `LockFree` | `RetriesJustified` | `Cap > 1` |
| | `Implements` | `ImplementsQueue` | `Cap > 1` |
| `DurableBufferProofs` | `TypeCorrect` | `TypeOK` | |
| | `NothingRewritten` | `UploadedOnce` | |
| | `UploadedWhole` | `UploadExact` | |
| | `ChunksAccounted` | `Accounted` | |
| `HandleRegistryProofs` | `TypeCorrect` | `TypeOK` | |
| | `RegistryIsSound` | `RegistrySound` | |
| | `HandlesRecoverable` | `Recoverable` | |
| `JobDispatchProofs` | `TypeCorrect` | `TypeOK` | |
| | `DispatchedByOne` | `OneDispatcher` | |
| | `ResultsWhole` | `ResultSound` | `MaxRestarts = 0` |
| `WorkerProofs` | `TypeCorrect` | `TypeOK` | |
| | `ChunksTiled` | `ChunksTile` | |
| | `ResultIsWhole` | `SubmittedWhole` | |
| | `OutputStays` | `OutputKept` | |
| | `CloseIsQuiet` | `ClosedQuiet` | |
| `ClusterProofs` | `TypeCorrect` | `TypeOK` | |
| | `RightPluginUsed` | `RightPlugin` | |
| | `ComparisonUnmixed` | `CompareUnmixed` | |
| `ShutdownProofs` | `TypeCorrect` | `TypeOK` | |
| | `CloseJoins` | `HandlersJoined` | |
| | `AckedSurvives` | `AckedOnDisk` | |

Two hypotheses are more than types of constants, and the code does violate them.
A ring of one slot breaks its protocol, as said above. A restart of the
coordinator starts its Ids again, and then `ResultSound` is false: that is the
finding `IdReuse`.

**RingBuffer.** None of the properties is inductive: they say nothing of the
sequence numbers by which goroutines decide. `IndInv` adds them. `CountersInv`
bounds the distance of the counters; `ProducerInv` and `ConsumerInv` say which
indices a goroutine can own and what its copy of a counter is worth just before
the CAS; `OwnersInv` that an index has one owner; `ObserverInv` bounds Len's copy
of `tail`; `SlotInv` is the protocol itself: each of the last `Cap` indices is
being written (sequence `i`), published or being read (`i + 1`), or released
(`i + Cap`). Different indices of that window lie in different slots, which is
the arithmetic lemma the rest uses, and with `Cap > 1` the three numbers are
distinct. The refinement takes the abstract step at the two successful CASes and
shows that every other step leaves `AbsQueue` and `AbsPopped` as they were.

**DurableBuffer.** `FlowInv` says where a client and a replay are when they have
a chunk in hand; the type invariant is inductive with it. `SettledInv` keeps a
listed handle from becoming complete or pending again, which gives
`UploadedOnce`. For the content, `PlaceInv` says of each handle that nothing in
`hurt` applies to that its chunks are a chain: file, then the buffer of one
flusher, then ring, each a `Run` of consecutive numbers that begins where the one
before ends (`Waiting`), or that they are all in the DFS (`Finished`). `UploadExact`
and `Accounted` both follow. What a drain, a grouping by handle or an append does
to a `Run` are lemmas about sequences; grouping is `Selected` rather than
`SelectSeq`, whose recursion the prover cannot unfold (`Selection`).

**HandleRegistry.** `OffsetInv` says that a saver writes at most two fields for a
key, and the type invariant is inductive with it. `MixInv` says that two saves at
once are on record, so that a saver that is not has the `.tmp` file to itself;
`TmpInv` that this file then has one whole record for each key it has visited, if no
write has failed; `KeyInv` that what it has to visit stays in memory unless a
recorded cause dropped it. `BareInv` is the heart
of `Recoverable`: a handle without a `.dlog` and without an excuse is in memory,
is among the keys of every save under way, and was in the registry file before
its `.dlog` could go.

**JobDispatch.** `PlacesInv` says that a dispatcher has a handle in one place at a
time, `HoldInv` that the registry entry of a handle somebody holds is fresh,
unless its TTL has run out or its result is there: so nobody else takes it.
`ResultsWhole` also follows the chunks: `ChunkInv` and `CollateInv` say what the
result table and the `.tmp` file hold while the tasks of a job run and its
collation is under way, `FileInv` what an open file has become.

**Worker.** `PhaseInv` relates the goroutines of an attempt to each other,
`AloneInv` says that attempts at work together are in `met`, and `PairsInv` and
`OutInv` follow the pairs of an attempt that is not: from the writers through
files and channel to the reducer, the output file and the submission.

**Cluster.** `GoodInv` carries what `RunOn` computed for each chunk from the dispatch
through `results` to the result file: its worker has the plugin in the master's list,
so it has it unless the list is old. `RunSteps` says that apart from a dispatch a step
only moves parts of a handle about, so it does not matter how runs are put together.
`CompareUnmixed` needs the turns of a
comparison: `TurnsAssumption` says that `Before` puts its requests in a row, as
the loop over the plugins in `handleCompare` does. `OrderInv` says that all
earlier requests have been answered when one begins, `PassInv` that a request
with a pass under way has not, unless its call was lost, and `AloneInv` that
therefore no earlier pass can have claimed its handle.

**Shutdown.** `WgInv` counts the waitGroup: the accept loop and one for each
connection that is served, for any finite set of clients (`ClientsAssumption`),
and `JoinInv` says when they are gone. For the disk, `PassInv` says who can be
inside a flush, `NoneLost` that a chunk is in the ring, with a flusher or in a
file, and `CloseInv` and `LogInv` that the last flush comes after the last pass.

**Only model-checked.** The liveness properties (`CompletedUploaded`, `Finishes`,
`CloseDrains`, `Dispatched`, `Answered`, `CloseReturns`): fairness and ENABLED are
beyond the prover. `nextPowerOfTwo`, whose bitwise operators are. The three
violations are counterexamples and have nothing to prove.

## Not modelled

- A restart of the master, which forgets its jobs and results, and records of a
  `.dlog` torn by a power loss.
- The contexts of the DFS clients: the worker's client keeps the context of the
  first attempt (`worker.go:520`), the master's is created without a lock
  (`master.go:338`). What follows is inside the external client.
- Heartbeats, pings, setters and environment variables: no state that a property
  depends on.
- The dashboard's simulated results (arithmetic on floating-point numbers), its
  file handlers and UI; the plugins, whose results are opaque values here; the
  uploader's walk through directories.

## Plan

1. An abstract specification of the durable log, and `DurableBuffer` shown to
   implement it where no cause in `hurt` applies.
2. What holds of result files across restarts of the coordinator, for the Ids
   that are not used again.
3. A restart of the master in `JobDispatch`.
