----------------------------- MODULE DurableBuffer -----------------------------
(***************************************************************************)
(* mrp/durable_buffer.go and the upload half of mrp/coordinator.go: chunks *)
(* of a file arrive by RPCForwardDownload, wait in the ring, are flushed   *)
(* to one .dlog file per handle and uploaded to the DFS once the last one  *)
(* has arrived.  Three kinds of goroutine run at once:                     *)
(*   - a client per handle, whose calls of Write come one after another;   *)
(*   - the monitor: replay at start, then cleanup and log deletion;        *)
(*   - the uploader: uploadFileToStorage, one at a time under uploadMu,    *)
(*     from the poll ticker or from RPCTriggerProcessing.                  *)
(* The ring is only touched under logMu, so here it is a sequence (module  *)
(* RingBuffer shows what the ring itself promises).  A handle is the       *)
(* number of its GenerateHandle call, which is the order of the timestamps *)
(* that make handles unique; idOf gives its Id field.  A crash kills the   *)
(* process between two steps and loses everything that is not on disk.     *)
(***************************************************************************)
EXTENDS Integers, Sequences, FiniteSets, Selection

CONSTANTS MaxHandle,    \* bound: handles generated in a behaviour
          Chunks,       \* chunks of a file, the last of which carries Eof
          Cap,          \* capacity of the ring
          DropOldest,   \* overflowPolicy = OverflowDropOldest
          RecoveryMode, \* d.recoveryMode
          MaxReplay,    \* bound: records replayed from one file
          MaxExpired,   \* bound: handles that outlive handleExpiryDuration
          MaxCleanups,  \* bound: ticks of cleanupTicker
          MaxDiskFails, \* bound: failed writes to logDir
          MaxDfsFails,  \* bound: failed calls of the DFS
          MaxCrashes    \* bound: crashes of the coordinator process

ASSUME SizesAssumption == /\ MaxHandle \in Nat /\ Chunks \in Nat \ {0}
                          /\ Cap \in Nat \ {0} /\ MaxReplay \in Nat
ASSUME SwitchesAssumption == DropOldest \in BOOLEAN /\ RecoveryMode \in BOOLEAN
ASSUME BoundsAssumption == /\ MaxExpired \in Nat /\ MaxCleanups \in Nat
                           /\ MaxDiskFails \in Nat /\ MaxDfsFails \in Nat
                           /\ MaxCrashes \in Nat

Handle == 1 .. MaxHandle
NoHandle == 0
Flusher == {"monitor", "uploader"}
\* Why the content of a handle may differ from what its client sent.
Cause == {"refused", "dropped", "expired", "failed", "crashed", "replayed", "reordered",
          "overtaken"}

VARIABLES
  ring,        \* d.log: the queued <<handle, chunk>>, oldest first
  handles,     \* d.handles: "none", "open" (false) or "done" (true)
  uploaded,    \* keys of d.uploadedHandles
  nextHandle,  \* d.nextHandle
  dlog,        \* dlog[h]: chunks in h's .dlog file, <<>> when there is none
  registry,    \* the handles in uploaded_handles.dat
  issued,      \* number of handles generated
  idOf,        \* the Id field of each handle
  expired,     \* handles older than handleExpiryDuration
  cpc, sent,   \* where each client is in Write, and the chunks it is done with
  pc,          \* where the monitor and the uploader are
  buf,         \* what each of them has drained and not yet written
  rfiles, rfile,        \* Replay: the files still to read and the open one
  rpos, rchunk,         \* Replay: the position of the next record, the chunk just read
  pending,     \* completedHandles still to upload in this pass
  marked,      \* the list uploaded, passed to MarkHandlesUploaded
  stored,      \* stored[h]: chunks in h's .content file in the DFS
  hurt,        \* history: pairs <<handle, cause>>
  count        \* how much of each bound is used

disk == <<dlog, registry, stored>>
clients == <<issued, idOf, cpc, sent>>
replay == <<rfiles, rfile, rpos, rchunk>>
upload == <<pending, marked>>
vars == <<ring, handles, uploaded, nextHandle, disk, clients, expired, pc, buf,
          replay, upload, hurt, count>>

Positions(s, h) == {k \in 1 .. Len(s) : s[k][1] = h}
Without(s, h) == Selected(s, (1 .. Len(s)) \ Positions(s, h))
ChunksOf(s, h) == [k \in 1 .. Cardinality(Positions(s, h)) |-> s[Nth(Positions(s, h), k)][2]]
HandlesIn(s) == {s[k][1] : k \in 1 .. Len(s)}
Whole == [n \in 1 .. Chunks |-> n]
Hurt(hs, cause) == hurt' = hurt \cup (hs \X {cause})
Uses(bound, limit) == /\ count[bound] < limit
                      /\ count' = [count EXCEPT ![bound] = @ + 1]

\* d.inRecovery is true while the monitor runs Replay.
InRecovery == pc["monitor"] \in {"replay", "replayPush", "replayRegister"}

isHandleExpired(h) == ~InRecovery /\ (idOf[h] > nextHandle \/ h \in expired)

\* NewDurableBuffer of a first start, in an empty logDir.
Init == /\ ring = <<>> /\ uploaded = {} /\ nextHandle = 0
        /\ handles = [h \in Handle |-> "none"]
        /\ dlog = [h \in Handle |-> <<>>] /\ registry = {}
        /\ issued = 0 /\ idOf = [h \in Handle |-> 0] /\ expired = {}
        /\ cpc = [h \in Handle |-> "none"] /\ sent = [h \in Handle |-> 0]
        /\ pc = [a \in Flusher |-> IF a = "monitor" THEN "start" ELSE "idle"]
        /\ buf = [a \in Flusher |-> <<>>]
        /\ rfiles = {} /\ rfile = NoHandle /\ rpos = 1 /\ rchunk = 0
        /\ pending = {} /\ marked = {}
        /\ stored = [h \in Handle |-> <<>>]
        /\ hurt = {}
        /\ count = [b \in {"cleanups", "disk", "dfs", "crashes"} |-> 0]

(* -------------------------------- Clients ------------------------------- *)

\* RPCGenerateDownloadHandle.
GenerateHandle ==
    /\ issued < MaxHandle
    /\ issued' = issued + 1
    /\ nextHandle' = nextHandle + 1
    /\ idOf' = [idOf EXCEPT ![issued + 1] = nextHandle + 1]
    /\ cpc' = [cpc EXCEPT ![issued + 1] = "idle"]
    /\ UNCHANGED <<ring, handles, uploaded, disk, sent, expired, pc, buf,
                   replay, upload, hurt, count>>

\* An error reply: cmd/uploader gives the file up, the dashboard does not look
\* at the status and goes on with the next chunk.
Refuse(h) ==
    /\ \/ cpc' = [cpc EXCEPT ![h] = "gone"] /\ UNCHANGED sent
       \/ cpc' = [cpc EXCEPT ![h] = "idle"] /\ sent' = [sent EXCEPT ![h] = @ + 1]
    /\ Hurt({h}, "refused")

\* Mutation of WriteCheck: the client does not stop after the chunk with Eof.
WriteBeyondEof(h) ==
    /\ cpc[h] = "idle" /\ ~isHandleExpired(h)
    /\ cpc' = [cpc EXCEPT ![h] = "push"]
    /\ UNCHANGED <<ring, handles, uploaded, nextHandle, disk, issued, idOf, sent, expired,
                   pc, buf, replay, upload, hurt, count>>

\* Write: the check of the handle before the ring is locked.
WriteCheck(h) ==
    /\ cpc[h] = "idle" /\ sent[h] < Chunks
    /\ \/ /\ ~isHandleExpired(h)
          /\ cpc' = [cpc EXCEPT ![h] = "push"]
          /\ UNCHANGED <<sent, hurt>>
       \/ isHandleExpired(h) /\ Refuse(h)
    /\ UNCHANGED <<ring, handles, uploaded, nextHandle, disk, issued, idOf, expired,
                   pc, buf, replay, upload, count>>

\* Write: the part under logMu.  A Push that follows the Pop of a full ring
\* always finds room, so the retry loop never takes a second turn.
WritePush(h) ==
    LET entry == <<h, sent[h] + 1>>
    IN  /\ cpc[h] = "push"
        /\ \/ /\ Len(ring) < Cap
              /\ ring' = Append(ring, entry)
              /\ cpc' = [cpc EXCEPT ![h] = "register"]
              /\ UNCHANGED <<sent, hurt>>
           \/ /\ Len(ring) = Cap /\ DropOldest
              /\ ring' = Append(Tail(ring), entry)
              /\ cpc' = [cpc EXCEPT ![h] = "register"]
              /\ Hurt({Head(ring)[1]}, "dropped")
              /\ UNCHANGED sent
           \/ /\ Len(ring) = Cap /\ ~DropOldest
              /\ Refuse(h)
              /\ UNCHANGED ring
        /\ UNCHANGED <<handles, uploaded, nextHandle, disk, issued, idOf, expired,
                       pc, buf, replay, upload, count>>

\* Mutation of Registered: the Eof flag is not looked at.
RegisteredDone(h, n) == "done"

\* d.handles after a chunk: true with Eof, otherwise false unless already true.
Registered(h, n) == IF n = Chunks \/ handles[h] = "done" THEN "done" ELSE "open"

\* Write: the handle registry, after the unlock; then the client has its reply.
WriteRegister(h) ==
    /\ cpc[h] = "register"
    /\ handles' = [handles EXCEPT ![h] = Registered(h, sent[h] + 1)]
    /\ sent' = [sent EXCEPT ![h] = @ + 1]
    /\ cpc' = [cpc EXCEPT ![h] = "idle"]
    /\ UNCHANGED <<ring, uploaded, nextHandle, disk, issued, idOf, expired, pc, buf,
                   replay, upload, hurt, count>>

\* Time passes: timestamps grow with the handle, so the oldest expires first.
Expire ==
    /\ Cardinality(expired) < MaxExpired
    /\ \E h \in 1 .. issued : /\ h \notin expired /\ 1 .. (h - 1) \subseteq expired
                              /\ expired' = expired \cup {h}
    /\ UNCHANGED <<ring, handles, uploaded, nextHandle, disk, clients, pc, buf,
                   replay, upload, hurt, count>>

(* -------------------- The monitor's replay at start --------------------- *)

MonitorStart ==
    /\ pc["monitor"] = "start"
    /\ \/ /\ RecoveryMode
          /\ pc' = [pc EXCEPT !["monitor"] = "replay"]
          /\ rfiles' = {h \in Handle : dlog[h] # <<>>}
       \/ /\ ~RecoveryMode
          /\ pc' = [pc EXCEPT !["monitor"] = "select"]
          /\ UNCHANGED rfiles
    /\ UNCHANGED <<ring, handles, uploaded, nextHandle, disk, clients, expired, buf,
                   rfile, rpos, rchunk, upload, hurt, count>>

\* Open the next .dlog of the directory listing, or end the recovery.
ReplayOpen ==
    /\ pc["monitor"] = "replay" /\ rfile = NoHandle
    /\ \/ /\ rfiles = {}
          /\ pc' = [pc EXCEPT !["monitor"] = "select"]
          /\ UNCHANGED replay
       \/ /\ \E h \in rfiles : rfile' = h /\ rfiles' = rfiles \ {h}
          /\ rpos' = 1
          /\ UNCHANGED <<rchunk, pc>>
    /\ UNCHANGED <<ring, handles, uploaded, nextHandle, disk, clients, expired, buf,
                   upload, hurt, count>>

\* The bound on the records replayed from a file stands for its end: the file
\* may grow while it is read.
MoreRecords == rpos <= Len(dlog[rfile]) /\ rpos <= MaxReplay

ReplayClose ==
    /\ pc["monitor"] = "replay" /\ rfile # NoHandle /\ ~MoreRecords
    /\ rfile' = NoHandle
    /\ UNCHANGED <<ring, handles, uploaded, nextHandle, disk, clients, expired, pc, buf,
                   rfiles, rpos, rchunk, upload, hurt, count>>

\* Read a record and skip it, because its handle is uploaded.
ReplaySkip ==
    /\ pc["monitor"] = "replay" /\ rfile # NoHandle /\ MoreRecords
    /\ rfile \in uploaded
    /\ rpos' = rpos + 1
    /\ UNCHANGED <<ring, handles, uploaded, nextHandle, disk, clients, expired, pc, buf,
                   rfiles, rfile, rchunk, upload, hurt, count>>

\* Mutation of ReplayVisit: isHandleUploaded is not asked.
ReplayVisitAll ==
    /\ pc["monitor"] = "replay" /\ rfile # NoHandle /\ MoreRecords
    /\ nextHandle' = IF idOf[rfile] >= nextHandle THEN idOf[rfile] + 1 ELSE nextHandle
    /\ rchunk' = dlog[rfile][rpos]
    /\ pc' = [pc EXCEPT !["monitor"] = "replayPush"]
    /\ Hurt({rfile} \ uploaded, "replayed")
    /\ UNCHANGED <<ring, handles, uploaded, disk, clients, expired, buf, rfiles, rfile,
                   rpos, upload, count>>

\* Read a record and hand it to the visitor, which moves nextHandle past its Id.
ReplayVisit ==
    /\ pc["monitor"] = "replay" /\ rfile # NoHandle /\ MoreRecords
    /\ rfile \notin uploaded
    /\ nextHandle' = IF idOf[rfile] >= nextHandle THEN idOf[rfile] + 1 ELSE nextHandle
    /\ rchunk' = dlog[rfile][rpos]
    /\ pc' = [pc EXCEPT !["monitor"] = "replayPush"]
    /\ Hurt({rfile} \ uploaded, "replayed")
    /\ UNCHANGED <<ring, handles, uploaded, disk, clients, expired, buf, rfiles, rfile,
                   rpos, upload, count>>

\* The visitor's Push; after 100 turns with a full ring it gives the chunk up.
ReplayPush ==
    /\ pc["monitor"] = "replayPush"
    /\ \/ /\ Len(ring) < Cap
          /\ ring' = Append(ring, <<rfile, rchunk>>)
       \/ /\ Len(ring) = Cap
          /\ UNCHANGED ring
    /\ pc' = [pc EXCEPT !["monitor"] = "replayRegister"]
    /\ UNCHANGED <<handles, uploaded, nextHandle, disk, clients, expired, buf, replay,
                   upload, hurt, count>>

\* The visitor's entry in d.handles.
ReplayRegister ==
    /\ pc["monitor"] = "replayRegister"
    /\ handles' = [handles EXCEPT ![rfile] = Registered(rfile, rchunk)]
    /\ rpos' = rpos + 1 /\ rchunk' = 0
    /\ pc' = [pc EXCEPT !["monitor"] = "replay"]
    /\ UNCHANGED <<ring, uploaded, nextHandle, disk, clients, expired, buf, rfiles,
                   rfile, upload, hurt, count>>

(* ------------- Flush: shared by the monitor and the uploader ------------ *)

Other(a) == IF a = "monitor" THEN "uploader" ELSE "monitor"

\* Mutation of Drain: the ring is copied and not emptied.
DrainCopies(a) ==
    /\ buf' = [buf EXCEPT ![a] = ring]
    /\ pc' = [pc EXCEPT ![a] = "build"]
    /\ Hurt(HandlesIn(ring) \cap HandlesIn(buf[Other(a)]), "reordered")
    /\ UNCHANGED ring

\* syncLogToFile: drain the ring under logMu.  A chunk drained while the other
\* flusher still holds an earlier one of the same handle may overtake it.
Drain(a) ==
    /\ ring' = <<>>
    /\ buf' = [buf EXCEPT ![a] = ring]
    /\ pc' = [pc EXCEPT ![a] = "build"]
    /\ Hurt(HandlesIn(ring) \cap HandlesIn(buf[Other(a)]), "reordered")

\* syncContentsToFile: leave out the entries whose handle has expired.
Build(a) ==
    /\ pc[a] = "build"
    /\ buf' = [buf EXCEPT ![a] = Selected(@, {k \in 1 .. Len(@) : ~isHandleExpired(@[k][1])})]
    /\ pc' = [pc EXCEPT ![a] = "append"]
    /\ Hurt({h \in HandlesIn(buf[a]) : isHandleExpired(h)}, "expired")
    /\ UNCHANGED <<ring, handles, uploaded, nextHandle, disk, clients, expired, replay,
                   upload, count>>

\* syncContentsToFile: append to the files, in the random order of a Go map.
AppendFile(a) ==
    /\ pc[a] = "append"
    /\ \E h \in HandlesIn(buf[a]) :
          /\ dlog' = [dlog EXCEPT ![h] = @ \o ChunksOf(buf[a], h)]
          /\ buf' = [buf EXCEPT ![a] = Without(@, h)]
    /\ UNCHANGED <<ring, handles, uploaded, nextHandle, registry, stored, clients,
                   expired, pc, replay, upload, hurt, count>>

\* A file cannot be written: the entries of it and of the files after it are
\* gone, the callers only log the error.
AppendFails(a) ==
    /\ pc[a] = "append" /\ buf[a] # <<>>
    /\ Uses("disk", MaxDiskFails)
    /\ buf' = [buf EXCEPT ![a] = <<>>]
    /\ Hurt(HandlesIn(buf[a]), "failed")
    /\ UNCHANGED <<ring, handles, uploaded, nextHandle, disk, clients, expired, pc,
                   replay, upload>>

AppendDone(a) ==
    /\ pc[a] = "append" /\ buf[a] = <<>>
    /\ pc' = [pc EXCEPT ![a] = IF a = "monitor" THEN "save" ELSE "snapshot"]
    /\ UNCHANGED <<ring, handles, uploaded, nextHandle, disk, clients, expired, buf,
                   replay, upload, hurt, count>>

\* saveUploadedHandles: replace the registry file, or fail and only log it.
Save(a) ==
    /\ pc[a] = "save"
    /\ \/ registry' = uploaded /\ UNCHANGED count
       \/ Uses("disk", MaxDiskFails) /\ UNCHANGED registry
    /\ pc' = [pc EXCEPT ![a] = IF a = "monitor" THEN "select" ELSE "remove"]
    /\ UNCHANGED <<ring, handles, uploaded, nextHandle, dlog, stored, clients, expired,
                   buf, replay, upload, hurt>>

(* ------------------------ The monitor's tickers ------------------------- *)

\* cleanup: flush, then save the registry.
CleanupTick ==
    /\ pc["monitor"] = "select"
    /\ Uses("cleanups", MaxCleanups)
    /\ Drain("monitor")
    /\ UNCHANGED <<handles, uploaded, nextHandle, disk, clients, expired, replay, upload>>

\* performLogDeletion: any of the files left behind by uploaded handles may be
\* old enough.  Their handles leave the registry, which is saved at the end.
DeletionTick ==
    /\ pc["monitor"] = "select"
    /\ \E old \in SUBSET {h \in uploaded : dlog[h] # <<>>} :
          /\ old # {}
          /\ dlog' = [h \in Handle |-> IF h \in old THEN <<>> ELSE dlog[h]]
          /\ uploaded' = uploaded \ old
    /\ pc' = [pc EXCEPT !["monitor"] = "save"]
    /\ UNCHANGED <<ring, handles, nextHandle, registry, stored, clients, expired, buf,
                   replay, upload, hurt, count>>

(* --------------- The uploader: uploadFileToStorage -------------------- *)

UploadTick ==
    /\ pc["uploader"] = "idle"
    /\ Drain("uploader")
    /\ UNCHANGED <<handles, uploaded, nextHandle, disk, clients, expired, replay,
                   upload, count>>

\* Mutation of Snapshot: every known handle, completed or not.
SnapshotAll ==
    /\ pc["uploader"] = "snapshot"
    /\ pending' = {h \in Handle : handles[h] # "none"}
    /\ pc' = [pc EXCEPT !["uploader"] = IF pending' = {} THEN "idle" ELSE "upload"]
    /\ UNCHANGED <<ring, handles, uploaded, nextHandle, disk, clients, expired, buf,
                   replay, marked, hurt, count>>

\* GetCompletedHandleForRetransmission.
Snapshot ==
    /\ pc["uploader"] = "snapshot"
    /\ pending' = {h \in Handle : handles[h] = "done"}
    /\ pc' = [pc EXCEPT !["uploader"] = IF pending' = {} THEN "idle" ELSE "upload"]
    /\ UNCHANGED <<ring, handles, uploaded, nextHandle, disk, clients, expired, buf,
                   replay, marked, hurt, count>>

\* dfsClient.Write at offset 0: a longer old content keeps its tail.
Overwrite(old, new) == new \o SubSeq(old, Len(new) + 1, Len(old))

\* Upload the content of the .dlog file, then the metadata.  The chunks that
\* arrived after this pass drained the ring, or that the monitor has drained
\* and not yet written, are not in the file.
UploadFile ==
    /\ pc["uploader"] = "upload"
    /\ \E h \in pending :
          /\ dlog[h] # <<>>
          /\ stored' = [stored EXCEPT ![h] = Overwrite(@, dlog[h])]
          /\ pending' = pending \ {h}
          /\ Hurt({h} \cap (HandlesIn(ring) \cup HandlesIn(buf["monitor"])), "overtaken")
          /\ \/ marked' = marked \cup {h} /\ UNCHANGED count
             \/ Uses("dfs", MaxDfsFails) /\ UNCHANGED marked
    /\ UNCHANGED <<ring, handles, uploaded, nextHandle, dlog, registry, clients, expired,
                   pc, buf, replay>>

\* There is no .dlog file, or the DFS refuses before the content is written:
\* the handle stays complete for the next pass.
UploadFails ==
    /\ pc["uploader"] = "upload"
    /\ \E h \in pending :
          /\ pending' = pending \ {h}
          /\ \/ dlog[h] = <<>> /\ UNCHANGED count
             \/ dlog[h] # <<>> /\ Uses("dfs", MaxDfsFails)
    /\ UNCHANGED <<ring, handles, uploaded, nextHandle, disk, clients, expired, pc, buf,
                   replay, marked, hurt>>

\* Mutation of MarkHandlesUploaded: the handles that failed are forgotten too.
MarkForgetsFailed ==
    /\ pc["uploader"] = "upload" /\ pending = {}
    /\ uploaded' = uploaded \cup marked
    /\ handles' = [h \in Handle |-> IF handles[h] = "done" THEN "none" ELSE handles[h]]
    /\ pc' = [pc EXCEPT !["uploader"] = IF marked = {} THEN "idle" ELSE "save"]
    /\ UNCHANGED <<ring, nextHandle, disk, clients, expired, buf, replay, upload, hurt,
                   count>>

\* MarkHandlesUploaded, first loop; nothing is marked when nothing went up.
MarkHandlesUploaded ==
    /\ pc["uploader"] = "upload" /\ pending = {}
    /\ uploaded' = uploaded \cup marked
    /\ handles' = [h \in Handle |-> IF h \in marked THEN "none" ELSE handles[h]]
    /\ pc' = [pc EXCEPT !["uploader"] = IF marked = {} THEN "idle" ELSE "save"]
    /\ UNCHANGED <<ring, nextHandle, disk, clients, expired, buf, replay, upload, hurt,
                   count>>

\* MarkHandlesUploaded, second loop.
RemoveFiles ==
    /\ pc["uploader"] = "remove"
    /\ dlog' = [h \in Handle |-> IF h \in marked THEN <<>> ELSE dlog[h]]
    /\ marked' = {}
    /\ pc' = [pc EXCEPT !["uploader"] = "idle"]
    /\ UNCHANGED <<ring, handles, uploaded, nextHandle, registry, stored, clients,
                   expired, buf, replay, pending, hurt, count>>

(* --------------------------- Crash and restart -------------------------- *)

\* The process dies and NewDurableBuffer runs again: the ring, the buffers and
\* the maps are lost, uploaded is read back from the registry file, Ids start
\* again from zero, and the clients lose their connection.
Crash ==
    /\ Uses("crashes", MaxCrashes)
    /\ ring' = <<>> /\ buf' = [a \in Flusher |-> <<>>]
    /\ handles' = [h \in Handle |-> "none"]
    /\ uploaded' = registry /\ nextHandle' = 0
    /\ cpc' = [h \in Handle |-> IF cpc[h] = "none" THEN "none" ELSE "gone"]
    /\ pc' = [a \in Flusher |-> IF a = "monitor" THEN "start" ELSE "idle"]
    /\ rfiles' = {} /\ rfile' = NoHandle /\ rpos' = 1 /\ rchunk' = 0
    /\ pending' = {} /\ marked' = {}
    /\ Hurt(HandlesIn(ring) \cup UNION {HandlesIn(buf[a]) : a \in Flusher}, "crashed")
    /\ UNCHANGED <<disk, issued, idOf, sent, expired>>

(* ------------------------------------------------------------------------ *)

Client(h) == WriteCheck(h) \/ WritePush(h) \/ WriteRegister(h)

Sync(a) == Build(a) \/ AppendFile(a) \/ AppendFails(a) \/ AppendDone(a) \/ Save(a)

Monitor == \/ MonitorStart \/ ReplayOpen \/ ReplayClose \/ ReplaySkip \/ ReplayVisit
           \/ ReplayPush \/ ReplayRegister \/ Sync("monitor")

Uploader == \/ Snapshot \/ UploadFile \/ UploadFails \/ MarkHandlesUploaded
            \/ RemoveFiles \/ Sync("uploader")

Next == \/ GenerateHandle \/ \E h \in Handle : Client(h)
        \/ Expire \/ Crash
        \/ Monitor \/ CleanupTick \/ DeletionTick
        \/ Uploader \/ UploadTick

Spec == Init /\ [][Next]_vars

\* The goroutines run and the poll ticker keeps firing; nobody has to write,
\* expire or crash, and the hourly deletion is not counted on.
FairSpec == /\ Spec
            /\ WF_vars(Monitor)
            /\ WF_vars(Uploader)
            /\ WF_vars(UploadTick)

(* ------------------------------ Properties ------------------------------ *)

\* Type invariant.
TypeOK ==
    /\ ring \in Seq(Handle \X (1 .. Chunks)) /\ Len(ring) <= Cap
    /\ handles \in [Handle -> {"none", "open", "done"}]
    /\ uploaded \subseteq Handle /\ registry \subseteq Handle
    /\ nextHandle \in Nat /\ issued \in 0 .. MaxHandle /\ idOf \in [Handle -> Nat]
    /\ dlog \in [Handle -> Seq(1 .. Chunks)] /\ stored \in [Handle -> Seq(1 .. Chunks)]
    /\ expired \subseteq Handle
    /\ cpc \in [Handle -> {"none", "idle", "push", "register", "gone"}]
    /\ sent \in [Handle -> 0 .. Chunks]
    /\ DOMAIN pc = Flusher
    /\ pc["monitor"] \in {"start", "replay", "replayPush", "replayRegister", "select",
                          "build", "append", "save"}
    /\ pc["uploader"] \in {"idle", "build", "append", "snapshot", "upload", "save",
                           "remove"}
    /\ buf \in [Flusher -> Seq(Handle \X (1 .. Chunks))]
    /\ rfiles \subseteq Handle /\ rfile \in 0 .. MaxHandle
    /\ rpos \in Nat \ {0} /\ rchunk \in 0 .. Chunks
    /\ pending \subseteq Handle /\ marked \subseteq Handle
    /\ hurt \subseteq Handle \X Cause

Unhurt(h) == \A cause \in Cause : <<h, cause>> \notin hurt
Went(h) == h \in uploaded \cup registry

\* What MarkHandlesUploaded acknowledges is in the DFS whole: every chunk, once,
\* in the order the client sent them, unless a cause on record explains it.
UploadExact == \A h \in Handle : Went(h) /\ Unhurt(h) => stored[h] = Whole

\* How often chunk n of h is in the ring, in a flusher's hands or in the file.
Copies(h, n) ==
    LET In(s) == Cardinality({k \in 1 .. Len(s) : s[k] = <<h, n>>})
    IN  In(ring) + In(buf["monitor"]) + In(buf["uploader"])
          + Cardinality({k \in 1 .. Len(dlog[h]) : dlog[h][k] = n})

\* A chunk that Write has accepted is in exactly one of the ring, a flusher's
\* buffer and the .dlog file until its handle has been uploaded; the chunk of
\* a call that has not returned is there at most once.
Accounted ==
    \A h \in Handle : Unhurt(h) /\ stored[h] = <<>> =>
       \A n \in 1 .. Chunks : /\ n <= sent[h] => Copies(h, n) = 1
                              /\ n = sent[h] + 1 => Copies(h, n) <= 1
                              /\ n > sent[h] + 1 => Copies(h, n) = 0

\* Nothing writes the content of a handle again once MarkHandlesUploaded has
\* listed it, not even after a restart: a listed handle is never complete
\* again, save when Replay read it before it was listed.
UploadedOnce ==
    [][\A h \in Handle : h \in uploaded /\ <<h, "replayed">> \notin hurt =>
          stored'[h] = stored[h]]_vars

\* No chunk is in the uploaded content twice.
NoChunkTwice ==
    \A h \in Handle : \A j, k \in DOMAIN stored[h] : stored[h][j] = stored[h][k] => j = k

\* Every completed handle is uploaded in the end, whatever uploads fail on the
\* way; unless chunks of it were dropped, expired or not written to its file, for
\* without a file a handle fails in every pass.  It does not hold up the others.
CompletedUploaded ==
    \A h \in Handle : handles[h] = "done" ~>
       h \in uploaded \/ \E cause \in {"dropped", "expired", "failed"} : <<h, cause>> \in hurt
===============================================================================
