----------------------------- MODULE HandleRegistry -----------------------------
(***************************************************************************)
(* The registry of uploaded handles in mrp/durable_buffer.go, at the level *)
(* of the fields of its file: MarkHandlesUploaded, saveUploadedHandles,    *)
(* loadUploadedHandles, pruneUploadedHandles and performLogDeletion.  An   *)
(* uploaded handle is in the registry until its job is dispatched; its     *)
(* .dlog file is removed, so the registry is all there is to know it by.   *)
(*   - The uploader marks handles, saves the registry, removes the files.  *)
(*   - The monitor saves the registry in every cleanup and log deletion.   *)
(*   - Dispatchers take handles from the registry.                         *)
(* Both savers write one .tmp file and rename it; no lock keeps them       *)
(* apart.  A record is written field by field, and nobody looks whether a  *)
(* write fails.  Here a record has two fields, the Id and, in one, the two *)
(* times that follow it.  (DurableBuffer has the save as one step, and     *)
(* everything that happens to a handle before it is marked.)               *)
(***************************************************************************)
EXTENDS Integers, Sequences, FiniteSets

CONSTANTS MaxHandle,    \* number of handles
          MaxTicks,     \* bound: saves by the monitor
          MaxFaults     \* bound: failed system calls, entries past their TTL, crashes

ASSUME BoundsAssumption == MaxHandle \in Nat /\ MaxTicks \in Nat /\ MaxFaults \in Nat

Handle == 1 .. MaxHandle
Saver == {"monitor", "uploader"}
Cause == {"spoilt", "failed", "deleted", "expired"}
None == 0                      \* no handle
Field == {"id", "times", "hole"} \X (0 .. MaxHandle)
Hole == <<"hole", None>>       \* zeros between the end of the file and a field

VARIABLES
  complete,   \* d.handles: complete handles that are to be uploaded
  uploaded,   \* keys of d.uploadedHandles
  late,       \* handles whose entry has outlived uploadedHandleTTL
  dlog,       \* handles that have a .dlog file
  aged,       \* .dlog files older than logDeletionDuration
  pc,         \* where each saver is
  must, seen, \* Range: the keys at its start, the keys visited so far
  cur,        \* the handle whose record is being written
  offset,     \* where the open file is written next: the fields before it
  fd,         \* the file it has open: .tmp, the registry file, or neither
  tmp, reg,   \* the files; <<>> is also an absent registry
  tmpExists,  \* whether there is a .tmp file
  marked,     \* MarkHandlesUploaded: the files still to be removed
  dispatched, \* handles that a dispatcher has taken
  spoilt,     \* history: savers whose .tmp file the other one has truncated or
              \* shared, or a write to which has failed
  regSpoilt,  \* history: whether the registry file comes from such a saver
  hurt,       \* history: pairs <<handle, why it may be forgotten>>
  count       \* how much of each bound is used

memory == <<complete, uploaded>>
logs == <<dlog, aged>>
save == <<pc, must, seen, cur, offset, fd>>
files == <<tmp, reg, tmpExists>>
history == <<spoilt, regSpoilt>>
vars == <<memory, late, logs, save, files, marked, dispatched, history, hurt, count>>

Init == /\ complete = Handle /\ uploaded = {} /\ late = {} /\ dlog = Handle /\ aged = {}
        /\ pc = [s \in Saver |-> "idle"]
        /\ must = [s \in Saver |-> {}] /\ seen = [s \in Saver |-> {}]
        /\ cur = [s \in Saver |-> None] /\ offset = [s \in Saver |-> 0]
        /\ fd = [s \in Saver |-> "none"]
        /\ tmp = <<>> /\ reg = <<>> /\ tmpExists = FALSE
        /\ marked = {} /\ dispatched = {} /\ spoilt = {} /\ regSpoilt = FALSE /\ hurt = {}
        /\ count = [b \in {"ticks", "faults"} |-> 0]

Uses(bound, limit) == /\ count[bound] < limit
                      /\ count' = [count EXCEPT ![bound] = @ + 1]
Hurt(hs, cause) == hurt' = hurt \cup (hs \X {cause})
Other(s) == IF s = "monitor" THEN "uploader" ELSE "monitor"
Saving(s) == pc[s] \in {"range", "times", "rename"}

\* Record k of file f is the one of handle h, with all its fields.
Whole(f, k, h) == /\ 2 * k <= Len(f)
                  /\ f[2 * k - 1] = <<"id", h>> /\ f[2 * k] = <<"times", h>>

\* loadUploadedHandles reads record by record, up to one that the end of the file
\* cuts short.  A record put together from fields of several handles, or from a
\* hole, names no handle that was uploaded.
Loaded(f) == {h \in Handle \ late : \E k \in Handle : Whole(f, k, h)}

(* ---------------------- saveUploadedHandles, saver s ----------------------- *)

\* Mutation of Create: a .tmp file that is there is not truncated.
CreateKeeps(s) ==
    /\ pc[s] = "create"
    /\ tmpExists' = TRUE
    /\ fd' = [fd EXCEPT ![s] = "tmp"]
    /\ must' = [must EXCEPT ![s] = uploaded] /\ seen' = [seen EXCEPT ![s] = {}]
    /\ offset' = [offset EXCEPT ![s] = 0]
    /\ pc' = [pc EXCEPT ![s] = "range"]
    /\ spoilt' = IF Saving(Other(s)) THEN Saver ELSE spoilt \ {s}
    /\ UNCHANGED <<memory, late, logs, cur, tmp, reg, marked, dispatched, regSpoilt, hurt,
                   count>>

\* Mutation of Create: the records go after the ones of the last save.
CreateAppends(s) ==
    /\ pc[s] = "create"
    /\ tmp' = <<>> /\ tmpExists' = TRUE
    /\ fd' = [fd EXCEPT ![s] = "tmp"]
    /\ must' = [must EXCEPT ![s] = uploaded] /\ seen' = [seen EXCEPT ![s] = {}]
    /\ pc' = [pc EXCEPT ![s] = "range"]
    /\ spoilt' = IF Saving(Other(s)) THEN Saver ELSE spoilt \ {s}
    /\ UNCHANGED <<memory, late, logs, cur, offset, reg, marked, dispatched, regSpoilt, hurt,
                   count>>

\* os.Create: a .tmp file that is there is truncated and shared.  If it cannot
\* be created the save is given up.
Create(s) ==
    /\ pc[s] = "create"
    /\ \/ /\ tmp' = <<>> /\ tmpExists' = TRUE
          /\ fd' = [fd EXCEPT ![s] = "tmp"]
          /\ must' = [must EXCEPT ![s] = uploaded] /\ seen' = [seen EXCEPT ![s] = {}]
          /\ offset' = [offset EXCEPT ![s] = 0]
          /\ pc' = [pc EXCEPT ![s] = "range"]
          /\ spoilt' = IF Saving(Other(s)) THEN Saver ELSE spoilt \ {s}
          /\ UNCHANGED <<hurt, count>>
       \/ /\ Uses("faults", MaxFaults)
          /\ pc' = [pc EXCEPT ![s] = "saved"]
          /\ Hurt(uploaded, "failed")
          /\ UNCHANGED <<fd, must, seen, offset, tmp, tmpExists, spoilt>>
    /\ UNCHANGED <<memory, late, logs, cur, reg, marked, dispatched, regSpoilt>>

\* File f with its field k set to v.
Put(f, k, v) ==
    [j \in 1 .. (IF k > Len(f) THEN k ELSE Len(f)) |->
       IF j = k THEN v ELSE IF j <= Len(f) THEN f[j] ELSE Hole]

\* binary.Write to the open file, whatever its name is by now.  An error is
\* ignored: the next field goes where this one should have been.
WriteField(s, x, h) ==
    \/ /\ \/ /\ fd[s] = "tmp"
             /\ tmp' = Put(tmp, offset[s] + 1, <<x, h>>) /\ UNCHANGED reg
          \/ /\ fd[s] = "registry"
             /\ reg' = Put(reg, offset[s] + 1, <<x, h>>) /\ UNCHANGED tmp
          \/ fd[s] = "none" /\ UNCHANGED <<tmp, reg>>
       /\ offset' = [offset EXCEPT ![s] = @ + 1]
       /\ UNCHANGED <<spoilt, count>>
    \/ /\ Uses("faults", MaxFaults)
       /\ spoilt' = spoilt \cup {s}
       /\ UNCHANGED <<tmp, reg, offset>>

\* Range visits a key that is still there, in any order; an entry past its TTL
\* is skipped.
Visit(s) ==
    /\ pc[s] = "range"
    /\ \E h \in uploaded \ seen[s] :
          /\ seen' = [seen EXCEPT ![s] = @ \cup {h}]
          /\ \/ /\ h \in late
                /\ UNCHANGED <<pc, cur, tmp, reg, offset, spoilt, count>>
             \/ /\ h \notin late
                /\ WriteField(s, "id", h)
                /\ cur' = [cur EXCEPT ![s] = h]
                /\ pc' = [pc EXCEPT ![s] = "times"]
    /\ UNCHANGED <<memory, late, logs, must, fd, tmpExists, marked, dispatched, regSpoilt,
                   hurt>>

WriteTimes(s) ==
    /\ pc[s] = "times"
    /\ WriteField(s, "times", cur[s])
    /\ cur' = [cur EXCEPT ![s] = None]
    /\ pc' = [pc EXCEPT ![s] = "range"]
    /\ UNCHANGED <<memory, late, logs, must, seen, fd, tmpExists, marked, dispatched,
                   regSpoilt, hurt>>

\* Range ends when it has visited the keys that have been there all the time;
\* then Sync, which may fail: the save is given up and the .tmp file stays.
Sync(s) ==
    /\ pc[s] = "range" /\ must[s] \cap uploaded \subseteq seen[s]
    /\ fd' = [fd EXCEPT ![s] = "none"]
    /\ \/ /\ pc' = [pc EXCEPT ![s] = "rename"]
          /\ UNCHANGED <<hurt, count>>
       \/ /\ Uses("faults", MaxFaults)
          /\ pc' = [pc EXCEPT ![s] = "saved"]
          /\ Hurt(uploaded, "failed")
    /\ UNCHANGED <<memory, late, logs, must, seen, cur, offset, files, marked, dispatched,
                   history>>

\* os.Rename; if it fails, or the other saver has renamed the .tmp file, there
\* is only a warning.  A saver that still has the .tmp file open now writes the
\* registry.  A save that had the file to itself and wrote all of it makes up for
\* the ones that failed.
Rename(s) ==
    /\ pc[s] = "rename"
    /\ pc' = [pc EXCEPT ![s] = "saved"]
    /\ \/ /\ tmpExists
          /\ reg' = tmp /\ tmp' = <<>> /\ tmpExists' = FALSE
          /\ fd' = [u \in Saver |-> IF fd[u] = "tmp" THEN "registry" ELSE "none"]
          /\ regSpoilt' = (s \in spoilt)
          /\ hurt' = IF s \in spoilt THEN hurt ELSE hurt \ (seen[s] \X {"failed"})
          /\ UNCHANGED count
       \/ /\ ~tmpExists
          /\ UNCHANGED <<files, fd, regSpoilt, hurt, count>>
       \/ /\ tmpExists /\ Uses("faults", MaxFaults)
          /\ Hurt(uploaded, "failed")
          /\ UNCHANGED <<files, fd, regSpoilt>>
    /\ UNCHANGED <<memory, late, logs, must, seen, cur, offset, marked, dispatched, spoilt>>

Save(s) == Create(s) \/ Visit(s) \/ WriteTimes(s) \/ Sync(s) \/ Rename(s)

(* --------------------------- MarkHandlesUploaded --------------------------- *)

\* Mutation of Mark: the files are removed before the registry is saved.
MarkRemovesFirst ==
    /\ pc["uploader"] = "idle"
    /\ \E hs \in (SUBSET complete) \ {{}} :
          /\ uploaded' = uploaded \cup hs
          /\ complete' = complete \ hs
          /\ dlog' = dlog \ hs
    /\ pc' = [pc EXCEPT !["uploader"] = "create"]
    /\ UNCHANGED <<late, aged, must, seen, cur, offset, fd, files, marked, dispatched,
                   history, hurt, count>>

\* The upload of some complete handles has succeeded.
Mark ==
    /\ pc["uploader"] = "idle"
    /\ \E hs \in (SUBSET complete) \ {{}} :
          /\ uploaded' = uploaded \cup hs
          /\ complete' = complete \ hs
          /\ marked' = hs
    /\ pc' = [pc EXCEPT !["uploader"] = "create"]
    /\ UNCHANGED <<late, logs, must, seen, cur, offset, fd, files, dispatched, history,
                   hurt, count>>

\* The removal of one of the files, whether or not the registry could be saved.
RemoveFile ==
    /\ pc["uploader"] = "saved"
    /\ \E h \in marked :
          /\ marked' = marked \ {h}
          /\ \/ dlog' = dlog \ {h} /\ aged' = aged \ {h} /\ UNCHANGED count
             \/ Uses("faults", MaxFaults) /\ UNCHANGED logs
    /\ UNCHANGED <<memory, late, save, files, dispatched, history, hurt>>

SaveReturns(s) ==
    /\ pc[s] = "saved" /\ (s = "uploader" => marked = {})
    /\ pc' = [pc EXCEPT ![s] = "idle"]
    /\ UNCHANGED <<memory, late, logs, must, seen, cur, offset, fd, files, marked,
                   dispatched, history, hurt, count>>

(* ------------------------------- The monitor ------------------------------- *)

\* cleanup ends with a save.
CleanupTick ==
    /\ pc["monitor"] = "idle" /\ Uses("ticks", MaxTicks)
    /\ pc' = [pc EXCEPT !["monitor"] = "create"]
    /\ UNCHANGED <<memory, late, logs, must, seen, cur, offset, fd, files, marked,
                   dispatched, history, hurt>>

\* performLogDeletion and pruneUploadedHandles up to the save: old files of
\* uploaded handles go, save for those that cannot be removed, and with them the
\* entries, dispatched or not; then the entries past their TTL.
DeletionTick ==
    /\ pc["monitor"] = "idle" /\ Uses("ticks", MaxTicks)
    /\ \E old \in SUBSET (uploaded \cap dlog \cap aged) :
          /\ dlog' = dlog \ old /\ aged' = aged \ old
          /\ uploaded' = uploaded \ (old \cup late)
          /\ Hurt(old, "deleted")
    /\ pc' = [pc EXCEPT !["monitor"] = "create"]
    /\ UNCHANGED <<complete, late, must, seen, cur, offset, fd, files, marked, dispatched,
                   history>>

(* ---------------------- Dispatch, time, crash, restart --------------------- *)

\* A dispatcher takes the handle and the master accepts the job.
Dispatch(h) ==
    /\ h \in uploaded \ dispatched
    /\ dispatched' = dispatched \cup {h}
    /\ UNCHANGED <<memory, late, logs, save, files, marked, history, hurt, count>>

\* A .dlog file gets older than logDeletionDuration.
Age(h) ==
    /\ h \in dlog \ aged
    /\ aged' = aged \cup {h}
    /\ UNCHANGED <<memory, late, dlog, save, files, marked, dispatched, history, hurt,
                   count>>

\* An entry outlives uploadedHandleTTL, 48 hours by default.  Only for entries
\* whose file is gone: log deletion has had it removed long before.
Expire(h) ==
    /\ h \in uploaded \ (late \cup dlog) /\ Uses("faults", MaxFaults)
    /\ late' = late \cup {h}
    /\ Hurt({h}, "expired")
    /\ UNCHANGED <<memory, logs, save, files, marked, dispatched, history>>

\* NewDurableBuffer reads the registry; replay completes the handles that have
\* a file and are not in it.
Restart ==
    /\ complete' = dlog \ Loaded(reg)
    /\ uploaded' = Loaded(reg)

Crash ==
    /\ Uses("faults", MaxFaults)
    /\ Restart
    /\ pc' = [s \in Saver |-> "idle"] /\ fd' = [s \in Saver |-> "none"]
    /\ must' = [s \in Saver |-> {}] /\ seen' = [s \in Saver |-> {}]
    /\ cur' = [s \in Saver |-> None] /\ offset' = [s \in Saver |-> 0]
    /\ marked' = {} /\ spoilt' = {}
    /\ IF regSpoilt THEN Hurt(Handle \ (dlog \cup Loaded(reg)), "spoilt") ELSE UNCHANGED hurt
    /\ UNCHANGED <<late, logs, files, dispatched, regSpoilt>>

(* ------------------------------------------------------------------------ *)

Uploader == Save("uploader") \/ RemoveFile \/ SaveReturns("uploader")
Monitor == Save("monitor") \/ SaveReturns("monitor")

Next == \/ Mark \/ Uploader
        \/ CleanupTick \/ DeletionTick \/ Monitor
        \/ \E h \in Handle : Dispatch(h) \/ Age(h) \/ Expire(h)
        \/ Crash

Spec == Init /\ [][Next]_vars

(* ------------------------------ Properties ------------------------------ *)

\* Type invariant.
TypeOK ==
    /\ complete \subseteq Handle /\ uploaded \subseteq Handle /\ late \subseteq Handle
    /\ dlog \subseteq Handle /\ aged \subseteq Handle
    /\ pc \in [Saver -> {"idle", "create", "range", "times", "rename", "saved"}]
    /\ must \in [Saver -> SUBSET Handle] /\ seen \in [Saver -> SUBSET Handle]
    /\ cur \in [Saver -> 0 .. MaxHandle] /\ offset \in [Saver -> 0 .. 2 * MaxHandle]
    /\ fd \in [Saver -> {"none", "tmp", "registry"}]
    /\ tmp \in Seq(Field) /\ reg \in Seq(Field)
    /\ Len(tmp) <= 2 * MaxHandle /\ Len(reg) <= 2 * MaxHandle
    /\ tmpExists \in BOOLEAN /\ marked \subseteq Handle /\ dispatched \subseteq Handle
    /\ spoilt \subseteq Saver /\ regSpoilt \in BOOLEAN /\ hurt \subseteq Handle \X Cause

Unhurt(h) == \A cause \in Cause : <<h, cause>> \notin hurt

\* A handle that has not been dispatched survives a crash at any moment: its
\* .dlog file is still there or the registry file has it.  The exceptions: the
\* registry was last written by two savers at once or with a field missing, a
\* save failed and the file was removed all the same, log deletion dropped it,
\* or its TTL ran out.
Recoverable ==
    \A h \in Handle \ dispatched : Unhurt(h) /\ ~regSpoilt => h \in dlog \cup Loaded(reg)

\* The registry file consists of whole records, one for a handle, unless two
\* savers wrote it at once or a write to it failed.
RegistrySound ==
    ~regSpoilt =>
       \E n \in 0 .. MaxHandle :
          /\ Len(reg) = 2 * n
          /\ \A k \in 1 .. n : \E h \in Handle : Whole(reg, k, h)
          /\ \A h \in Handle : \A j, k \in 1 .. n : Whole(reg, j, h) /\ Whole(reg, k, h) => j = k
===============================================================================
