-------------------------------- MODULE Worker --------------------------------
(***************************************************************************)
(* mrp/worker.go: attempts at one chunk of one file on one worker, from    *)
(* RPCMapReduce to submitResultToMaster, and Close; with the way           *)
(* mrp/master.go cuts a file into chunks.  A chunk is dispatched again     *)
(* when the TTL of its handle has run out or the job is over, so a worker  *)
(* may have several attempts at it, one after another or at once.  They    *)
(* use the same intermediate files (one per partition), the same .tmp and  *)
(* the same output file.                                                   *)
(*   - Every attempt has a goroutine per partition that writes its file, a *)
(*     reducer that reads the files as their names come out of a channel,  *)
(*     and a main goroutine that waits for all of them.                    *)
(*   - All attempts have the same request, as when the DFS answers the     *)
(*     master the same about the file at every dispatch.                   *)
(*   - A key-value pair is represented by the byte it was mapped from, a   *)
(*     reduce output by the set of pairs it was computed from.             *)
(***************************************************************************)
EXTENDS Integers, FiniteSets

CONSTANTS Attempts,   \* attempts at the chunk
          NReduce,    \* w.nReduce
          ChunkMax,   \* dfscommon.ChunkMaxSizeInByte
          Lengths,    \* lengths of the file in the DFS
          MaxFails    \* bound: system calls and RPCs that fail

ASSUME SizesAssumption == /\ NReduce \in Nat \ {0} /\ ChunkMax \in Nat \ {0}
                          /\ Lengths \subseteq Nat
ASSUME BoundsAssumption == MaxFails \in Nat

Partition == 0 .. NReduce - 1

\* Contents that are not sets of pairs.
Absent == {-1}
Torn == {-2}
NotSent == {-3}

VARIABLES
  length,     \* Length of the content file in the DFS
  source,     \* SourcePath of the request: the content file or the metadata file
  chunk,      \* the ChunkInfo of the request
  pc,         \* where each attempt's main goroutine is
  rm,         \* the files its cleanup has matched and not yet removed
  wpc, enc,   \* its partition writers: where they are, what they have encoded
  linked,     \* whether the file a writer has open still has a name
  ch,         \* intermediateCh: the partitions whose file has been announced
  rpc, all,   \* its reducer: where it is, what it has decoded
  ofd,        \* what the reducer's open output file is: .tmp, output, or neither
  file,       \* the intermediate files, by partition
  tmp, out,   \* the .tmp and the output file
  submitted,  \* what each attempt has submitted to the master
  stop,       \* how far Worker.Close is
  met,        \* history: attempts that ran while another one was running
  fails       \* how much of the bound is used

input == <<length, source, chunk>>
writers == <<wpc, enc, linked, ch>>
reducer == <<rpc, all, ofd>>
files == <<file, tmp, out>>
vars == <<input, pc, rm, writers, reducer, files, submitted, stop, met, fails>>

(* ------------------- The chunks of a file, and their bytes ------------------ *)

\* The metadata file (.json) is one byte that no content has.
MetadataByte == -10

\* Number of chunks of a file in the DFS.
DfsChunks(len) == (len + ChunkMax - 1) \div ChunkMax

\* Mutation of ChunkAt: consecutive chunks share a byte.
ChunkOverlapping(len, i) ==
    LET offset == i * (ChunkMax - 1)
    IN  [offset |-> offset, size |-> IF len - offset < ChunkMax THEN len - offset ELSE ChunkMax]

\* The window of chunk i.
ChunkAt(len, i) ==
    LET offset == i * ChunkMax
    IN  [offset |-> offset, size |-> IF len - offset < ChunkMax THEN len - offset ELSE ChunkMax]

\* fetchFileMetadataFromDFS: the file that a job reads.  It is the metadata file
\* when GetFile does not find the content file, fails, or finds it empty.
SourcesOf(len) == IF len = 0 THEN {"metadata"} ELSE {"content", "metadata"}

\* fetchFileMetadataFromDFS: the chunks of that file.  The metadata file is one
\* chunk, and so is a content file of which the DFS reports no chunks, with
\* size 0.
ChunksOf(src, len, n) ==
    IF src = "metadata" THEN {[offset |-> 0, size |-> 1]}
    ELSE IF n = 0 THEN {[offset |-> 0, size |-> 0]}
    ELSE {ChunkAt(len, i) : i \in 0 .. n - 1}

\* readChunkData: the number of bytes to ask for.  (defaultChunkReadSize is
\* larger than any file here.)
ReadSize(len, c) == IF c.size > 0 THEN c.size
                    ELSE IF len > c.offset THEN len - c.offset ELSE len + 1

\* The bytes of the file that a job reads.
FileBytes(src, len) == IF src = "metadata" THEN {MetadataByte} ELSE 0 .. len - 1

\* readChunkData: the bytes that come back.
BytesOf(src, len, c) ==
    IF src = "metadata" THEN {MetadataByte}
    ELSE {b \in 0 .. len - 1 : c.offset <= b /\ b < c.offset + ReadSize(len, c)}

Data == BytesOf(source, length, chunk)

\* arrangeImmediate: the pairs of a partition.
Bucket(p) == {b \in Data : b % NReduce = p}

(* ------------------------------------------------------------------------ *)

Init == /\ length \in Lengths /\ source \in SourcesOf(length)
        /\ \E n \in {0, DfsChunks(length)} : chunk \in ChunksOf(source, length, n)
        /\ pc = [a \in Attempts |-> "none"] /\ rm = [a \in Attempts |-> {}]
        /\ wpc = [a \in Attempts |-> [p \in Partition |-> "none"]]
        /\ enc = [a \in Attempts |-> [p \in Partition |-> {}]]
        /\ linked = [a \in Attempts |-> {}] /\ ch = [a \in Attempts |-> {}]
        /\ rpc = [a \in Attempts |-> "none"] /\ all = [a \in Attempts |-> {}]
        /\ ofd = [a \in Attempts |-> "none"]
        /\ file = [p \in Partition |-> Absent] /\ tmp = Absent /\ out = Absent
        /\ submitted = [a \in Attempts |-> NotSent]
        /\ stop = "running" /\ met = {} /\ fails = 0

Fails == fails < MaxFails /\ fails' = fails + 1
Active(a) == pc[a] \notin {"none", "ended"}
Finished(a, p) == wpc[a][p] \in {"sent", "failed"}

\* Mutation of Accept: the listener is not asked.
AcceptAlways(a) ==
    /\ pc[a] = "none"
    /\ pc' = [pc EXCEPT ![a] = "clean"]
    /\ met' = met \cup (IF \E b \in Attempts : Active(b)
                        THEN {a} \cup {b \in Attempts : Active(b)} ELSE {})
    /\ UNCHANGED <<input, rm, writers, reducer, files, submitted, stop, fails>>

\* RPCMapReduce: the handler adds to w.wg, starts the goroutine and returns.
\* Its connection holds RPCListener.Close up.
Accept(a) ==
    /\ pc[a] = "none" /\ stop \in {"running", "stopping"}
    /\ pc' = [pc EXCEPT ![a] = "clean"]
    /\ met' = met \cup (IF \E b \in Attempts : Active(b)
                        THEN {a} \cup {b \in Attempts : Active(b)} ELSE {})
    /\ UNCHANGED <<input, rm, writers, reducer, files, submitted, stop, fails>>

\* What follows a cleanup.
AfterCleanup(here) == IF here \in {"clean", "remove"} THEN "read" ELSE "submit"

\* cleanupIntermediateFiles, before the read and after the pipeline: Glob.
Glob(a) ==
    LET found == {p \in Partition : file[p] # Absent}
        removing == IF pc[a] = "clean" THEN "remove" ELSE "removeAgain"
    IN  /\ pc[a] \in {"clean", "cleanAgain"}
        /\ rm' = [rm EXCEPT ![a] = found]
        /\ pc' = [pc EXCEPT ![a] = IF found = {} THEN AfterCleanup(@) ELSE removing]
        /\ UNCHANGED <<input, writers, reducer, files, submitted, stop, met, fails>>

\* os.Remove of a file Glob has found, whoever has written it since.  A failure
\* is only logged.
Remove(a, p) ==
    /\ pc[a] \in {"remove", "removeAgain"} /\ p \in rm[a]
    /\ rm' = [rm EXCEPT ![a] = @ \ {p}]
    /\ \/ /\ file' = [file EXCEPT ![p] = Absent]
          /\ linked' = [b \in Attempts |-> linked[b] \ {p}]
          /\ UNCHANGED fails
       \/ Fails /\ UNCHANGED <<file, linked>>
    /\ pc' = [pc EXCEPT ![a] = IF rm[a] = {p} THEN AfterCleanup(@) ELSE @]
    /\ UNCHANGED <<input, wpc, enc, ch, reducer, tmp, out, submitted, stop, met>>

\* readChunkData and the start of runMapReducePipeline: map, partition, start
\* the reducer and the writers.  A failed read, or a context cancelled by
\* Close, ends the attempt; nobody is told.
Read(a) ==
    /\ pc[a] = "read"
    /\ \/ /\ pc' = [pc EXCEPT ![a] = "pipeline"]
          /\ wpc' = [wpc EXCEPT ![a] = [p \in Partition |-> "create"]]
          /\ rpc' = [rpc EXCEPT ![a] = "range"]
          /\ UNCHANGED fails
       \/ /\ \/ Fails
             \/ stop # "running" /\ UNCHANGED fails
          /\ pc' = [pc EXCEPT ![a] = "ended"]
          /\ UNCHANGED <<wpc, rpc>>
    /\ UNCHANGED <<input, rm, enc, linked, ch, all, ofd, files, submitted, stop, met>>

(* ---------------- writeIntermediatePartition, per partition --------------- *)

\* Mutation of Create: the file is opened as it is.
OpenAsIs(a, p) ==
    /\ wpc[a][p] = "create"
    /\ wpc' = [wpc EXCEPT ![a][p] = "encode"]
    /\ linked' = [linked EXCEPT ![a] = @ \cup {p}]
    /\ UNCHANGED <<input, pc, rm, enc, ch, reducer, files, submitted, stop, met, fails>>

\* os.Create: a file of that name is truncated, whoever has it open.
Create(a, p) ==
    /\ wpc[a][p] = "create"
    /\ \/ /\ wpc' = [wpc EXCEPT ![a][p] = "encode"]
          /\ file' = [file EXCEPT ![p] = {}]
          /\ linked' = [linked EXCEPT ![a] = @ \cup {p}]
          /\ UNCHANGED fails
       \/ /\ Fails
          /\ wpc' = [wpc EXCEPT ![a][p] = "failed"]
          /\ UNCHANGED <<file, linked>>
    /\ UNCHANGED <<input, pc, rm, enc, ch, reducer, tmp, out, submitted, stop, met>>

\* enc.Encode of the next pair, at the writer's own offset in its open file.
Encode(a, p) ==
    /\ wpc[a][p] = "encode"
    /\ \E b \in Bucket(p) \ enc[a][p] :
          /\ \A c \in Bucket(p) \ enc[a][p] : b <= c
          /\ \/ /\ enc' = [enc EXCEPT ![a][p] = @ \cup {b}]
                /\ file' = [file EXCEPT ![p] = IF p \in linked[a] THEN @ \cup {b} ELSE @]
                /\ UNCHANGED <<wpc, linked, fails>>
             \/ /\ Fails
                /\ wpc' = [wpc EXCEPT ![a][p] = "failed"]
                /\ linked' = [linked EXCEPT ![a] = @ \ {p}]
                /\ UNCHANGED <<enc, file>>
    /\ UNCHANGED <<input, pc, rm, ch, reducer, tmp, out, submitted, stop, met>>

\* Mutation of Send: the channel has no buffer, a send waits for the reducer.
SendWaits(a, p) ==
    /\ wpc[a][p] = "encode" /\ enc[a][p] = Bucket(p) /\ rpc[a] = "range"
    /\ ch' = [ch EXCEPT ![a] = @ \cup {p}]
    /\ wpc' = [wpc EXCEPT ![a][p] = "sent"]
    /\ linked' = [linked EXCEPT ![a] = @ \ {p}]
    /\ UNCHANGED <<input, pc, rm, enc, reducer, files, submitted, stop, met, fails>>

\* Mutation of Send: the name is sent before the last pair is written.
SendEarly(a, p) ==
    /\ wpc[a][p] = "encode"
    /\ ch' = [ch EXCEPT ![a] = @ \cup {p}]
    /\ wpc' = [wpc EXCEPT ![a][p] = "sent"]
    /\ linked' = [linked EXCEPT ![a] = @ \ {p}]
    /\ UNCHANGED <<input, pc, rm, enc, reducer, files, submitted, stop, met, fails>>

\* All is written: close the file and send its name.  The channel has room for
\* every partition, so no send waits.
Send(a, p) ==
    /\ wpc[a][p] = "encode" /\ enc[a][p] = Bucket(p)
    /\ ch' = [ch EXCEPT ![a] = @ \cup {p}]
    /\ wpc' = [wpc EXCEPT ![a][p] = "sent"]
    /\ linked' = [linked EXCEPT ![a] = @ \ {p}]
    /\ UNCHANGED <<input, pc, rm, enc, reducer, files, submitted, stop, met, fails>>

(* ---------------------------- runReduceFromChannel ------------------------- *)

\* A JSON decoder gets through a file without a gap where a pair is missing.
Decodes(p) == \A b \in file[p] : \A c \in Bucket(p) : c < b => c \in file[p]

\* The next file of the channel: open it and decode what is in it.  If it is
\* gone, or does not decode, the reducer returns and leaves the rest unread.
RangeNext(a, p) ==
    /\ rpc[a] = "range" /\ p \in ch[a]
    /\ ch' = [ch EXCEPT ![a] = @ \ {p}]
    /\ \/ /\ file[p] # Absent /\ Decodes(p)
          /\ all' = [all EXCEPT ![a] = @ \cup file[p]]
          /\ UNCHANGED <<rpc, fails>>
       \/ /\ \/ (file[p] = Absent \/ ~Decodes(p)) /\ UNCHANGED fails
             \/ Fails
          /\ rpc' = [rpc EXCEPT ![a] = "failed"]
          /\ UNCHANGED all
    /\ UNCHANGED <<input, pc, rm, wpc, enc, linked, ofd, files, submitted, stop, met>>

\* The channel is closed and empty: sort and reduce.
RangeEnd(a) ==
    /\ rpc[a] = "range" /\ ch[a] = {} /\ \A p \in Partition : Finished(a, p)
    /\ rpc' = [rpc EXCEPT ![a] = "create"]
    /\ UNCHANGED <<input, pc, rm, writers, all, ofd, files, submitted, stop, met, fails>>

\* Mutation of OutputCreate: the output file itself is truncated.
OutputInPlace(a) ==
    /\ rpc[a] = "create"
    /\ rpc' = [rpc EXCEPT ![a] = "write"]
    /\ ofd' = [ofd EXCEPT ![a] = "out"]
    /\ out' = {} /\ tmp' = {}
    /\ UNCHANGED <<input, pc, rm, writers, all, file, submitted, stop, met, fails>>

\* os.WriteFile on the .tmp file: open and truncate.
OutputCreate(a) ==
    /\ rpc[a] = "create"
    /\ \/ /\ rpc' = [rpc EXCEPT ![a] = "write"]
          /\ ofd' = [ofd EXCEPT ![a] = "tmp"]
          /\ tmp' = {}
          /\ UNCHANGED fails
       \/ /\ Fails
          /\ rpc' = [rpc EXCEPT ![a] = "failed"]
          /\ UNCHANGED <<ofd, tmp>>
    /\ UNCHANGED <<input, pc, rm, writers, all, file, out, submitted, stop, met>>

\* What a file holds after new is written from its beginning.
Written(old, new) == IF old \in {{}, new} THEN {new} ELSE {new, Torn}

\* os.WriteFile: write, to whatever the open file has become meanwhile.
OutputWrite(a) ==
    /\ rpc[a] = "write"
    /\ ofd' = [ofd EXCEPT ![a] = "none"]
    /\ \/ /\ rpc' = [rpc EXCEPT ![a] = "rename"]
          /\ \/ /\ ofd[a] = "tmp"
                /\ tmp' \in Written(tmp, all[a]) /\ UNCHANGED out
             \/ /\ ofd[a] = "out"
                /\ out' \in Written(out, all[a]) /\ UNCHANGED tmp
             \/ ofd[a] = "none" /\ UNCHANGED <<tmp, out>>
          /\ UNCHANGED fails
       \/ /\ Fails
          /\ rpc' = [rpc EXCEPT ![a] = "failed"]
          /\ UNCHANGED <<tmp, out>>
    /\ UNCHANGED <<input, pc, rm, writers, all, file, submitted, stop, met>>

\* os.Rename: the output of another attempt is replaced, whoever has the .tmp
\* file open now has the output file open.
OutputRename(a) ==
    LET moved(b) == IF ofd[b] = "tmp" THEN "out" ELSE "none"
    IN  /\ rpc[a] = "rename" /\ tmp # Absent
        /\ out' = tmp /\ tmp' = Absent
        /\ ofd' = [b \in Attempts |-> moved(b)]
        /\ rpc' = [rpc EXCEPT ![a] = "done"]
        /\ UNCHANGED <<input, pc, rm, writers, all, file, submitted, stop, met, fails>>

\* os.Rename fails: another attempt has renamed or removed the .tmp file, or
\* for a reason of its own.
OutputLost(a) ==
    /\ rpc[a] = "rename"
    /\ \/ tmp = Absent /\ UNCHANGED fails
       \/ tmp # Absent /\ Fails
    /\ rpc' = [rpc EXCEPT ![a] = "discard"]
    /\ UNCHANGED <<input, pc, rm, writers, all, ofd, files, submitted, stop, met>>

\* os.Remove of the .tmp file after a failed rename.
OutputDiscard(a) ==
    LET unlinked(b) == IF ofd[b] = "tmp" THEN "none" ELSE ofd[b]
    IN  /\ rpc[a] = "discard"
        /\ tmp' = Absent
        /\ ofd' = [b \in Attempts |-> unlinked(b)]
        /\ rpc' = [rpc EXCEPT ![a] = "failed"]
        /\ UNCHANGED <<input, pc, rm, writers, all, file, out, submitted, stop, met, fails>>

(* ------------------------------------------------------------------------ *)

\* runMapReducePipeline: wait for the writers and the reducer; any error ends
\* the attempt without the second cleanup.
Join(a) ==
    LET good == rpc[a] = "done" /\ \A p \in Partition : wpc[a][p] = "sent"
    IN  /\ pc[a] = "pipeline"
        /\ \A p \in Partition : Finished(a, p)
        /\ rpc[a] \in {"done", "failed"}
        /\ pc' = [pc EXCEPT ![a] = IF good THEN "cleanAgain" ELSE "ended"]
        /\ UNCHANGED <<input, rm, writers, reducer, files, submitted, stop, met, fails>>

\* submitResultToMaster: the master has the result, or cannot be reached.
Submit(a) ==
    /\ pc[a] = "submit"
    /\ pc' = [pc EXCEPT ![a] = "ended"]
    /\ \/ submitted' = [submitted EXCEPT ![a] = all[a]] /\ UNCHANGED fails
       \/ Fails /\ UNCHANGED submitted
    /\ UNCHANGED <<input, rm, writers, reducer, files, stop, met>>

\* Worker.Close: close stopCh, close the listener and wait for its connections,
\* then wait for the attempts.
CloseStop ==
    /\ stop = "running"
    /\ stop' = "stopping"
    /\ UNCHANGED <<input, pc, rm, writers, reducer, files, submitted, met, fails>>

CloseListener ==
    /\ stop = "stopping"
    /\ stop' = "waiting"
    /\ UNCHANGED <<input, pc, rm, writers, reducer, files, submitted, met, fails>>

CloseReturns ==
    /\ stop = "waiting" /\ \A a \in Attempts : ~Active(a)
    /\ stop' = "closed"
    /\ UNCHANGED <<input, pc, rm, writers, reducer, files, submitted, met, fails>>

Main(a) == \/ Glob(a) \/ (\E p \in Partition : Remove(a, p)) \/ Read(a) \/ Join(a) \/ Submit(a)
Write(a, p) == Create(a, p) \/ Encode(a, p) \/ Send(a, p)
Reduce(a) == \/ (\E p \in Partition : RangeNext(a, p)) \/ RangeEnd(a)
             \/ OutputCreate(a) \/ OutputWrite(a) \/ OutputRename(a) \/ OutputLost(a)
             \/ OutputDiscard(a)
Close == CloseListener \/ CloseReturns

Next == \/ CloseStop \/ Close
        \/ \E a \in Attempts : \/ Accept(a) \/ Main(a) \/ Reduce(a)
                               \/ \E p \in Partition : Write(a, p)

Spec == Init /\ [][Next]_vars

\* The goroutines that have been started run, and so does Close once called;
\* system calls and the RPC to the master return.
FairSpec == /\ Spec
            /\ WF_vars(Close)
            /\ \A a \in Attempts : /\ WF_vars(Main(a)) /\ WF_vars(Reduce(a))
                                   /\ \A p \in Partition : WF_vars(Write(a, p))

(* ------------------------------ Properties ------------------------------ *)

\* Type invariant.
TypeOK ==
    /\ length \in Lengths /\ source \in SourcesOf(length)
    /\ chunk.offset \in Nat /\ chunk.size \in Nat
    /\ pc \in [Attempts -> {"none", "clean", "remove", "read", "pipeline", "cleanAgain",
                            "removeAgain", "submit", "ended"}]
    /\ rm \in [Attempts -> SUBSET Partition] /\ linked \in [Attempts -> SUBSET Partition]
    /\ ch \in [Attempts -> SUBSET Partition]
    /\ wpc \in [Attempts -> [Partition -> {"none", "create", "encode", "sent", "failed"}]]
    /\ enc \in [Attempts -> [Partition -> SUBSET Data]]
    /\ \A a \in Attempts : \A p \in Partition : enc[a][p] \subseteq Bucket(p)
    /\ rpc \in [Attempts -> {"none", "range", "create", "write", "rename", "discard",
                             "done", "failed"}]
    /\ ofd \in [Attempts -> {"none", "tmp", "out"}]
    /\ all \in [Attempts -> SUBSET Data]
    /\ submitted \in [Attempts -> (SUBSET Data) \cup {NotSent}]
    /\ file \in [Partition -> (SUBSET Data) \cup {Absent}]
    /\ \A p \in Partition : file[p] = Absent \/ file[p] \subseteq Bucket(p)
    /\ {tmp, out} \subseteq (SUBSET Data) \cup {Absent, Torn}
    /\ stop \in {"running", "stopping", "waiting", "closed"}
    /\ met \subseteq Attempts /\ fails \in 0 .. MaxFails

\* The chunks of a job tile the file that it reads: every byte of that file is
\* read for exactly one chunk, and nothing else is read.  The file is the
\* content, or, when GetFile has not found it or found it empty, the metadata
\* file alone: then no byte of the content is in the result.
ChunksTile ==
    \A n \in {0, DfsChunks(length)} :
       /\ \A b \in FileBytes(source, length) :
             Cardinality({c \in ChunksOf(source, length, n) :
                             b \in BytesOf(source, length, c)}) = 1
       /\ \A c \in ChunksOf(source, length, n) :
             BytesOf(source, length, c) \subseteq FileBytes(source, length)

Submitted(a) == submitted[a] # NotSent

\* What an attempt submits was computed from every pair of the chunk, unless
\* another attempt at the chunk ran at the same time: what earlier attempts
\* left behind, and failures of this one, never show in a submitted result.
SubmittedWhole == \A a \in Attempts : Submitted(a) /\ a \notin met => submitted[a] = Data

\* Once a result has been submitted its output file is there, with that very
\* result, and stays so while later attempts write it again; unless a partition
\* writer failed, which the reducer of that attempt is not told: it reduces
\* the other partitions and replaces the output before the attempt is given up.
OutputKept ==
    \A a \in Attempts : Submitted(a) /\ met = {} =>
       \/ out = submitted[a]
       \/ /\ out \subseteq submitted[a]
          /\ \E b \in Attempts \ {a}, p \in Partition : wpc[b][p] = "failed"

\* After Close has returned no attempt is running.
ClosedQuiet == stop = "closed" => \A a \in Attempts : ~Active(a)

\* Close returns: every attempt that was accepted ends, also one whose reducer
\* gave up while its writers were still sending.
CloseDrains == stop = "stopping" ~> stop = "closed"
===============================================================================
