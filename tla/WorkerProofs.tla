----------------------------- MODULE WorkerProofs ------------------------------
(***************************************************************************)
(* Proofs about Worker: type correctness, that the chunks of a file tile   *)
(* it, that Close leaves nothing running, and what a submitted result and  *)
(* the output file hold.                                                   *)
(***************************************************************************)
EXTENDS Worker, FiniteSetTheorems, TLAPS

\* A file that a writer has open under its name is there.
LinkInv == \A a \in Attempts : \A p \in linked[a] : file[p] # Absent

TypeInv == TypeOK /\ LinkInv

\* How far the goroutines of an attempt are when its main goroutine is at pc.
PhaseOf(a) ==
    /\ pc[a] \in {"none", "clean", "remove", "read"} =>
          /\ rpc[a] = "none" /\ ch[a] = {} /\ all[a] = {}
          /\ \A p \in Partition : wpc[a][p] = "none" /\ enc[a][p] = {}
    /\ pc[a] = "pipeline" => rpc[a] # "none" /\ \A p \in Partition : wpc[a][p] # "none"
    /\ pc[a] \in {"cleanAgain", "removeAgain", "submit"} =>
          rpc[a] = "done" /\ \A p \in Partition : wpc[a][p] = "sent"
    /\ pc[a] = "ended" =>
          /\ rpc[a] \in {"none", "done", "failed"}
          /\ \A p \in Partition : wpc[a][p] \in {"none", "sent", "failed"}
    /\ Submitted(a) => pc[a] = "ended"
    /\ \A p \in ch[a] : wpc[a][p] = "sent"
    /\ \A p \in Partition : wpc[a][p] = "create" => enc[a][p] = {}
    /\ rpc[a] \in {"create", "write", "rename", "discard", "done"} =>
          ch[a] = {} /\ \A p \in Partition : Finished(a, p)

PhaseInv == \A a \in Attempts : PhaseOf(a)

\* Two attempts that run at once are both on record.
AloneInv == \A a, b \in Attempts : a # b /\ Active(a) /\ Active(b) => a \in met

\* What an attempt that has run alone has written, read and submitted.
PairsOf(a) ==
    /\ pc[a] = "pipeline" =>
          \A p \in Partition :
             /\ wpc[a][p] = "encode" => p \in linked[a] /\ file[p] = enc[a][p]
             /\ p \in ch[a] => file[p] = Bucket(p)
             /\ wpc[a][p] = "sent" /\ p \notin ch[a] /\ rpc[a] # "failed" =>
                   Bucket(p) \subseteq all[a]
    /\ pc[a] \in {"cleanAgain", "removeAgain", "submit"} => all[a] = Data
    /\ Submitted(a) => submitted[a] = Data

PairsInv == \A a \in Attempts \ met : PairsOf(a)

\* A writer of an attempt other than a has failed.
FailedBeside(a) == \E b \in Attempts \ {a}, p \in Partition : wpc[b][p] = "failed"

\* The .tmp and the output file, as long as no two attempts have met.
OutOf(a) ==
    /\ rpc[a] = "write" => ofd[a] = "tmp" /\ tmp = {}
    /\ rpc[a] # "write" => ofd[a] = "none"
    /\ rpc[a] = "rename" => tmp = all[a]
    /\ Active(a) /\ rpc[a] = "done" => out = all[a]
    /\ Submitted(a) => out = Data \/ (out \subseteq Data /\ FailedBeside(a))

OutInv == met = {} => \A a \in Attempts : OutOf(a)

(* -------------------------- Chunks and their bytes ----------------------- *)

LEMMA DivFacts ==
  ASSUME NEW x \in Nat, NEW m \in Nat \ {0}
  PROVE  x \div m \in Nat /\ m * (x \div m) <= x /\ x < m * (x \div m) + m
OBVIOUS

LEMMA TimesUp ==
  ASSUME NEW i \in Nat, NEW j \in Nat, NEW m \in Nat
  PROVE  i * m \in Nat /\ (i < j => i * m + m <= j * m)
OBVIOUS

\* The window of a chunk of which the DFS reports at least i + 1.
LEMMA ChunkIs ==
  ASSUME NEW len \in Nat \ {0}, NEW i \in 0 .. DfsChunks(len) - 1
  PROVE  /\ DfsChunks(len) \in Nat /\ i * ChunkMax \in Nat
         /\ i * ChunkMax < len
         /\ ChunkAt(len, i).offset = i * ChunkMax
         /\ ChunkAt(len, i).size \in Nat \ {0}
         /\ \A b \in 0 .. len - 1 :
               b < i * ChunkMax + ChunkMax <=> b < i * ChunkMax + ChunkAt(len, i).size
<1> USE SizesAssumption
<1>1. ChunkMax \in Nat /\ ChunkMax > 0
  OBVIOUS
<1> DEFINE n == DfsChunks(len)
<1>2. len + ChunkMax - 1 \in Nat
  BY <1>1
<1>3. n \in Nat /\ ChunkMax * n <= len + ChunkMax - 1
  BY <1>1, <1>2, DivFacts DEF DfsChunks
<1> HIDE DEF n
<1>4. i \in Nat /\ n \in Nat /\ i < n
  BY <1>3 DEF n
<1>5. i * ChunkMax \in Nat /\ i * ChunkMax + ChunkMax <= n * ChunkMax
  BY <1>1, <1>4, TimesUp
<1>6. n * ChunkMax = ChunkMax * n
  BY <1>1, <1>4
<1>7. i * ChunkMax < len
  BY <1>1, <1>3, <1>5, <1>6
<1> DEFINE o == i * ChunkMax
<1>8. /\ ChunkAt(len, i).offset = o
      /\ ChunkAt(len, i).size = IF len - o < ChunkMax THEN len - o ELSE ChunkMax
  BY DEF ChunkAt
<1>9. o \in Nat /\ o < len
  BY <1>5, <1>7
<1> HIDE DEF o
<1>10. ChunkAt(len, i).size \in Nat \ {0}
  BY <1>1, <1>8, <1>9
<1>11. \A b \in 0 .. len - 1 : b < o + ChunkMax <=> b < o + ChunkAt(len, i).size
  BY <1>1, <1>8, <1>9
<1> QED BY <1>3, <1>8, <1>9, <1>10, <1>11 DEF n, o

LEMMA ChunksType ==
  ASSUME NEW len \in Nat, NEW src \in SourcesOf(len), NEW n \in {0, DfsChunks(len)},
         NEW c \in ChunksOf(src, len, n)
  PROVE  c.offset \in Nat /\ c.size \in Nat
<1>1. CASE src = "metadata" \/ n = 0
  BY <1>1 DEF ChunksOf
<1>2. CASE src # "metadata" /\ n # 0
  <2>1. PICK i \in 0 .. n - 1 : c = ChunkAt(len, i)
    BY <1>2 DEF ChunksOf
  <2>2. len \in Nat \ {0} /\ n = DfsChunks(len)
    BY <1>2 DEF SourcesOf
  <2> QED BY <2>1, <2>2, ChunkIs
<1> QED BY <1>1, <1>2

\* Every byte of a content file that is not empty is read for exactly one of the
\* chunks that fetchFileMetadataFromDFS makes of it, whatever its length and the
\* chunk size.
LEMMA Tiles ==
  ASSUME NEW len \in Nat \ {0}, NEW n \in {0, DfsChunks(len)}, NEW b \in 0 .. len - 1
  PROVE  Cardinality({c \in ChunksOf("content", len, n) : b \in BytesOf("content", len, c)}) = 1
<1> USE SizesAssumption
<1> DEFINE R == {c \in ChunksOf("content", len, n) : b \in BytesOf("content", len, c)}
<1>1. CASE n = 0
  <2> DEFINE c0 == [offset |-> 0, size |-> 0]
  <2>1. ChunksOf("content", len, n) = {c0}
    BY <1>1 DEF ChunksOf
  <2>2. b \in BytesOf("content", len, c0)
    BY DEF BytesOf, ReadSize
  <2>3. R = {c0}
    BY <2>1, <2>2
  <2> QED BY <2>3, FS_Singleton
<1>2. CASE n # 0
  <2>1. n = DfsChunks(len) /\ ChunkMax \in Nat /\ ChunkMax > 0 /\ n \in Nat
    <3>1. len + ChunkMax - 1 \in Nat
      OBVIOUS
    <3> QED BY <1>2, <3>1, DivFacts DEF DfsChunks
  <2>2. ChunksOf("content", len, n) = {ChunkAt(len, i) : i \in 0 .. n - 1}
    BY <1>2 DEF ChunksOf
  <2>3. ASSUME NEW i \in 0 .. n - 1
        PROVE  b \in BytesOf("content", len, ChunkAt(len, i)) <=>
                  i * ChunkMax <= b /\ b < i * ChunkMax + ChunkMax
    <3> DEFINE c == ChunkAt(len, i)
    <3>1. /\ i * ChunkMax \in Nat /\ c.offset = i * ChunkMax /\ c.size \in Nat \ {0}
          /\ b < i * ChunkMax + ChunkMax <=> b < i * ChunkMax + c.size
      BY <2>1, ChunkIs
    <3>2. ReadSize(len, c) = c.size
      BY <3>1 DEF ReadSize
    <3> HIDE DEF c
    <3>3. b \in BytesOf("content", len, c) <=> c.offset <= b /\ b < c.offset + ReadSize(len, c)
      BY DEF BytesOf
    <3>4. b \in BytesOf("content", len, c) <=> i * ChunkMax <= b /\ b < i * ChunkMax + ChunkMax
      BY <3>1, <3>2, <3>3
    <3> QED BY <3>4 DEF c
  <2> DEFINE q == b \div ChunkMax
  <2>4. q \in Nat /\ ChunkMax * q <= b /\ b < ChunkMax * q + ChunkMax
    BY <2>1, DivFacts
  <2> HIDE DEF q
  <2>5. q * ChunkMax \in Nat /\ q * ChunkMax <= b /\ b < q * ChunkMax + ChunkMax
    <3>1. q * ChunkMax = ChunkMax * q /\ q * ChunkMax \in Nat
      BY <2>1, <2>4
    <3> QED BY <2>4, <3>1
  <2>6. q \in 0 .. n - 1
    <3>1. len + ChunkMax - 1 \in Nat /\ len + ChunkMax - 1 < ChunkMax * n + ChunkMax
      <4>1. len + ChunkMax - 1 \in Nat
        BY <2>1
      <4> QED BY <2>1, <4>1, DivFacts DEF DfsChunks
    <3>2. ChunkMax * n = n * ChunkMax /\ n * ChunkMax \in Nat
      BY <2>1
    <3>3. q * ChunkMax < n * ChunkMax
      <4>1. len <= n * ChunkMax
        BY <2>1, <3>1, <3>2
      <4>2. b < len
        OBVIOUS
      <4> QED BY <2>5, <3>2, <4>1, <4>2
    <3>4. ~(n <= q)
      <4>1. n < q => n * ChunkMax + ChunkMax <= q * ChunkMax
        BY <2>1, <2>4, TimesUp
      <4>2. n = q => n * ChunkMax = q * ChunkMax
        OBVIOUS
      <4> QED BY <2>1, <2>4, <2>5, <3>2, <3>3, <4>1, <4>2
    <3> QED BY <2>1, <2>4, <3>4
  <2>7. ASSUME NEW i \in 0 .. n - 1, i * ChunkMax <= b, b < i * ChunkMax + ChunkMax
        PROVE  i = q
    <3>1. i \in Nat /\ i * ChunkMax \in Nat
      BY <2>1, TimesUp
    <3>2. i < q => i * ChunkMax + ChunkMax <= q * ChunkMax
      BY <2>1, <2>4, <3>1, TimesUp
    <3>3. q < i => q * ChunkMax + ChunkMax <= i * ChunkMax
      BY <2>1, <2>4, <3>1, TimesUp
    <3> QED BY <2>1, <2>4, <2>5, <2>7, <3>1, <3>2, <3>3
  <2>8. R = {ChunkAt(len, q)}
    <3>1. ChunkAt(len, q) \in R
      BY <2>2, <2>3, <2>5, <2>6
    <3>2. ASSUME NEW c \in R PROVE c = ChunkAt(len, q)
      <4>1. PICK i \in 0 .. n - 1 : c = ChunkAt(len, i)
        BY <2>2
      <4> QED BY <2>3, <2>7, <4>1
    <3> QED BY <3>1, <3>2
  <2> QED BY <2>8, FS_Singleton
<1> QED BY <1>1, <1>2

LEMMA DataIs ==
  ASSUME NEW src, NEW len \in Nat, NEW c
  PROVE  \A b \in BytesOf(src, len, c) : b \in Int /\ b # -1
BY DEF BytesOf, MetadataByte

\* The pairs of the chunk are split into partitions.
LEMMA Buckets ==
  ASSUME length \in Nat
  PROVE  /\ \A p \in Partition : Bucket(p) \subseteq Data
         /\ \A b \in Data : \E p \in Partition : b \in Bucket(p)
         /\ \A b \in Data : b # -1
<1>1. \A b \in Data : b \in Int /\ b # -1
  BY DataIs DEF Data
<1>2. \A b \in Int : b % NReduce \in 0 .. NReduce - 1
  BY SizesAssumption
<1>3. \A b \in Data : b % NReduce \in Partition
  BY <1>1, <1>2 DEF Partition
<1> QED BY <1>1, <1>3 DEF Bucket

(* -------------------------------- Typing -------------------------------- *)

\* Where a partition writer, and an attempt's main goroutine, can be.
WriterPC == {"none", "create", "encode", "sent", "failed"}
MainPC == {"none", "clean", "remove", "read", "pipeline", "cleanAgain", "removeAgain", "submit",
           "ended"}

\* An update of one entry of a table.
LEMMA NestedUpdate ==
  ASSUME NEW S, NEW T, NEW V, NEW f \in [S -> [T -> V]], NEW a \in S, NEW p \in T, NEW v \in V
  PROVE  /\ [f EXCEPT ![a][p] = v] \in [S -> [T -> V]]
         /\ \A b \in S, q \in T :
               [f EXCEPT ![a][p] = v][b][q] = IF b = a /\ q = p THEN v ELSE f[b][q]
OBVIOUS

LEMMA TypeInit == Init => TypeInv
<1> SUFFICES ASSUME Init PROVE TypeInv
  OBVIOUS
<1>1. length \in Nat /\ chunk.offset \in Nat /\ chunk.size \in Nat
  <2>1. length \in Nat /\ source \in SourcesOf(length)
    BY SizesAssumption DEF Init
  <2>2. PICK n \in {0, DfsChunks(length)} : chunk \in ChunksOf(source, length, n)
    BY DEF Init
  <2> QED BY <2>1, <2>2, ChunksType
<1>2. /\ enc \in [Attempts -> [Partition -> SUBSET Data]] /\ all \in [Attempts -> SUBSET Data]
      /\ \A a \in Attempts : \A p \in Partition : enc[a][p] \subseteq Bucket(p)
      /\ submitted \in [Attempts -> (SUBSET Data) \cup {NotSent}]
  BY DEF Init
<1>3. /\ file \in [Partition -> (SUBSET Data) \cup {Absent}]
      /\ \A p \in Partition : file[p] = Absent \/ file[p] \subseteq Bucket(p)
      /\ {tmp, out} \subseteq (SUBSET Data) \cup {Absent, Torn}
  BY DEF Init
<1>4. fails \in 0 .. MaxFails
  BY BoundsAssumption DEF Init
<1>5. wpc \in [Attempts -> [Partition -> WriterPC]]
  BY DEF Init, WriterPC
<1>6. TypeOK
  BY <1>1, <1>2, <1>3, <1>4, <1>5 DEF Init, TypeOK, WriterPC
<1>7. LinkInv
  BY DEF Init, LinkInv
<1> QED BY <1>6, <1>7 DEF TypeInv

\* The file and the chunk are the same throughout, so its pairs are too.
LEMMA InputKept ==
  ASSUME [Next]_vars
  PROVE  UNCHANGED input /\ Data' = Data /\ \A p : Bucket(p)' = Bucket(p)
<1>1. UNCHANGED input
  <2> USE DEF input
  <2>1. CASE UNCHANGED vars
    BY <2>1 DEF vars
  <2>2. CASE CloseStop \/ Close
    BY <2>2 DEF CloseStop, Close, CloseListener, CloseReturns
  <2>3. ASSUME NEW a \in Attempts, Accept(a) \/ Main(a) PROVE UNCHANGED input
    BY <2>3 DEF Accept, Main, Glob, Remove, Read, Join, Submit
  <2>4. ASSUME NEW a \in Attempts, Reduce(a) PROVE UNCHANGED input
    BY <2>4 DEF Reduce, RangeNext, RangeEnd, OutputCreate, OutputWrite, OutputRename,
                OutputLost, OutputDiscard
  <2>5. ASSUME NEW a \in Attempts, NEW p \in Partition, Write(a, p)
        PROVE  UNCHANGED input
    BY <2>5 DEF Write, Create, Encode, Send
  <2> QED BY <2>1, <2>2, <2>3, <2>4, <2>5 DEF Next
<1>2. Data' = Data
  BY <1>1 DEF Data, input
<1> QED BY <1>1, <1>2 DEF Bucket

LEMMA TypeStep == TypeInv /\ [Next]_vars => TypeInv'
<1> SUFFICES ASSUME TypeInv, [Next]_vars PROVE TypeInv'
  OBVIOUS
<1>a. UNCHANGED input /\ Data' = Data /\ \A p : Bucket(p)' = Bucket(p)
  BY InputKept
<1>t. wpc \in [Attempts -> [Partition -> WriterPC]] /\ pc \in [Attempts -> MainPC]
  BY DEF TypeInv, TypeOK, WriterPC, MainPC
<1>b. \A p \in Partition : Bucket(p) \subseteq Data /\ \A b \in Bucket(p) : b # -1
  <2>1. length \in Nat
    BY SizesAssumption DEF TypeInv, TypeOK
  <2> QED BY <2>1, Buckets
<1>c. MaxFails \in Nat
  BY BoundsAssumption
<1> USE DEF TypeInv, input, writers, reducer, files
<1>d. ASSUME UNCHANGED <<enc, all, submitted, file, tmp, out, linked>>,
             pc' \in [Attempts -> MainPC],
             rm' \in [Attempts -> SUBSET Partition], ch' \in [Attempts -> SUBSET Partition],
             wpc' \in [Attempts -> [Partition -> WriterPC]],
             rpc' \in [Attempts -> {"none", "range", "create", "write", "rename", "discard",
                                    "done", "failed"}],
             ofd' \in [Attempts -> {"none", "tmp", "out"}],
             stop' \in {"running", "stopping", "waiting", "closed"},
             met' \subseteq Attempts, fails' \in 0 .. MaxFails
      PROVE  TypeInv'
  <2>1. TypeOK'
    BY <1>a, <1>d DEF TypeOK, WriterPC, MainPC
  <2>2. LinkInv'
    BY <1>d DEF LinkInv
  <2> QED BY <2>1, <2>2
<1>e. fails \in 0 .. MaxFails /\ (Fails => fails' \in 0 .. MaxFails)
  BY <1>c DEF Fails, TypeOK
<1>1. CASE UNCHANGED vars
  BY <1>1, <1>d, <1>t DEF vars, TypeOK
<1>2. CASE CloseStop \/ Close
  BY <1>2, <1>d, <1>t DEF CloseStop, Close, CloseListener, CloseReturns, TypeOK
<1>3. ASSUME NEW a \in Attempts, Accept(a) PROVE TypeInv'
  <2>1. met' \subseteq Attempts
    BY <1>3 DEF Accept, TypeOK
  <2>2. pc' \in [Attempts -> MainPC]
    BY <1>3, <1>t DEF Accept, MainPC
  <2> QED BY <1>3, <1>d, <1>t, <2>1, <2>2 DEF Accept, TypeOK
<1>4. ASSUME NEW a \in Attempts, Glob(a) PROVE TypeInv'
  <2>1. /\ rm' \in [Attempts -> SUBSET Partition]
        /\ \E v \in {"read", "submit", "remove", "removeAgain"} : pc' = [pc EXCEPT ![a] = v]
    BY <1>4 DEF Glob, AfterCleanup, TypeOK
  <2>2. pc' \in [Attempts -> MainPC]
    BY <1>t, <2>1 DEF MainPC
  <2> QED BY <1>4, <1>d, <1>t, <2>1, <2>2 DEF Glob, TypeOK
<1>5. ASSUME NEW a \in Attempts, NEW p \in Partition, Remove(a, p) PROVE TypeInv'
  <2>1. rm' \in [Attempts -> SUBSET Partition]
    BY <1>5 DEF Remove, TypeOK
  <2>2. pc' \in [Attempts -> MainPC]
    BY <1>5, <1>t DEF Remove, AfterCleanup, MainPC
  <2>3. fails' \in 0 .. MaxFails
    BY <1>5, <1>e DEF Remove
  <2>4. /\ file' \in [Partition -> (SUBSET Data) \cup {Absent}]
        /\ linked' \in [Attempts -> SUBSET Partition]
        /\ \A q \in Partition : file'[q] = Absent \/ file'[q] \subseteq Bucket(q)
        /\ \A b \in Attempts : \A q \in linked'[b] : file'[q] # Absent
    <3>1. CASE UNCHANGED <<file, linked>>
      BY <3>1 DEF TypeOK, LinkInv
    <3>2. CASE /\ file' = [file EXCEPT ![p] = Absent]
               /\ linked' = [b \in Attempts |-> linked[b] \ {p}]
      <4>1. /\ file' \in [Partition -> (SUBSET Data) \cup {Absent}]
            /\ \A q \in Partition : file'[q] = IF q = p THEN Absent ELSE file[q]
        BY <3>2 DEF TypeOK
      <4>2. /\ linked' \in [Attempts -> SUBSET Partition]
            /\ \A b \in Attempts : linked'[b] = linked[b] \ {p}
        BY <3>2 DEF TypeOK
      <4>3. \A q \in Partition : file'[q] = Absent \/ file'[q] \subseteq Bucket(q)
        BY <4>1 DEF TypeOK
      <4>4. \A b \in Attempts : \A q \in linked'[b] : file'[q] # Absent
        BY <4>1, <4>2 DEF TypeOK, LinkInv
      <4> QED BY <4>1, <4>2, <4>3, <4>4
    <3> QED BY <1>5, <3>1, <3>2 DEF Remove
  <2>5. TypeOK'
    BY <1>5, <1>a, <2>1, <2>2, <2>3, <2>4 DEF Remove, TypeOK, MainPC
  <2>6. LinkInv'
    BY <2>4 DEF LinkInv
  <2> QED BY <2>5, <2>6
<1>6. ASSUME NEW a \in Attempts, Read(a) PROVE TypeInv'
  <2>1. /\ \E v \in {"pipeline", "ended"} : pc' = [pc EXCEPT ![a] = v]
        /\ \/ rpc' = rpc /\ wpc' = wpc
           \/ /\ rpc' = [rpc EXCEPT ![a] = "range"]
              /\ wpc' = [wpc EXCEPT ![a] = [p \in Partition |-> "create"]]
    BY <1>6 DEF Read
  <2>4. wpc' \in [Attempts -> [Partition -> WriterPC]]
    <3>1. [p \in Partition |-> "create"] \in [Partition -> WriterPC]
      BY DEF WriterPC
    <3> QED BY <1>t, <2>1, <3>1
  <2>5. pc' \in [Attempts -> MainPC]
    BY <1>t, <2>1 DEF MainPC
  <2>6. rpc' \in [Attempts -> {"none", "range", "create", "write", "rename", "discard",
                               "done", "failed"}]
    BY <2>1 DEF TypeOK
  <2>2. fails' \in 0 .. MaxFails
    BY <1>6, <1>e DEF Read
  <2>3. UNCHANGED <<rm, enc, linked, ch, all, ofd, file, tmp, out, submitted, stop, met>>
    BY <1>6 DEF Read
  <2> QED BY <1>d, <2>2, <2>3, <2>4, <2>5, <2>6 DEF TypeOK
<1>7. ASSUME NEW a \in Attempts, Join(a) PROVE TypeInv'
  <2>1. pc' \in [Attempts -> MainPC]
    BY <1>7, <1>t DEF Join, MainPC
  <2> QED BY <1>7, <1>d, <1>t, <2>1 DEF Join, TypeOK
<1>8. ASSUME NEW a \in Attempts, Submit(a) PROVE TypeInv'
  <2>1. fails' \in 0 .. MaxFails
    BY <1>8, <1>e DEF Submit
  <2>2. submitted' \in [Attempts -> (SUBSET Data) \cup {NotSent}]
    BY <1>8 DEF Submit, TypeOK
  <2>3. TypeOK'
    BY <1>8, <1>a, <2>1, <2>2 DEF Submit, TypeOK
  <2>4. LinkInv'
    BY <1>8 DEF Submit, LinkInv
  <2> QED BY <2>3, <2>4
<1>9. ASSUME NEW a \in Attempts, NEW p \in Partition, Create(a, p) PROVE TypeInv'
  <2>1. wpc' \in [Attempts -> [Partition -> WriterPC]]
    <3>1. \E v \in WriterPC : wpc' = [wpc EXCEPT ![a][p] = v]
      BY <1>9 DEF Create, WriterPC
    <3> QED BY <1>t, <3>1, NestedUpdate
  <2>2. fails' \in 0 .. MaxFails
    BY <1>9, <1>e DEF Create
  <2>3. /\ file' \in [Partition -> (SUBSET Data) \cup {Absent}]
        /\ linked' \in [Attempts -> SUBSET Partition]
        /\ \A q \in Partition : file'[q] = Absent \/ file'[q] \subseteq Bucket(q)
        /\ \A b \in Attempts : \A q \in linked'[b] : file'[q] # Absent
    <3>1. CASE UNCHANGED <<file, linked>>
      BY <3>1 DEF TypeOK, LinkInv
    <3>2. CASE /\ file' = [file EXCEPT ![p] = {}]
               /\ linked' = [linked EXCEPT ![a] = @ \cup {p}]
      <4>1. {} # Absent
        BY DEF Absent
      <4> QED BY <3>2, <4>1 DEF TypeOK, LinkInv
    <3> QED BY <1>9, <3>1, <3>2 DEF Create
  <2>4. TypeOK'
    BY <1>9, <1>a, <2>1, <2>2, <2>3 DEF Create, TypeOK, WriterPC
  <2>5. LinkInv'
    BY <2>3 DEF LinkInv
  <2> QED BY <2>4, <2>5
<1>10. ASSUME NEW a \in Attempts, NEW p \in Partition, Encode(a, p) PROVE TypeInv'
  <2>1. PICK b \in Bucket(p) \ enc[a][p] :
           \/ /\ enc' = [enc EXCEPT ![a][p] = @ \cup {b}]
              /\ file' = [file EXCEPT ![p] = IF p \in linked[a] THEN @ \cup {b} ELSE @]
              /\ UNCHANGED <<wpc, linked, fails>>
           \/ /\ Fails
              /\ wpc' = [wpc EXCEPT ![a][p] = "failed"]
              /\ linked' = [linked EXCEPT ![a] = @ \ {p}]
              /\ UNCHANGED <<enc, file>>
    BY <1>10 DEF Encode
  <2>2. b \in Data /\ b # -1 /\ Bucket(p) \subseteq Data
    BY <1>b, <2>1
  <2>3. wpc' \in [Attempts -> [Partition -> WriterPC]]
    <3>1. wpc' = wpc \/ wpc' = [wpc EXCEPT ![a][p] = "failed"]
      BY <2>1
    <3>2. "failed" \in WriterPC
      BY DEF WriterPC
    <3>3. [wpc EXCEPT ![a][p] = "failed"] \in [Attempts -> [Partition -> WriterPC]]
      BY <1>t, <3>2, NestedUpdate
    <3> QED BY <1>t, <3>1, <3>3
  <2>4. fails' \in 0 .. MaxFails
    BY <1>e, <2>1
  <2>5. /\ enc' \in [Attempts -> [Partition -> SUBSET Data]]
        /\ \A c \in Attempts : \A q \in Partition : enc'[c][q] \subseteq Bucket(q)
    <3>1. CASE enc' = enc
      BY <3>1 DEF TypeOK
    <3>2. CASE enc' = [enc EXCEPT ![a][p] = @ \cup {b}]
      <4>1. enc[a][p] \cup {b} \subseteq Data /\ enc[a][p] \cup {b} \subseteq Bucket(p)
        BY <2>1, <2>2 DEF TypeOK
      <4> QED BY <3>2, <4>1 DEF TypeOK
    <3> QED BY <2>1, <3>1, <3>2
  <2>6. /\ linked' \in [Attempts -> SUBSET Partition]
        /\ \A c \in Attempts : linked'[c] \subseteq linked[c]
    <3>1. linked' = linked \/ linked' = [linked EXCEPT ![a] = @ \ {p}]
      BY <2>1
    <3>2. linked \in [Attempts -> SUBSET Partition] /\ linked[a] \ {p} \in SUBSET Partition
      BY DEF TypeOK
    <3> QED BY <3>1, <3>2
  <2>7. /\ file' \in [Partition -> (SUBSET Data) \cup {Absent}]
        /\ \A q \in Partition : file'[q] = Absent \/ file'[q] \subseteq Bucket(q)
        /\ \A q \in Partition : file[q] # Absent => file'[q] # Absent
    <3>1. CASE file' = file
      BY <3>1 DEF TypeOK
    <3>2. CASE file' = [file EXCEPT ![p] = @ \cup {b}] /\ p \in linked[a]
      <4>1. file[p] # Absent
        BY <3>2 DEF LinkInv
      <4>2. file[p] \cup {b} \subseteq Bucket(p)
        BY <2>1, <4>1 DEF TypeOK
      <4>3. file[p] \cup {b} \subseteq Data /\ file[p] \cup {b} # Absent
        BY <2>2, <4>2 DEF Absent
      <4> QED BY <3>2, <4>2, <4>3 DEF TypeOK
    <3>3. file' = file \/ (file' = [file EXCEPT ![p] = @ \cup {b}] /\ p \in linked[a])
      BY <2>1 DEF TypeOK
    <3> QED BY <3>1, <3>2, <3>3
  <2>8. TypeOK'
    BY <1>10, <1>a, <2>3, <2>4, <2>5, <2>6, <2>7 DEF Encode, TypeOK, WriterPC
  <2>9. LinkInv'
    BY <2>6, <2>7 DEF LinkInv, TypeOK
  <2> QED BY <2>8, <2>9
<1>11. ASSUME NEW a \in Attempts, NEW p \in Partition, Send(a, p) PROVE TypeInv'
  <2>1. wpc' \in [Attempts -> [Partition -> WriterPC]]
    <3>1. "sent" \in WriterPC /\ wpc' = [wpc EXCEPT ![a][p] = "sent"]
      BY <1>11 DEF Send, WriterPC
    <3> QED BY <1>t, <3>1, NestedUpdate
  <2>2. /\ ch' \in [Attempts -> SUBSET Partition] /\ linked' \in [Attempts -> SUBSET Partition]
        /\ \A c \in Attempts : linked'[c] \subseteq linked[c]
    BY <1>11 DEF Send, TypeOK
  <2>3. TypeOK'
    BY <1>11, <1>a, <2>1, <2>2 DEF Send, TypeOK, WriterPC
  <2>4. LinkInv'
    BY <1>11, <2>2 DEF Send, LinkInv
  <2> QED BY <2>3, <2>4
<1>12. ASSUME NEW a \in Attempts, NEW p \in Partition, RangeNext(a, p) PROVE TypeInv'
  <2>1. /\ ch' \in [Attempts -> SUBSET Partition]
        /\ rpc' = rpc \/ rpc' = [rpc EXCEPT ![a] = "failed"]
    BY <1>12 DEF RangeNext, TypeOK
  <2>2. fails' \in 0 .. MaxFails
    BY <1>12, <1>e DEF RangeNext
  <2>3. all' \in [Attempts -> SUBSET Data]
    <3>1. CASE all' = all
      BY <3>1 DEF TypeOK
    <3>2. CASE all' = [all EXCEPT ![a] = @ \cup file[p]] /\ file[p] # Absent
      <4>1. file[p] \subseteq Data
        BY <1>b, <3>2 DEF TypeOK
      <4> QED BY <3>2, <4>1 DEF TypeOK
    <3> QED BY <1>12, <3>1, <3>2 DEF RangeNext
  <2>4. TypeOK'
    BY <1>12, <1>a, <2>1, <2>2, <2>3 DEF RangeNext, TypeOK
  <2>5. LinkInv'
    BY <1>12 DEF RangeNext, LinkInv
  <2> QED BY <2>4, <2>5
<1>13. ASSUME NEW a \in Attempts, RangeEnd(a) \/ OutputLost(a) PROVE TypeInv'
  <2>1. \E v \in {"create", "discard"} : rpc' = [rpc EXCEPT ![a] = v]
    BY <1>13 DEF RangeEnd, OutputLost
  <2>2. fails' \in 0 .. MaxFails
    BY <1>13, <1>e DEF RangeEnd, OutputLost
  <2> QED BY <1>13, <1>d, <1>t, <2>1, <2>2 DEF RangeEnd, OutputLost, TypeOK
<1>14. ASSUME NEW a \in Attempts,
              OutputCreate(a) \/ OutputWrite(a) \/ OutputRename(a) \/ OutputDiscard(a)
       PROVE  TypeInv'
  <2>1. \E v \in {"write", "rename", "done", "failed"} : rpc' = [rpc EXCEPT ![a] = v]
    BY <1>14 DEF OutputCreate, OutputWrite, OutputRename, OutputDiscard
  <2>2. fails' \in 0 .. MaxFails
    BY <1>14, <1>e DEF OutputCreate, OutputWrite, OutputRename, OutputDiscard
  <2>3. ofd' \in [Attempts -> {"none", "tmp", "out"}]
    <3>1. CASE OutputCreate(a) \/ OutputWrite(a)
      BY <3>1 DEF OutputCreate, OutputWrite, TypeOK
    <3>2. CASE OutputRename(a)
      BY <3>2 DEF OutputRename
    <3>3. CASE OutputDiscard(a)
      <4>1. \A b \in Attempts : ofd[b] \in {"none", "tmp", "out"}
        BY DEF TypeOK
      <4> QED BY <3>3, <4>1 DEF OutputDiscard
    <3> QED BY <1>14, <3>1, <3>2, <3>3
  <2>4. {tmp', out'} \subseteq (SUBSET Data) \cup {Absent, Torn}
    <3> DEFINE Content == (SUBSET Data) \cup {Absent, Torn}
    <3>1. {} \in Content /\ all[a] \in Content /\ Torn \in Content /\ Absent \in Content
      BY DEF TypeOK
    <3>2. tmp \in Content /\ out \in Content
      BY DEF TypeOK
    <3> HIDE DEF Content
    <3>3. \A old : Written(old, all[a]) \subseteq Content
      BY <3>1 DEF Written
    <3>4. tmp' \in Content /\ out' \in Content
      BY <1>14, <3>1, <3>2, <3>3 DEF OutputCreate, OutputWrite, OutputRename, OutputDiscard
    <3> QED BY <3>4 DEF Content
  <2>5. UNCHANGED <<pc, rm, wpc, enc, linked, ch, all, file, submitted, stop, met>>
    BY <1>14 DEF OutputCreate, OutputWrite, OutputRename, OutputDiscard
  <2>8. rpc' \in [Attempts -> {"none", "range", "create", "write", "rename", "discard",
                               "done", "failed"}]
    BY <2>1 DEF TypeOK
  <2>6. TypeOK'
    BY <1>a, <2>2, <2>3, <2>4, <2>5, <2>8 DEF TypeOK
  <2>7. LinkInv'
    BY <2>5 DEF LinkInv
  <2> QED BY <2>6, <2>7
<1> QED BY <1>1, <1>2, <1>3, <1>4, <1>5, <1>6, <1>7, <1>8, <1>9, <1>10, <1>11, <1>12, <1>13,
           <1>14
        DEF Next, Main, Write, Reduce

LEMMA TypeInvariant == Spec => []TypeInv
BY TypeInit, TypeStep, PTL DEF Spec

\* Every variable keeps its type, for any number of attempts and partitions:
\* no pair reaches a partition's file, the reducer or a result that is not one
\* of the chunk.
THEOREM TypeCorrect == Spec => []TypeOK
<1>1. TypeInv => TypeOK
  BY DEF TypeInv
<1> QED BY <1>1, TypeInvariant, PTL

\* The chunks of a job tile the file that it reads, the content file or, when
\* GetFile does not give the content, the metadata file: for every length and
\* every chunk size each byte of that file is read for exactly one chunk, and no
\* byte of another file is.
THEOREM ChunksTiled == Spec => []ChunksTile
<1>1. TypeInv => ChunksTile
  <2> SUFFICES ASSUME TypeInv, NEW n \in {0, DfsChunks(length)}
               PROVE  /\ \A b \in FileBytes(source, length) :
                            Cardinality({c \in ChunksOf(source, length, n) :
                                            b \in BytesOf(source, length, c)}) = 1
                      /\ \A c \in ChunksOf(source, length, n) :
                            BytesOf(source, length, c) \subseteq FileBytes(source, length)
    BY DEF ChunksTile
  <2>1. /\ length \in Nat
        /\ source = "metadata" \/ (source = "content" /\ length # 0)
    BY SizesAssumption DEF TypeInv, TypeOK, SourcesOf
  <2>2. CASE source = "metadata"
    <3> DEFINE whole == [offset |-> 0, size |-> 1]
    <3>1. ChunksOf(source, length, n) = {whole}
      BY <2>2 DEF ChunksOf
    <3>2. \A c : BytesOf(source, length, c) = FileBytes(source, length)
      BY <2>2 DEF BytesOf, FileBytes
    <3>3. ASSUME NEW b \in FileBytes(source, length)
          PROVE  {c \in ChunksOf(source, length, n) : b \in BytesOf(source, length, c)} = {whole}
      BY <3>1, <3>2
    <3> QED BY <3>2, <3>3, FS_Singleton
  <2>3. CASE source = "content" /\ length # 0
    <3>1. \A b \in 0 .. length - 1 :
             Cardinality({c \in ChunksOf("content", length, n) :
                             b \in BytesOf("content", length, c)}) = 1
      BY <2>1, <2>3, Tiles
    <3>2. \A c : BytesOf("content", length, c) \subseteq 0 .. length - 1
      BY DEF BytesOf
    <3> QED BY <2>3, <3>1, <3>2 DEF FileBytes
  <2> QED BY <2>1, <2>2, <2>3
<1> QED BY <1>1, TypeInvariant, PTL

(* ------------------------------ Close joins ------------------------------ *)

\* Worker.Close returns only when every attempt has ended, and nothing starts
\* one afterwards.
THEOREM CloseIsQuiet == Spec => []ClosedQuiet
<1>1. Init => ClosedQuiet
  BY DEF Init, ClosedQuiet
<1>2. TypeInv /\ ClosedQuiet /\ [Next]_vars => ClosedQuiet'
  <2> SUFFICES ASSUME TypeInv, ClosedQuiet, [Next]_vars PROVE ClosedQuiet'
    OBVIOUS
  <2>a. DOMAIN pc = Attempts
    BY DEF TypeInv, TypeOK
  <2>b. ASSUME stop' = stop, \A a \in Attempts : Active(a)' => Active(a) PROVE ClosedQuiet'
    BY <2>b DEF ClosedQuiet
  <2>1. CASE UNCHANGED vars
    BY <2>1, <2>b DEF vars, Active
  <2>2. CASE CloseStop \/ Close
    BY <2>2 DEF CloseStop, Close, CloseListener, CloseReturns, ClosedQuiet, Active
  <2>3. ASSUME NEW a \in Attempts, Accept(a) PROVE ClosedQuiet'
    BY <2>3 DEF Accept, ClosedQuiet
  <2>4. ASSUME NEW a \in Attempts, Main(a) PROVE ClosedQuiet'
    <3>1. stop' = stop /\ Active(a) /\ \A b \in Attempts : b # a => pc'[b] = pc[b]
      BY <2>4, <2>a DEF Main, Glob, Remove, Read, Join, Submit, Active
    <3> QED BY <2>b, <3>1 DEF Active
  <2>5. ASSUME NEW a \in Attempts, Reduce(a) PROVE ClosedQuiet'
    <3>1. stop' = stop /\ pc' = pc
      BY <2>5 DEF Reduce, RangeNext, RangeEnd, OutputCreate, OutputWrite, OutputRename,
                  OutputLost, OutputDiscard
    <3> QED BY <2>b, <3>1 DEF Active
  <2>6. ASSUME NEW a \in Attempts, NEW p \in Partition, Write(a, p) PROVE ClosedQuiet'
    <3>1. stop' = stop /\ pc' = pc
      BY <2>6 DEF Write, Create, Encode, Send
    <3> QED BY <2>b, <3>1 DEF Active
  <2> QED BY <2>1, <2>2, <2>3, <2>4, <2>5, <2>6 DEF Next
<1> QED BY <1>1, <1>2, TypeInvariant, PTL DEF Spec
(* ------------------------- One attempt at a time ------------------------- *)

\* A step of an attempt.
Step(a) == Accept(a) \/ Main(a) \/ Reduce(a) \/ \E p \in Partition : Write(a, p)

\* What belongs to an attempt itself.
Kept(b) == /\ pc'[b] = pc[b] /\ rpc'[b] = rpc[b] /\ ch'[b] = ch[b] /\ all'[b] = all[b]
           /\ wpc'[b] = wpc[b] /\ enc'[b] = enc[b] /\ submitted'[b] = submitted[b]

\* A step of an attempt leaves what belongs to another one alone.
LEMMA OthersKept ==
  ASSUME TypeInv, NEW a \in Attempts, Step(a), NEW b \in Attempts, b # a
  PROVE  Kept(b)
<1> USE DEF TypeInv, TypeOK, Kept, writers, reducer
<1>1. CASE Accept(a)
  BY <1>1 DEF Accept
<1>2. CASE Main(a)
  BY <1>2 DEF Main, Glob, Remove, Read, Join, Submit
<1>3. CASE Reduce(a)
  BY <1>3 DEF Reduce, RangeNext, RangeEnd, OutputCreate, OutputWrite, OutputRename, OutputLost,
              OutputDiscard
<1>4. ASSUME NEW p \in Partition, Write(a, p) PROVE Kept(b)
  BY <1>4 DEF Write, Create, Encode, Send
<1> QED BY <1>1, <1>2, <1>3, <1>4 DEF Step

\* Any other step leaves everything alone.
LEMMA OtherSteps ==
  ASSUME [Next]_vars
  PROVE  \/ \E a \in Attempts : Step(a)
         \/ UNCHANGED <<input, pc, rm, writers, reducer, files, submitted, met, fails>>
<1>1. CASE UNCHANGED vars
  BY <1>1 DEF vars
<1>2. CASE CloseStop \/ Close
  BY <1>2 DEF CloseStop, Close, CloseListener, CloseReturns
<1> QED BY <1>1, <1>2 DEF Next, Step

LEMMA KeptPhase ==
  ASSUME NEW b \in Attempts, PhaseOf(b), Kept(b)
  PROVE  PhaseOf(b)'
BY DEF PhaseOf, Kept, Submitted, Finished

\* A goroutine of the pipeline that takes a step does so while its attempt's
\* main goroutine waits for it.
LEMMA InPipeline ==
  ASSUME TypeInv, NEW a \in Attempts, PhaseOf(a)
  PROVE  /\ rpc[a] \in {"range", "create", "write", "rename", "discard"} => pc[a] = "pipeline"
         /\ \A p \in Partition :
               wpc[a][p] \in {"create", "encode"} =>
                  pc[a] = "pipeline" /\ rpc[a] \in {"range", "failed"} /\ p \notin ch[a]
<1>1. pc[a] \in MainPC
  BY DEF TypeInv, TypeOK, MainPC
<1>2. rpc[a] \in {"none", "range", "create", "write", "rename", "discard", "done", "failed"}
  BY DEF TypeInv, TypeOK
<1>3. rpc[a] \in {"range", "create", "write", "rename", "discard"} => pc[a] = "pipeline"
  BY <1>1 DEF PhaseOf, MainPC
<1>4. ASSUME NEW p \in Partition, wpc[a][p] \in {"create", "encode"}
      PROVE  pc[a] = "pipeline" /\ rpc[a] \in {"range", "failed"} /\ p \notin ch[a]
  <2>1. pc[a] = "pipeline"
    BY <1>1, <1>4 DEF PhaseOf, MainPC
  <2> QED BY <1>2, <1>4, <2>1 DEF PhaseOf, Finished
<1> QED BY <1>3, <1>4

LEMMA PhaseStep ==
  ASSUME TypeInv, PhaseInv, [Next]_vars
  PROVE  PhaseInv'
<1>1. CASE UNCHANGED <<input, pc, rm, writers, reducer, files, submitted, met, fails>>
  BY <1>1 DEF PhaseInv, PhaseOf, Submitted, Finished, writers, reducer
<1>2. ASSUME NEW a \in Attempts, Step(a) PROVE PhaseInv'
  <2> SUFFICES PhaseOf(a)'
    BY <1>2, OthersKept, KeptPhase DEF PhaseInv
  <2>a. PhaseOf(a)
    BY DEF PhaseInv
  <2>p. DOMAIN pc = Attempts /\ pc[a] \in MainPC
    BY DEF TypeInv, TypeOK, MainPC
  <2>w. wpc \in [Attempts -> [Partition -> WriterPC]]
    BY DEF TypeInv, TypeOK, WriterPC
  <2> USE DEF writers, reducer
  <2>1. CASE Accept(a)
    BY <2>1, <2>a, <2>p DEF Accept, PhaseOf, Submitted, Finished
  <2>2. CASE Glob(a)
    <3>1. /\ UNCHANGED <<writers, reducer, submitted>>
          /\ \/ pc[a] = "clean" /\ pc'[a] \in {"remove", "read"}
             \/ pc[a] = "cleanAgain" /\ pc'[a] \in {"removeAgain", "submit"}
      BY <2>2, <2>p DEF Glob, AfterCleanup
    <3> QED BY <3>1, <2>a DEF PhaseOf, Submitted, Finished
  <2>3. ASSUME NEW p \in Partition, Remove(a, p) PROVE PhaseOf(a)'
    <3>1. /\ UNCHANGED <<wpc, enc, ch, reducer, submitted>>
          /\ \/ pc[a] = "remove" /\ pc'[a] \in {"remove", "read"}
             \/ pc[a] = "removeAgain" /\ pc'[a] \in {"removeAgain", "submit"}
      BY <2>3, <2>p DEF Remove, AfterCleanup
    <3> QED BY <3>1, <2>a DEF PhaseOf, Submitted, Finished
  <2>4. CASE Read(a)
    <3>1. pc[a] = "read" /\ UNCHANGED <<enc, ch, all, submitted>>
      BY <2>4 DEF Read
    <3>2. CASE pc' = [pc EXCEPT ![a] = "ended"] /\ UNCHANGED <<wpc, rpc>>
      BY <3>1, <3>2, <2>a, <2>p DEF PhaseOf, Submitted, Finished
    <3>3. CASE /\ pc' = [pc EXCEPT ![a] = "pipeline"] /\ rpc' = [rpc EXCEPT ![a] = "range"]
               /\ wpc' = [wpc EXCEPT ![a] = [p \in Partition |-> "create"]]
      <4>1. pc'[a] = "pipeline" /\ \A p \in Partition : wpc'[a][p] = "create"
        BY <3>3, <2>p, <2>w
      <4>2. rpc'[a] = "range"
        BY <3>3 DEF TypeInv, TypeOK
      <4> QED BY <3>1, <4>1, <4>2, <2>a DEF PhaseOf, Submitted, Finished
    <3> QED BY <2>4, <3>2, <3>3 DEF Read
  <2>5. CASE Join(a)
    <3>1. pc[a] = "pipeline" /\ UNCHANGED <<writers, reducer, submitted>>
      BY <2>5 DEF Join
    <3>2. CASE rpc[a] = "done" /\ \A p \in Partition : wpc[a][p] = "sent"
      <4>1. pc'[a] = "cleanAgain"
        BY <2>5, <2>p, <3>2 DEF Join
      <4> QED BY <2>a, <3>1, <3>2, <4>1 DEF PhaseOf, Submitted, Finished
    <3>3. CASE ~(rpc[a] = "done" /\ \A p \in Partition : wpc[a][p] = "sent")
      <4>1. /\ pc'[a] = "ended" /\ rpc[a] \in {"done", "failed"}
            /\ \A p \in Partition : wpc[a][p] \in {"sent", "failed"}
        BY <2>5, <2>p, <3>3 DEF Join, Finished
      <4> QED BY <2>a, <3>1, <4>1 DEF PhaseOf, Submitted, Finished
    <3> QED BY <3>2, <3>3
  <2>6. CASE Submit(a)
    <3>1. pc[a] = "submit" /\ pc'[a] = "ended" /\ UNCHANGED <<writers, reducer>>
      BY <2>6, <2>p DEF Submit
    <3> QED BY <2>a, <3>1 DEF PhaseOf, Finished
  <2>7. ASSUME NEW p \in Partition, Write(a, p) PROVE PhaseOf(a)'
    <3>1. /\ wpc[a][p] \in {"create", "encode"} /\ UNCHANGED <<pc, reducer, submitted>>
          /\ ch' = ch \/ (ch' = [ch EXCEPT ![a] = @ \cup {p}] /\ wpc' = [wpc EXCEPT ![a][p] = "sent"])
      BY <2>7 DEF Write, Create, Encode, Send
    <3>2. /\ wpc' = wpc \/ \E v \in {"encode", "sent", "failed"} : wpc' = [wpc EXCEPT ![a][p] = v]
          /\ enc' = enc \/ (/\ wpc[a][p] = "encode" /\ wpc' = wpc
                            /\ \E S : enc' = [enc EXCEPT ![a][p] = S])
      BY <2>7 DEF Write, Create, Encode, Send
    <3>3. pc[a] = "pipeline" /\ rpc[a] \in {"range", "failed"} /\ p \notin ch[a]
      BY <3>1, <2>a, InPipeline
    <3>4. \A q \in Partition : wpc'[a][q] = wpc[a][q] \/ (q = p /\ wpc'[a][q] \in {"encode", "sent", "failed"})
      BY <3>2, <2>w
    <3>5. \A q \in Partition : wpc'[a][q] = "create" => enc'[a][q] = {}
      <4>1. \A q \in Partition : wpc'[a][q] = "create" => wpc[a][q] = "create" /\ (enc' = enc \/ q # p)
        BY <3>2, <3>4
      <4>2. \A q \in Partition : enc' = enc \/ q # p => enc'[a][q] = enc[a][q]
        BY <3>2 DEF TypeInv, TypeOK
      <4> QED BY <2>a, <4>1, <4>2 DEF PhaseOf
    <3>6. \A q \in ch'[a] : wpc'[a][q] = "sent"
      <4>1. CASE ch' = ch
        <5>1. \A q \in ch[a] : q \in Partition /\ q # p /\ wpc[a][q] = "sent"
          BY <2>a, <3>3 DEF PhaseOf, TypeInv, TypeOK
        <5> QED BY <3>4, <4>1, <5>1
      <4>2. CASE ch' = [ch EXCEPT ![a] = @ \cup {p}] /\ wpc' = [wpc EXCEPT ![a][p] = "sent"]
        <5>1. \A q \in ch[a] : q \in Partition /\ q # p /\ wpc[a][q] = "sent"
          BY <2>a, <3>3 DEF PhaseOf, TypeInv, TypeOK
        <5>2. wpc'[a][p] = "sent" /\ ch'[a] = ch[a] \cup {p}
          BY <2>w, <4>2 DEF TypeInv, TypeOK
        <5> QED BY <3>4, <5>1, <5>2
      <4> QED BY <3>1, <4>1, <4>2
    <3>7. \A q \in Partition : wpc'[a][q] # "none"
      BY <2>a, <3>3, <3>4 DEF PhaseOf
    <3>8. pc'[a] = "pipeline" /\ rpc'[a] \in {"range", "failed"} /\ submitted'[a] = submitted[a]
      BY <3>1, <3>3
    <3> QED BY <2>a, <3>3, <3>5, <3>6, <3>7, <3>8 DEF PhaseOf, Submitted
  <2>8. ASSUME NEW p \in Partition, RangeNext(a, p) PROVE PhaseOf(a)'
    <3>1. /\ rpc[a] = "range" /\ UNCHANGED <<pc, wpc, enc, submitted>>
          /\ ch' = [ch EXCEPT ![a] = @ \ {p}]
          /\ rpc' = rpc \/ rpc' = [rpc EXCEPT ![a] = "failed"]
      BY <2>8 DEF RangeNext
    <3>2. ch'[a] \subseteq ch[a] /\ rpc'[a] \in {"range", "failed"}
      BY <3>1 DEF TypeInv, TypeOK
    <3>3. pc[a] = "pipeline"
      BY <2>a, <3>1, InPipeline
    <3> QED BY <2>a, <3>1, <3>2, <3>3 DEF PhaseOf, Submitted
  <2>9. CASE RangeEnd(a) \/ OutputCreate(a) \/ OutputWrite(a) \/ OutputRename(a) \/ OutputLost(a)
             \/ OutputDiscard(a)
    <3>1. /\ UNCHANGED <<pc, writers, all, submitted>>
          /\ \E v \in {"create", "write", "rename", "discard", "done", "failed"} :
                rpc' = [rpc EXCEPT ![a] = v]
          /\ rpc[a] \in {"range", "create", "write", "rename", "discard"}
          /\ rpc[a] = "range" => ch[a] = {} /\ \A p \in Partition : Finished(a, p)
      BY <2>9 DEF RangeEnd, OutputCreate, OutputWrite, OutputRename, OutputLost, OutputDiscard
    <3>2. rpc'[a] \in {"create", "write", "rename", "discard", "done", "failed"}
      BY <3>1 DEF TypeInv, TypeOK
    <3>3. pc[a] = "pipeline"
      BY <2>a, <3>1, InPipeline
    <3>4. ch[a] = {} /\ \A p \in Partition : Finished(a, p)
      BY <2>a, <3>1 DEF PhaseOf
    <3> QED BY <2>a, <3>1, <3>2, <3>3, <3>4 DEF PhaseOf, Submitted, Finished
  <2> QED BY <1>2, <2>1, <2>2, <2>3, <2>4, <2>5, <2>6, <2>7, <2>8, <2>9 DEF Step, Main, Reduce
<1> QED BY <1>1, <1>2, OtherSteps

\* An attempt becomes active only by being accepted, and then everyone who is
\* active has met it.
LEMMA AloneStep ==
  ASSUME TypeInv, PhaseInv, AloneInv, [Next]_vars
  PROVE  /\ AloneInv' /\ met \subseteq met'
         /\ \A a, b \in Attempts : a # b /\ Active(a) /\ Step(b) => a \in met'
<1>a. DOMAIN pc = Attempts
  BY DEF TypeInv, TypeOK
<1>1. ASSUME NEW b \in Attempts, Step(b)
      PROVE  /\ \A a \in Attempts : a # b => pc'[a] = pc[a]
             /\ \/ Active(b) /\ met' = met
                \/ /\ ~Active(b)
                   /\ met' = met \cup (IF \E a \in Attempts : Active(a)
                                       THEN {b} \cup {a \in Attempts : Active(a)} ELSE {})
  <2>1. \A a \in Attempts : a # b => pc'[a] = pc[a]
    BY <1>1, OthersKept DEF Kept
  <2>2. CASE Accept(b)
    BY <2>1, <2>2 DEF Accept, Active
  <2>3. CASE Main(b)
    BY <2>1, <2>3 DEF Main, Glob, Remove, Read, Join, Submit, Active
  <2>4. CASE Reduce(b)
    <3>1. rpc[b] \in {"range", "create", "write", "rename", "discard"} /\ met' = met
      BY <2>4 DEF Reduce, RangeNext, RangeEnd, OutputCreate, OutputWrite, OutputRename, OutputLost,
                  OutputDiscard
    <3>2. pc[b] = "pipeline"
      BY <3>1, InPipeline DEF PhaseInv
    <3> QED BY <2>1, <3>1, <3>2 DEF Active
  <2>5. ASSUME NEW p \in Partition, Write(b, p) PROVE Active(b) /\ met' = met
    <3>1. wpc[b][p] \in {"create", "encode"} /\ met' = met
      BY <2>5 DEF Write, Create, Encode, Send
    <3>2. pc[b] = "pipeline"
      BY <3>1, InPipeline DEF PhaseInv
    <3> QED BY <3>1, <3>2 DEF Active
  <2> QED BY <1>1, <2>1, <2>2, <2>3, <2>4, <2>5 DEF Step
<1>2. ASSUME NEW b \in Attempts, Step(b)
      PROVE  /\ met \subseteq met'
             /\ \A a \in Attempts : a # b /\ Active(a) => a \in met' /\ b \in met'
  BY <1>1, <1>2 DEF AloneInv
<1>3. ASSUME NEW b \in Attempts, Step(b) PROVE AloneInv'
  <2> SUFFICES ASSUME NEW a \in Attempts, NEW c \in Attempts, a # c, Active(a)', Active(c)'
               PROVE  a \in met'
    BY DEF AloneInv
  <2>1. \A d \in Attempts : d # b /\ Active(d)' => Active(d)
    BY <1>1, <1>3 DEF Active
  <2>2. CASE a # b /\ c # b
    BY <1>2, <1>3, <2>1, <2>2
  <2>3. CASE a = b \/ c = b
    BY <1>2, <1>3, <2>1, <2>3
  <2> QED BY <2>2, <2>3
<1>4. CASE UNCHANGED <<input, pc, rm, writers, reducer, files, submitted, met, fails>>
  BY <1>2, <1>4 DEF AloneInv, Active
<1> QED BY <1>2, <1>3, <1>4, OtherSteps

(* ---------------------- What an attempt has processed -------------------- *)

LEMMA PairsStep ==
  ASSUME TypeInv, PhaseInv, AloneInv, PairsInv, [Next]_vars
  PROVE  PairsInv'
<1>a. /\ met \subseteq met'
      /\ \A a, b \in Attempts : a # b /\ Active(a) /\ Step(b) => a \in met'
  BY AloneStep
<1>b. Data' = Data /\ \A p : Bucket(p)' = Bucket(p)
  BY InputKept
<1>1. CASE UNCHANGED <<input, pc, rm, writers, reducer, files, submitted, met, fails>>
  BY <1>b, <1>1 DEF PairsInv, PairsOf, Submitted, writers, reducer, files
<1>2. ASSUME NEW c \in Attempts, Step(c) PROVE PairsInv'
  <2> SUFFICES ASSUME NEW a \in Attempts, a \notin met' PROVE PairsOf(a)'
    BY DEF PairsInv
  <2>a. PairsOf(a) /\ PhaseOf(a)
    BY <1>a DEF PairsInv, PhaseInv
  <2>1. CASE a # c
    <3>1. Kept(a)
      BY <1>2, <2>1, OthersKept
    <3>2. pc[a] \in {"none", "ended"}
      BY <1>2, <1>a, <2>1 DEF Active
    <3> QED BY <1>b, <2>a, <3>1, <3>2 DEF PairsOf, Kept, Submitted
  <2>2. CASE a = c
    <3>p. DOMAIN pc = Attempts /\ pc[a] \in MainPC
      BY DEF TypeInv, TypeOK, MainPC
    <3>w. wpc \in [Attempts -> [Partition -> WriterPC]]
      BY DEF TypeInv, TypeOK, WriterPC
    <3> USE DEF writers, reducer, files
    <3>a. ASSUME submitted' = submitted, all' = all, pc'[a] # "pipeline",
                 pc'[a] \in {"cleanAgain", "removeAgain", "submit"} => all[a] = Data
          PROVE  PairsOf(a)'
      BY <1>b, <2>a, <3>a DEF PairsOf, Submitted
    <3>1. CASE Accept(a)
      <4>1. pc'[a] = "clean" /\ UNCHANGED <<submitted, all>>
        BY <3>1, <3>p DEF Accept
      <4> QED BY <3>a, <4>1
    <3>2. CASE Glob(a)
      <4>1. /\ UNCHANGED <<submitted, all>>
            /\ \/ pc[a] = "clean" /\ pc'[a] \in {"remove", "read"}
               \/ pc[a] = "cleanAgain" /\ pc'[a] \in {"removeAgain", "submit"}
        BY <3>2, <3>p DEF Glob, AfterCleanup
      <4> QED BY <2>a, <3>a, <4>1 DEF PairsOf
    <3>3. ASSUME NEW p \in Partition, Remove(a, p) PROVE PairsOf(a)'
      <4>1. /\ UNCHANGED <<submitted, all>>
            /\ \/ pc[a] = "remove" /\ pc'[a] \in {"remove", "read"}
               \/ pc[a] = "removeAgain" /\ pc'[a] \in {"removeAgain", "submit"}
        BY <3>3, <3>p DEF Remove, AfterCleanup
      <4> QED BY <2>a, <3>a, <4>1 DEF PairsOf
    <3>4. CASE Read(a)
      <4>1. pc[a] = "read" /\ UNCHANGED <<enc, ch, all, submitted>>
        BY <3>4 DEF Read
      <4>2. CASE pc' = [pc EXCEPT ![a] = "ended"]
        <5>1. pc'[a] = "ended"
          BY <3>p, <4>2
        <5> QED BY <3>a, <4>1, <5>1
      <4>3. CASE /\ pc' = [pc EXCEPT ![a] = "pipeline"]
                 /\ wpc' = [wpc EXCEPT ![a] = [p \in Partition |-> "create"]]
        <5>1. pc'[a] = "pipeline" /\ \A p \in Partition : wpc'[a][p] = "create"
          BY <4>3, <3>p, <3>w
        <5>2. ch'[a] = {}
          BY <2>a, <4>1 DEF PhaseOf
        <5> QED BY <1>b, <2>a, <4>1, <5>1, <5>2 DEF PairsOf, Submitted
      <4> QED BY <3>4, <4>2, <4>3 DEF Read
    <3>5. CASE Join(a)
      <4>1. pc[a] = "pipeline" /\ UNCHANGED <<writers, reducer, submitted>>
        BY <3>5 DEF Join
      <4>2. CASE rpc[a] = "done" /\ \A p \in Partition : wpc[a][p] = "sent"
        <5>1. pc'[a] = "cleanAgain"
          BY <3>5, <3>p, <4>2 DEF Join
        <5>2. ch[a] = {}
          BY <2>a, <4>2 DEF PhaseOf
        <5>3. \A p \in Partition : Bucket(p) \subseteq all[a]
          BY <2>a, <4>1, <4>2, <5>2 DEF PairsOf
        <5>4. length \in Nat /\ all[a] \subseteq Data
          BY SizesAssumption DEF TypeInv, TypeOK
        <5>5. all[a] = Data
          BY <5>3, <5>4, Buckets
        <5> QED BY <3>a, <4>1, <5>1, <5>5
      <4>3. CASE ~(rpc[a] = "done" /\ \A p \in Partition : wpc[a][p] = "sent")
        <5>1. pc'[a] = "ended"
          BY <3>5, <3>p, <4>3 DEF Join
        <5> QED BY <3>a, <4>1, <5>1
      <4> QED BY <4>2, <4>3
    <3>6. CASE Submit(a)
      <4>1. /\ pc[a] = "submit" /\ pc'[a] = "ended"
            /\ submitted' = submitted \/ submitted' = [submitted EXCEPT ![a] = all[a]]
        BY <3>6, <3>p DEF Submit
      <4>2. all[a] = Data
        BY <2>a, <4>1 DEF PairsOf
      <4>3. submitted'[a] = submitted[a] \/ submitted'[a] = Data
        BY <4>1, <4>2 DEF TypeInv, TypeOK
      <4> QED BY <1>b, <2>a, <4>1, <4>3 DEF PairsOf, Submitted
    <3>7. ASSUME NEW p \in Partition, Write(a, p) PROVE PairsOf(a)'
      <4>1. /\ UNCHANGED <<pc, rpc, all, submitted>>
            /\ wpc[a][p] \in {"create", "encode"}
        BY <3>7 DEF Write, Create, Encode, Send
      <4>2. pc[a] = "pipeline" /\ p \notin ch[a]
        BY <2>a, <4>1, InPipeline
      <4>3. ASSUME NEW q \in Partition, q # p
            PROVE  /\ wpc'[a][q] = wpc[a][q] /\ enc'[a][q] = enc[a][q] /\ file'[q] = file[q]
                   /\ q \in ch'[a] <=> q \in ch[a]
                   /\ q \in linked'[a] <=> q \in linked[a]
        <5>1. CASE Create(a, p)
          BY <3>w, <4>3, <5>1 DEF Create, TypeInv, TypeOK
        <5>2. CASE Encode(a, p)
          BY <3>w, <4>3, <5>2 DEF Encode, TypeInv, TypeOK
        <5>3. CASE Send(a, p)
          BY <3>w, <4>3, <5>3 DEF Send, TypeInv, TypeOK
        <5> QED BY <3>7, <5>1, <5>2, <5>3 DEF Write
      <4>4. /\ wpc'[a][p] = "encode" => p \in linked'[a] /\ file'[p] = enc'[a][p]
            /\ p \in ch'[a] => file'[p] = Bucket(p)
            /\ wpc'[a][p] = "sent" => p \in ch'[a]
        <5>1. CASE Create(a, p)
          <6>1. enc' = enc /\ ch' = ch /\ enc[a][p] = {}
            BY <2>a, <5>1 DEF Create, PhaseOf
          <6>2. CASE /\ wpc' = [wpc EXCEPT ![a][p] = "encode"] /\ file' = [file EXCEPT ![p] = {}]
                     /\ linked' = [linked EXCEPT ![a] = @ \cup {p}]
            <7>1. wpc'[a][p] = "encode"
              BY <3>w, <6>2
            <7>2. file'[p] = {} /\ p \in linked'[a]
              BY <6>2 DEF TypeInv, TypeOK
            <7> QED BY <4>2, <6>1, <7>1, <7>2
          <6>3. CASE wpc' = [wpc EXCEPT ![a][p] = "failed"]
            <7>1. wpc'[a][p] = "failed"
              BY <3>w, <6>3
            <7> QED BY <4>2, <6>1, <7>1
          <6> QED BY <5>1, <6>2, <6>3 DEF Create
        <5>2. CASE Encode(a, p)
          <6>1. ch' = ch /\ wpc[a][p] = "encode"
            BY <5>2 DEF Encode
          <6>2. p \in linked[a] /\ file[p] = enc[a][p]
            BY <2>a, <4>2, <6>1 DEF PairsOf
          <6>3. PICK b \in Bucket(p) \ enc[a][p] :
                   \/ /\ enc' = [enc EXCEPT ![a][p] = @ \cup {b}]
                      /\ file' = [file EXCEPT ![p] = IF p \in linked[a] THEN @ \cup {b} ELSE @]
                      /\ UNCHANGED <<wpc, linked, fails>>
                   \/ wpc' = [wpc EXCEPT ![a][p] = "failed"]
            BY <5>2 DEF Encode
          <6>4. CASE wpc' = [wpc EXCEPT ![a][p] = "failed"]
            <7>1. wpc'[a][p] = "failed"
              BY <3>w, <6>4
            <7> QED BY <4>2, <6>1, <7>1
          <6>5. CASE /\ enc' = [enc EXCEPT ![a][p] = @ \cup {b}]
                     /\ file' = [file EXCEPT ![p] = IF p \in linked[a] THEN @ \cup {b} ELSE @]
                     /\ UNCHANGED <<wpc, linked, fails>>
            <7>1. enc'[a][p] = enc[a][p] \cup {b} /\ file'[p] = file[p] \cup {b}
              BY <6>2, <6>5 DEF TypeInv, TypeOK
            <7> QED BY <4>2, <6>1, <6>2, <6>5, <7>1
          <6> QED BY <6>3, <6>4, <6>5
        <5>3. CASE Send(a, p)
          <6>1. wpc[a][p] = "encode" /\ enc[a][p] = Bucket(p) /\ file' = file
            BY <5>3 DEF Send
          <6>2. file[p] = Bucket(p)
            BY <2>a, <4>2, <6>1 DEF PairsOf
          <6>3. wpc'[a][p] = "sent"
            BY <3>w, <5>3 DEF Send
          <6>4. p \in ch'[a]
            BY <5>3 DEF Send, TypeInv, TypeOK
          <6> QED BY <6>1, <6>2, <6>3, <6>4
        <5> QED BY <3>7, <5>1, <5>2, <5>3 DEF Write
      <4>5. ASSUME NEW q \in Partition
            PROVE  /\ wpc'[a][q] = "encode" => q \in linked'[a] /\ file'[q] = enc'[a][q]
                   /\ q \in ch'[a] => file'[q] = Bucket(q)
                   /\ wpc'[a][q] = "sent" /\ q \notin ch'[a] /\ rpc[a] # "failed" =>
                         Bucket(q) \subseteq all[a]
        <5>1. CASE q = p
          BY <4>4, <5>1
        <5>2. CASE q # p
          BY <2>a, <4>2, <4>3, <5>2 DEF PairsOf
        <5> QED BY <5>1, <5>2
      <4> QED BY <1>b, <2>a, <4>1, <4>2, <4>5 DEF PairsOf, Submitted
    <3>8. ASSUME NEW p \in Partition, RangeNext(a, p) PROVE PairsOf(a)'
      <4>1. /\ UNCHANGED <<pc, wpc, enc, linked, file, submitted>>
            /\ rpc[a] = "range" /\ p \in ch[a] /\ ch' = [ch EXCEPT ![a] = @ \ {p}]
            /\ \/ all' = [all EXCEPT ![a] = @ \cup file[p]] /\ rpc' = rpc
               \/ all' = all /\ rpc' = [rpc EXCEPT ![a] = "failed"]
        BY <3>8 DEF RangeNext
      <4>2. pc[a] = "pipeline"
        BY <2>a, <4>1, InPipeline
      <4>3. file[p] = Bucket(p)
        BY <2>a, <4>1, <4>2 DEF PairsOf
      <4>4. /\ ch'[a] = ch[a] \ {p}
            /\ rpc'[a] = "failed" \/ (rpc'[a] = rpc[a] /\ all'[a] = all[a] \cup file[p])
        BY <4>1 DEF TypeInv, TypeOK
      <4>5. ASSUME NEW q \in Partition
            PROVE  /\ wpc[a][q] = "encode" => q \in linked[a] /\ file[q] = enc[a][q]
                   /\ q \in ch'[a] => file[q] = Bucket(q)
                   /\ wpc[a][q] = "sent" /\ q \notin ch'[a] /\ rpc'[a] # "failed" =>
                         Bucket(q) \subseteq all'[a]
        <5>1. wpc[a][q] = "encode" => q \in linked[a] /\ file[q] = enc[a][q]
          BY <2>a, <4>2 DEF PairsOf
        <5>2. q \in ch'[a] => file[q] = Bucket(q)
          BY <2>a, <4>2, <4>4 DEF PairsOf
        <5>3. ASSUME wpc[a][q] = "sent", q \notin ch'[a], rpc'[a] # "failed"
              PROVE  Bucket(q) \subseteq all'[a]
          <6>1. CASE q = p
            BY <4>3, <4>4, <5>3, <6>1
          <6>2. CASE q # p
            <7>1. Bucket(q) \subseteq all[a]
              BY <2>a, <4>1, <4>2, <4>4, <5>3, <6>2 DEF PairsOf
            <7> QED BY <4>4, <5>3, <7>1
          <6> QED BY <6>1, <6>2
        <5> QED BY <5>1, <5>2, <5>3
      <4> QED BY <1>b, <2>a, <4>1, <4>2, <4>5 DEF PairsOf, Submitted
    <3>9. CASE RangeEnd(a) \/ OutputCreate(a) \/ OutputWrite(a) \/ OutputRename(a) \/ OutputLost(a)
               \/ OutputDiscard(a)
      <4>1. /\ UNCHANGED <<pc, writers, all, file, submitted>>
            /\ rpc[a] \in {"range", "create", "write", "rename", "discard"}
        BY <3>9 DEF RangeEnd, OutputCreate, OutputWrite, OutputRename, OutputLost, OutputDiscard
      <4> QED BY <1>b, <2>a, <4>1 DEF PairsOf, Submitted
    <3> QED BY <1>2, <2>2, <3>1, <3>2, <3>3, <3>4, <3>5, <3>6, <3>7, <3>8, <3>9
            DEF Step, Main, Reduce
  <2> QED BY <2>1, <2>2
<1> QED BY <1>1, <1>2, OtherSteps

(* ------------------------------ The output ------------------------------- *)

\* A writer that has failed stays failed.
LEMMA FailedStays ==
  ASSUME TypeInv, PhaseInv, NEW c \in Attempts, Step(c),
         NEW b \in Attempts, NEW p \in Partition, wpc[b][p] = "failed"
  PROVE  wpc'[b][p] = "failed"
<1>w. wpc \in [Attempts -> [Partition -> WriterPC]]
  BY DEF TypeInv, TypeOK, WriterPC
<1>1. CASE b # c
  BY <1>1, OthersKept DEF Kept
<1>2. CASE b = c
  <2> USE DEF writers
  <2>1. CASE Accept(c) \/ Glob(c) \/ Join(c) \/ Submit(c) \/ Reduce(c)
    BY <2>1 DEF Accept, Glob, Join, Submit, Reduce, RangeNext, RangeEnd, OutputCreate, OutputWrite,
                OutputRename, OutputLost, OutputDiscard
  <2>2. ASSUME NEW q \in Partition, Remove(c, q) PROVE wpc' = wpc
    BY <2>2 DEF Remove
  <2>3. CASE Read(c)
    <3>1. pc[c] = "read"
      BY <2>3 DEF Read
    <3> QED BY <1>2, <3>1 DEF PhaseInv, PhaseOf
  <2>4. ASSUME NEW q \in Partition, Write(c, q) PROVE wpc'[b][p] = "failed"
    <3>1. /\ wpc[c][q] \in {"create", "encode"}
          /\ wpc' = wpc \/ \E v \in {"encode", "sent", "failed"} : wpc' = [wpc EXCEPT ![c][q] = v]
      BY <2>4 DEF Write, Create, Encode, Send
    <3>2. q # p
      BY <1>2, <3>1
    <3> QED BY <1>w, <3>1, <3>2
  <2> QED BY <2>1, <2>2, <2>3, <2>4 DEF Step, Main
<1> QED BY <1>1, <1>2

\* The reducer of an attempt that has run alone has every pair before it renames
\* its output, unless one of the attempt's writers failed.
LEMMA ReducedWhole ==
  ASSUME TypeInv, NEW a \in Attempts, PhaseOf(a), PairsOf(a), rpc[a] = "rename"
  PROVE  all[a] = Data \/ (all[a] \subseteq Data /\ \E p \in Partition : wpc[a][p] = "failed")
<1>1. /\ pc[a] = "pipeline" /\ ch[a] = {}
      /\ \A p \in Partition : wpc[a][p] \in {"sent", "failed"}
  BY InPipeline DEF PhaseOf, Finished
<1>2. length \in Nat /\ all[a] \subseteq Data
  BY SizesAssumption DEF TypeInv, TypeOK
<1>3. CASE \A p \in Partition : wpc[a][p] = "sent"
  <2>1. \A p \in Partition : Bucket(p) \subseteq all[a]
    BY <1>1, <1>3 DEF PairsOf
  <2> QED BY <1>2, <2>1, Buckets
<1> QED BY <1>1, <1>2, <1>3

LEMMA OutStep ==
  ASSUME TypeInv, PhaseInv, AloneInv, PairsInv, OutInv, [Next]_vars
  PROVE  OutInv'
<1> SUFFICES ASSUME met' = {}, NEW a \in Attempts PROVE OutOf(a)'
  BY DEF OutInv
<1>a. /\ met = {}
      /\ \A x, b \in Attempts : x # b /\ Active(x) /\ Step(b) => x \in met'
  BY AloneStep
<1>b. Data' = Data
  BY InputKept
<1>c. OutOf(a) /\ PairsOf(a) /\ PhaseOf(a)
  BY <1>a DEF OutInv, PairsInv, PhaseInv
<1>d. pc[a] \in MainPC
  BY DEF TypeInv, TypeOK, MainPC
<1>1. CASE UNCHANGED <<input, pc, rm, writers, reducer, files, submitted, met, fails>>
  BY <1>b, <1>c, <1>1
     DEF OutOf, Submitted, Active, FailedBeside, writers, reducer, files
<1>2. ASSUME NEW c \in Attempts, Step(c) PROVE OutOf(a)'
  <2> USE DEF writers, reducer, files
  <2>a. FailedBeside(a) => FailedBeside(a)'
    BY <1>2, FailedStays DEF FailedBeside
  <2>b. OutOf(c) /\ PairsOf(c) /\ PhaseOf(c)
    BY <1>a DEF OutInv, PairsInv, PhaseInv
  <2>1. CASE a # c
    <3>1. Kept(a)
      BY <1>2, <2>1, OthersKept
    <3>2. pc[a] \in {"none", "ended"}
      BY <1>2, <1>a, <2>1 DEF Active
    <3>3. rpc[a] \in {"none", "done", "failed"} /\ ofd[a] = "none"
      BY <1>c, <3>2 DEF PhaseOf, OutOf
    <3>4. ofd'[a] = "none"
      <4>1. CASE OutputCreate(c) \/ OutputWrite(c) \/ OutputRename(c) \/ OutputDiscard(c)
        BY <2>1, <3>3, <4>1
           DEF OutputCreate, OutputWrite, OutputRename, OutputDiscard, TypeInv, TypeOK
      <4>2. CASE ofd' = ofd
        BY <3>3, <4>2
      <4>3. \/ OutputCreate(c) \/ OutputWrite(c) \/ OutputRename(c) \/ OutputDiscard(c)
            \/ ofd' = ofd
        BY <1>2 DEF Step, Accept, Main, Glob, Remove, Read, Join, Submit, Reduce, RangeNext,
                    RangeEnd, OutputLost, Write, Create, Encode, Send
      <4> QED BY <4>1, <4>2, <4>3
    <3>5. out' = out \/ (OutputRename(c) /\ out' = all[c] /\ rpc[c] = "rename")
      <4>1. CASE OutputWrite(c)
        <5>1. ofd[c] = "tmp"
          BY <2>b, <4>1 DEF OutputWrite, OutOf
        <5> QED BY <4>1, <5>1 DEF OutputWrite
      <4>2. CASE OutputRename(c)
        BY <2>b, <4>2 DEF OutputRename, OutOf
      <4>3. OutputWrite(c) \/ OutputRename(c) \/ out' = out
        BY <1>2 DEF Step, Accept, Main, Glob, Remove, Read, Join, Submit, Reduce, RangeNext,
                    RangeEnd, OutputCreate, OutputLost, OutputDiscard, Write, Create, Encode, Send
      <4> QED BY <4>1, <4>2, <4>3
    <3>6. Submitted(a)' => out' = Data \/ (out' \subseteq Data /\ FailedBeside(a)')
      <4>1. CASE out' = out
        BY <1>c, <2>a, <3>1, <4>1 DEF OutOf, Submitted, Kept
      <4>2. CASE OutputRename(c) /\ out' = all[c] /\ rpc[c] = "rename"
        <5>1. out' = Data \/ (out' \subseteq Data /\ FailedBeside(a))
          BY <2>1, <2>b, <4>2, ReducedWhole DEF FailedBeside
        <5> QED BY <2>a, <5>1
      <4> QED BY <3>5, <4>1, <4>2
    <3> QED BY <1>b, <3>1, <3>2, <3>3, <3>4, <3>6 DEF OutOf, Kept, Active
  <2>2. CASE a = c
    <3>a. DOMAIN pc = Attempts /\ DOMAIN rpc = Attempts /\ DOMAIN ofd = Attempts
          /\ DOMAIN all = Attempts /\ DOMAIN submitted = Attempts
      BY DEF TypeInv, TypeOK
    <3>b. ASSUME UNCHANGED <<tmp, out, ofd, submitted>>, Active(a)' /\ rpc'[a] = "done" => Active(a),
                 rpc'[a] = rpc[a] \/ {rpc[a], rpc'[a]} \cap {"write", "rename", "done"} = {},
                 rpc'[a] # rpc[a] \/ all'[a] = all[a] \/ rpc[a] = "range"
          PROVE  OutOf(a)'
      BY <1>b, <1>c, <2>a, <3>b DEF OutOf, Submitted
    <3>1. CASE Accept(a) \/ Glob(a) \/ Read(a) \/ Join(a) \/ \E p \in Partition : Remove(a, p)
      <4>1. UNCHANGED <<tmp, out, ofd, submitted, all>>
        BY <3>1 DEF Accept, Glob, Read, Join, Remove
      <4>2. CASE Accept(a) \/ Read(a)
        <5>1. rpc[a] = "none" /\ rpc'[a] \in {"none", "range"}
          BY <1>c, <3>a, <4>2 DEF Accept, Read, PhaseOf
        <5> QED BY <3>b, <4>1, <5>1
      <4>3. CASE Glob(a) \/ Join(a) \/ \E p \in Partition : Remove(a, p)
        <5>1. Active(a) /\ rpc' = rpc
          BY <4>3 DEF Glob, Join, Remove, Active
        <5> QED BY <3>b, <4>1, <5>1
      <4> QED BY <3>1, <4>2, <4>3
    <3>2. CASE Submit(a)
      <4>1. /\ UNCHANGED <<tmp, out, ofd, rpc, all>> /\ pc[a] = "submit" /\ pc'[a] = "ended"
        BY <3>2, <3>a DEF Submit
      <4>2. rpc[a] = "done" /\ all[a] = Data
        BY <1>c, <4>1 DEF PhaseOf, PairsOf
      <4>3. out = Data
        BY <1>c, <4>1, <4>2 DEF OutOf, Active
      <4> QED BY <1>b, <1>c, <4>1, <4>2, <4>3 DEF OutOf, Active
    <3>3. ASSUME NEW p \in Partition, Write(a, p) PROVE OutOf(a)'
      <4>1. UNCHANGED <<tmp, out, ofd, submitted, pc, rpc, all>>
        BY <3>3 DEF Write, Create, Encode, Send
      <4> QED BY <3>b, <4>1 DEF Active
    <3>4. CASE Reduce(a)
      <4>1. UNCHANGED <<pc, submitted>>
        BY <3>4 DEF Reduce, RangeNext, RangeEnd, OutputCreate, OutputWrite, OutputRename,
                    OutputLost, OutputDiscard
      <4>2. rpc[a] \in {"range", "create", "write", "rename", "discard"}
        BY <3>4 DEF Reduce, RangeNext, RangeEnd, OutputCreate, OutputWrite, OutputRename,
                    OutputLost, OutputDiscard
      <4>3. pc[a] = "pipeline" /\ ~Submitted(a)
        BY <1>c, <4>2, InPipeline DEF PhaseOf
      <4>4. ~Submitted(a)'
        BY <4>1, <4>3 DEF Submitted
      <4>5. CASE RangeEnd(a) \/ \E p \in Partition : RangeNext(a, p)
        <5>1. /\ UNCHANGED <<tmp, out, ofd>> /\ rpc[a] = "range"
              /\ rpc'[a] \in {"range", "failed", "create"}
          BY <3>a, <4>5 DEF RangeEnd, RangeNext
        <5> QED BY <1>c, <4>4, <5>1 DEF OutOf
      <4>6. CASE OutputCreate(a)
        <5>1. /\ out' = out /\ rpc[a] = "create"
              /\ \/ rpc'[a] = "write" /\ ofd'[a] = "tmp" /\ tmp' = {}
                 \/ rpc'[a] = "failed" /\ ofd' = ofd
          BY <3>a, <4>6 DEF OutputCreate
        <5> QED BY <1>c, <4>4, <5>1 DEF OutOf
      <4>7. CASE OutputWrite(a)
        <5>1. ofd[a] = "tmp" /\ tmp = {}
          BY <1>c, <4>7 DEF OutputWrite, OutOf
        <5>2. /\ ofd'[a] = "none" /\ all' = all
              /\ \/ rpc'[a] = "rename" /\ tmp' = all[a]
                 \/ rpc'[a] = "failed"
          BY <3>a, <4>7, <5>1 DEF OutputWrite, Written
        <5> QED BY <4>4, <5>2 DEF OutOf
      <4>8. CASE OutputRename(a)
        <5>1. tmp = all[a] /\ ofd[a] = "none"
          BY <1>c, <4>8 DEF OutputRename, OutOf
        <5>2. rpc'[a] = "done" /\ out' = tmp /\ all' = all /\ ofd'[a] = "none"
          BY <3>a, <4>8, <5>1 DEF OutputRename
        <5> QED BY <4>4, <5>1, <5>2 DEF OutOf
      <4>9. CASE OutputLost(a) \/ OutputDiscard(a)
        <5>1. ofd[a] = "none"
          BY <1>c, <4>9 DEF OutputLost, OutputDiscard, OutOf
        <5>2. rpc'[a] \in {"discard", "failed"} /\ ofd'[a] = "none"
          BY <3>a, <4>9, <5>1 DEF OutputLost, OutputDiscard
        <5> QED BY <4>4, <5>2 DEF OutOf
      <4> QED BY <3>4, <4>5, <4>6, <4>7, <4>8, <4>9 DEF Reduce
    <3> QED BY <1>2, <2>2, <3>1, <3>2, <3>3, <3>4 DEF Step, Main
  <2> QED BY <2>1, <2>2
<1> QED BY <1>1, <1>2, OtherSteps

LEMMA OutputInvariant == Spec => [](PhaseInv /\ AloneInv /\ PairsInv /\ OutInv)
<1>1. Init => PhaseInv
  BY DEF Init, PhaseInv, PhaseOf, Submitted, Finished
<1>2. Init => AloneInv /\ PairsInv /\ OutInv
  BY DEF Init, AloneInv, Active, PairsInv, PairsOf, OutInv, OutOf, Submitted
<1>3. /\ TypeInv /\ PhaseInv /\ AloneInv /\ PairsInv /\ OutInv
      /\ [Next]_vars
      => PhaseInv' /\ AloneInv' /\ PairsInv' /\ OutInv'
  BY PhaseStep, AloneStep, PairsStep, OutStep
<1> QED BY <1>1, <1>2, <1>3, TypeInvariant, PTL DEF Spec

\* Whatever earlier attempts have left behind and whatever fails, an attempt
\* that no other one overlapped submits a result that was computed from every
\* pair of its chunk and from nothing else.
THEOREM ResultIsWhole == Spec => []SubmittedWhole
<1>1. PairsInv => SubmittedWhole
  BY DEF PairsInv, PairsOf, SubmittedWhole
<1> QED BY <1>1, OutputInvariant, PTL

\* Once a result has been submitted, the output file of the chunk holds it, or
\* the part of it that an attempt with a failed partition writer has put there.
THEOREM OutputStays == Spec => []OutputKept
<1>1. PairsInv /\ OutInv => OutputKept
  BY DEF PairsInv, PairsOf, OutInv, OutOf, OutputKept, FailedBeside
<1> QED BY <1>1, OutputInvariant, PTL
================================================================================
