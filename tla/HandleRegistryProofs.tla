-------------------------- MODULE HandleRegistryProofs --------------------------
(***************************************************************************)
(* Proofs about HandleRegistry: type correctness, that the registry file   *)
(* has whole records, and that a handle can be recovered after a crash at  *)
(* any moment, for any number of handles, saves and faults.                *)
(***************************************************************************)
EXTENDS HandleRegistry, FiniteSetTheorems, TLAPS

\* A saver writes two fields for a key it has visited, or fewer if it fails.
OffsetInv ==
    \A s \in Saver :
       /\ offset[s] + (IF pc[s] = "times" THEN 1 ELSE 0) <= 2 * Cardinality(seen[s])
       /\ pc[s] = "times" => cur[s] \in seen[s]

TypeInv == TypeOK /\ OffsetInv

\* Two savers that save at once are both on record as spoilt.  One that is not
\* has the .tmp file to itself; one whose .tmp file has become the registry file
\* is spoilt, and the registry file with it.
MixOf(s) ==
    /\ fd[s] # "none" => pc[s] \in {"range", "times"}
    /\ fd[s] = "registry" => regSpoilt /\ s \in spoilt
    /\ Saving(s) /\ s \notin spoilt =>
          tmpExists /\ (pc[s] \in {"range", "times"} => fd[s] = "tmp")
    /\ Saving(s) /\ ~tmpExists => regSpoilt

MixInv ==
    /\ Saving("monitor") /\ Saving("uploader") => spoilt = Saver
    /\ \A s \in Saver : MixOf(s)

\* The .tmp file of saver s when no other one has touched it and no write has
\* failed: n whole records, one for every key that s has visited and not skipped,
\* and what there is of the last.
Records(s, n) ==
    /\ Len(tmp) = offset[s] /\ offset[s] = 2 * n + (IF pc[s] = "times" THEN 1 ELSE 0)
    /\ \A k \in 1 .. n : \E h \in seen[s] : Whole(tmp, k, h)
    /\ \A h \in seen[s] : \A j, k \in 1 .. n : Whole(tmp, j, h) /\ Whole(tmp, k, h) => j = k
    /\ \A h \in seen[s] : \/ h \in late
                          \/ pc[s] = "times" /\ h = cur[s]
                          \/ \E k \in 1 .. n : Whole(tmp, k, h)
    /\ pc[s] = "times" =>
          tmp[2 * n + 1] = <<"id", cur[s]>> /\ \A k \in 1 .. n : ~Whole(tmp, k, cur[s])

TmpInv ==
    \A s \in Saver : Saving(s) /\ s \notin spoilt => \E n \in 0 .. MaxHandle : Records(s, n)

\* A handle that the registry in memory has dropped for good.
Dropped(h) == \E cause \in {"spoilt", "deleted", "expired"} : <<h, cause>> \in hurt

Known(h) == h \in uploaded \/ Dropped(h)

\* What a saver has to visit, has visited and has to remove is in the registry
\* in memory, and what it had to visit it has visited when it renames.
KeyInv ==
    /\ \A h \in late : <<h, "expired">> \in hurt
    /\ \A h \in marked : Known(h)
    /\ \A s \in Saver :
          /\ \A h \in must[s] \cup seen[s] : Known(h)
          /\ pc[s] = "rename" => \A h \in must[s] : h \in seen[s] \/ Dropped(h)
    /\ Saving("uploader") => \A h \in marked : h \in must["uploader"] \/ Dropped(h)

\* A handle that nothing has happened to and that has no file any more.
Bare(h) == h \notin dlog /\ h \notin dispatched /\ Unhurt(h)

\* Where such a handle is to be found: in memory, among the keys a save that is
\* under way will visit, and in the registry file as soon as its file may go.
BareInv ==
    /\ \A h \in Handle : Bare(h) => h \in uploaded
    /\ \A s \in Saver : Saving(s) /\ s \notin spoilt =>
          \A h \in Handle : Bare(h) => h \in must[s]
    /\ pc["uploader"] = "saved" =>
          \A h \in marked : Unhurt(h) =>
             /\ Saving("monitor") /\ "monitor" \notin spoilt => h \in must["monitor"]
             /\ ~regSpoilt => h \in Loaded(reg) \cup dispatched

(* -------------------------------- Typing -------------------------------- *)

LEMMA HandleFacts ==
  /\ MaxHandle \in Nat /\ IsFiniteSet(Handle) /\ Cardinality(Handle) = MaxHandle
  /\ \A S \in SUBSET Handle : IsFiniteSet(S) /\ Cardinality(S) \in 0 .. MaxHandle
<1>1. MaxHandle \in Nat
  BY BoundsAssumption
<1>2. IsFiniteSet(Handle) /\ Cardinality(Handle) = MaxHandle
  BY <1>1, FS_Interval DEF Handle
<1>3. ASSUME NEW S \in SUBSET Handle PROVE IsFiniteSet(S) /\ Cardinality(S) \in 0 .. MaxHandle
  <2>1. IsFiniteSet(S) /\ Cardinality(S) <= Cardinality(Handle)
    BY <1>2, FS_Subset
  <2>2. Cardinality(S) \in Nat
    BY <2>1, FS_CardinalityType
  <2> QED BY <1>1, <1>2, <2>1, <2>2
<1> QED BY <1>1, <1>2, <1>3

LEMMA Grown ==
  ASSUME NEW S \in SUBSET Handle, NEW h \in Handle \ S
  PROVE  Cardinality(S \cup {h}) = Cardinality(S) + 1
BY HandleFacts, FS_AddElement

\* Field k is set; what lies between the end of the file and it is a hole.
LEMMA PutIs ==
  ASSUME NEW f \in Seq(Field), NEW k \in Nat \ {0}, NEW v \in Field
  PROVE  /\ Put(f, k, v) \in Seq(Field)
         /\ Len(Put(f, k, v)) = IF k > Len(f) THEN k ELSE Len(f)
         /\ Put(f, k, v)[k] = v
         /\ \A j \in 1 .. Len(f) : j # k => Put(f, k, v)[j] = f[j]
<1> DEFINE n == IF k > Len(f) THEN k ELSE Len(f)
           g == Put(f, k, v)
<1>1. n \in Nat /\ k \in 1 .. n /\ Len(f) \in Nat /\ Len(f) <= n
  OBVIOUS
<1>2. Hole \in Field
  BY BoundsAssumption DEF Hole, Field, None
<1>3. g = [j \in 1 .. n |-> IF j = k THEN v ELSE IF j <= Len(f) THEN f[j] ELSE Hole]
  BY DEF Put
<1>4. \A j \in 1 .. n : (IF j = k THEN v ELSE IF j <= Len(f) THEN f[j] ELSE Hole) \in Field
  <2>1. \A j \in 1 .. Len(f) : f[j] \in Field
    OBVIOUS
  <2> QED BY <1>1, <1>2, <2>1
<1> HIDE DEF g, n
<1>5. g \in [1 .. n -> Field]
  BY <1>3, <1>4
<1>6. g \in Seq(Field) /\ Len(g) = n
  BY <1>1, <1>5
<1>7. g[k] = v /\ \A j \in 1 .. Len(f) : j # k => g[j] = f[j]
  BY <1>1, <1>3
<1> QED BY <1>6, <1>7 DEF g, n

LEMMA FieldFacts ==
  ASSUME NEW x \in {"id", "times"}, NEW h \in 0 .. MaxHandle
  PROVE  <<x, h>> \in Field
BY DEF Field

LEMMA PutLength ==
  ASSUME NEW f \in Seq(Field), NEW k \in Nat \ {0}, NEW v \in Field, NEW m \in Nat,
         Len(f) <= m, k <= m
  PROVE  Put(f, k, v) \in Seq(Field) /\ Len(Put(f, k, v)) <= m
<1>1. /\ Put(f, k, v) \in Seq(Field)
      /\ Len(Put(f, k, v)) = IF k > Len(f) THEN k ELSE Len(f)
  BY PutIs
<1> QED BY <1>1

\* A write of a field puts it at the offset, or fails and spoils the file.
Done(s, x, h) ==
    /\ offset' = [offset EXCEPT ![s] = offset[s] + 1] /\ UNCHANGED spoilt
    /\ fd[s] = "tmp" => tmp' = Put(tmp, offset[s] + 1, <<x, h>>)

Failed(s) == spoilt' = spoilt \cup {s} /\ UNCHANGED <<tmp, reg, offset>>

LEMMA WriteIs ==
  ASSUME NEW s \in Saver, NEW x, NEW h, WriteField(s, x, h)
  PROVE  /\ Done(s, x, h) \/ Failed(s)
         /\ tmp' = tmp \/ tmp' = Put(tmp, offset[s] + 1, <<x, h>>)
         /\ reg' = reg \/ (fd[s] = "registry" /\ reg' = Put(reg, offset[s] + 1, <<x, h>>))
BY DEF WriteField, Done, Failed

LEMMA WriteType ==
  ASSUME TypeInv, NEW s \in Saver, NEW x \in {"id", "times"}, NEW h \in 0 .. MaxHandle,
         offset[s] + 1 <= 2 * MaxHandle, WriteField(s, x, h)
  PROVE  /\ tmp' \in Seq(Field) /\ reg' \in Seq(Field)
         /\ Len(tmp') <= 2 * MaxHandle /\ Len(reg') <= 2 * MaxHandle
         /\ offset' \in [Saver -> 0 .. 2 * MaxHandle] /\ spoilt' \subseteq Saver
         /\ \A u \in Saver : u # s => offset'[u] = offset[u]
         /\ offset'[s] <= offset[s] + 1
<1>1. /\ offset[s] + 1 \in Nat \ {0} /\ MaxHandle \in Nat /\ 2 * MaxHandle \in Nat
      /\ tmp \in Seq(Field) /\ reg \in Seq(Field)
      /\ Len(tmp) <= 2 * MaxHandle /\ Len(reg) <= 2 * MaxHandle
  BY BoundsAssumption DEF TypeInv, TypeOK
<1>2. <<x, h>> \in Field
  BY FieldFacts
<1>3. tmp' \in Seq(Field) /\ Len(tmp') <= 2 * MaxHandle
  <2>1. /\ Put(tmp, offset[s] + 1, <<x, h>>) \in Seq(Field)
        /\ Len(Put(tmp, offset[s] + 1, <<x, h>>)) <= 2 * MaxHandle
    BY <1>1, <1>2, PutLength
  <2> QED BY <1>1, <2>1, WriteIs
<1>4. reg' \in Seq(Field) /\ Len(reg') <= 2 * MaxHandle
  <2>1. /\ Put(reg, offset[s] + 1, <<x, h>>) \in Seq(Field)
        /\ Len(Put(reg, offset[s] + 1, <<x, h>>)) <= 2 * MaxHandle
    BY <1>1, <1>2, PutLength
  <2> QED BY <1>1, <2>1, WriteIs
<1>5. offset \in [Saver -> 0 .. 2 * MaxHandle] /\ spoilt \subseteq Saver
  BY DEF TypeInv, TypeOK
<1>6. /\ offset' \in [Saver -> 0 .. 2 * MaxHandle] /\ spoilt' \subseteq Saver
      /\ \A u \in Saver : u # s => offset'[u] = offset[u]
      /\ offset'[s] <= offset[s] + 1
  <2>1. CASE Done(s, x, h)
    <3>1. offset[s] + 1 \in 0 .. 2 * MaxHandle
      BY <1>1
    <3> QED BY <1>5, <2>1, <3>1 DEF Done
  <2>2. CASE Failed(s)
    BY <1>1, <1>5, <2>2 DEF Failed
  <2> QED BY <2>1, <2>2, WriteIs
<1> QED BY <1>3, <1>4, <1>6

LEMMA TypeInit == Init => TypeInv
<1> SUFFICES ASSUME Init PROVE TypeInv
  OBVIOUS
<1>1. MaxHandle \in Nat
  BY BoundsAssumption
<1>2. TypeOK
  <2>1. tmp \in Seq(Field) /\ reg \in Seq(Field) /\ Len(tmp) = 0 /\ Len(reg) = 0
    BY DEF Init
  <2>2. cur \in [Saver -> 0 .. MaxHandle] /\ offset \in [Saver -> 0 .. 2 * MaxHandle]
    BY <1>1 DEF Init, None
  <2>3. tmpExists \in BOOLEAN /\ regSpoilt \in BOOLEAN
    BY DEF Init
  <2>4. Len(tmp) <= 2 * MaxHandle /\ Len(reg) <= 2 * MaxHandle
    BY <1>1, <2>1
  <2> QED BY <2>1, <2>2, <2>3, <2>4 DEF Init, TypeOK
<1>3. OffsetInv
  BY FS_EmptySet DEF Init, OffsetInv
<1> QED BY <1>2, <1>3 DEF TypeInv

\* The steps that change none of the variables that a save is about.
LEMMA OffsetKept ==
  ASSUME TypeInv, UNCHANGED <<offset, seen, cur>>, \A s \in Saver : pc'[s] = "times" => pc[s] = "times"
  PROVE  OffsetInv'
<1> SUFFICES ASSUME NEW s \in Saver
             PROVE  /\ offset[s] + (IF pc'[s] = "times" THEN 1 ELSE 0) <= 2 * Cardinality(seen[s])
                    /\ pc'[s] = "times" => cur[s] \in seen[s]
  BY DEF OffsetInv
<1>1. offset[s] \in Nat /\ Cardinality(seen[s]) \in Nat
  BY HandleFacts DEF TypeInv, TypeOK
<1> QED BY <1>1 DEF TypeInv, OffsetInv

SaverPC == {"idle", "create", "range", "times", "rename", "saved"}

LEMMA TypeStep == TypeInv /\ [Next]_vars => TypeInv'
<1> SUFFICES ASSUME TypeInv, [Next]_vars PROVE TypeInv'
  OBVIOUS
<1> USE DEF TypeInv, memory, logs, save, files, history
<1>a. MaxHandle \in Nat
  BY BoundsAssumption
<1>b. pc \in [Saver -> SaverPC]
  BY DEF TypeOK, SaverPC
<1>c. ASSUME pc' \in [Saver -> SaverPC], \A s \in Saver : pc'[s] = "times" => pc[s] = "times",
             UNCHANGED <<must, seen, cur, offset, tmp, reg>>,
             complete' \subseteq Handle, uploaded' \subseteq Handle, late' \subseteq Handle,
             dlog' \subseteq Handle, aged' \subseteq Handle,
             fd' \in [Saver -> {"none", "tmp", "registry"}],
             tmpExists' \in BOOLEAN, marked' \subseteq Handle, dispatched' \subseteq Handle,
             spoilt' \subseteq Saver, regSpoilt' \in BOOLEAN, hurt' \subseteq Handle \X Cause
      PROVE  TypeInv'
  <2>1. OffsetInv'
    BY <1>c, OffsetKept
  <2> QED BY <1>c, <2>1 DEF TypeOK, SaverPC
<1>d. \A hs \in SUBSET Handle : \A cause \in Cause : Hurt(hs, cause) => hurt' \subseteq Handle \X Cause
  BY DEF Hurt, TypeOK
<1>1. CASE UNCHANGED vars
  BY <1>1, <1>b, <1>c DEF vars, TypeOK
<1>2. ASSUME NEW s \in Saver, Create(s) PROVE TypeInv'
  <2>1. CASE pc' = [pc EXCEPT ![s] = "saved"] /\ UNCHANGED <<fd, must, seen, offset, tmp, tmpExists, spoilt>>
             /\ Hurt(uploaded, "failed")
    <3>1. hurt' \subseteq Handle \X Cause
      BY <2>1, <1>d DEF TypeOK, Cause
    <3>2. pc' \in [Saver -> SaverPC] /\ \A u \in Saver : pc'[u] = "times" => pc[u] = "times"
      BY <2>1, <1>b DEF SaverPC
    <3> QED BY <1>2, <1>c, <2>1, <3>1, <3>2 DEF Create, TypeOK
  <2>2. CASE /\ tmp' = <<>> /\ tmpExists' = TRUE
             /\ fd' = [fd EXCEPT ![s] = "tmp"]
             /\ must' = [must EXCEPT ![s] = uploaded] /\ seen' = [seen EXCEPT ![s] = {}]
             /\ offset' = [offset EXCEPT ![s] = 0]
             /\ pc' = [pc EXCEPT ![s] = "range"]
             /\ spoilt' = IF Saving(Other(s)) THEN Saver ELSE spoilt \ {s}
             /\ hurt' = hurt
    <3>1. offset' \in [Saver -> 0 .. 2 * MaxHandle] /\ \A u \in Saver : offset'[u] = IF u = s THEN 0 ELSE offset[u]
      BY <2>2, <1>a DEF TypeOK
    <3>2. /\ seen' \in [Saver -> SUBSET Handle] /\ must' \in [Saver -> SUBSET Handle]
          /\ \A u \in Saver : seen'[u] = IF u = s THEN {} ELSE seen[u]
      BY <2>2 DEF TypeOK
    <3>3. /\ pc' \in [Saver -> SaverPC]
          /\ \A u \in Saver : pc'[u] = IF u = s THEN "range" ELSE pc[u]
      BY <2>2, <1>b DEF SaverPC
    <3>4. tmp' \in Seq(Field) /\ Len(tmp') <= 2 * MaxHandle
      BY <2>2, <1>a
    <3>5. TypeOK'
      BY <1>2, <2>2, <3>1, <3>2, <3>3, <3>4 DEF Create, TypeOK, SaverPC
    <3>6. cur' = cur
      BY <1>2 DEF Create
    <3>7. OffsetInv'
      <4> SUFFICES ASSUME NEW u \in Saver
                   PROVE  /\ offset'[u] + (IF pc'[u] = "times" THEN 1 ELSE 0) <= 2 * Cardinality(seen'[u])
                          /\ pc'[u] = "times" => cur'[u] \in seen'[u]
        BY DEF OffsetInv
      <4>1. CASE u = s
        <5>1. Cardinality(seen'[u]) = 0 /\ offset'[u] = 0 /\ pc'[u] = "range"
          BY <3>1, <3>2, <3>3, <4>1, FS_EmptySet
        <5> QED BY <5>1
      <4>2. CASE u # s
        BY <3>1, <3>2, <3>3, <3>6, <4>2 DEF OffsetInv
      <4> QED BY <4>1, <4>2
    <3> QED BY <3>5, <3>7
  <2> QED BY <1>2, <2>1, <2>2 DEF Create
<1>3. ASSUME NEW s \in Saver, Visit(s) PROVE TypeInv'
  <2>1. PICK h \in uploaded \ seen[s] :
           /\ seen' = [seen EXCEPT ![s] = @ \cup {h}]
           /\ \/ /\ h \in late
                 /\ UNCHANGED <<pc, cur, tmp, reg, offset, spoilt, count>>
              \/ /\ h \notin late
                 /\ WriteField(s, "id", h)
                 /\ cur' = [cur EXCEPT ![s] = h]
                 /\ pc' = [pc EXCEPT ![s] = "times"]
    BY <1>3 DEF Visit
  <2>2. h \in Handle /\ h \in 0 .. MaxHandle /\ h \notin seen[s]
    BY <1>a, <2>1 DEF TypeOK, Handle
  <2>3. Cardinality(seen[s] \cup {h}) = Cardinality(seen[s]) + 1
    BY <2>2, Grown DEF TypeOK
  <2>4. /\ offset[s] \in Nat /\ Cardinality(seen[s]) \in Nat
        /\ Cardinality(seen[s] \cup {h}) \in 0 .. MaxHandle
    BY <2>2, HandleFacts DEF TypeOK
  <2>5. offset[s] <= 2 * Cardinality(seen[s]) /\ pc[s] = "range"
    BY <1>3, <2>4 DEF OffsetInv, Visit
  <2>6. offset[s] + 1 <= 2 * MaxHandle
    BY <1>a, <2>3, <2>4, <2>5
  <2>7. /\ tmp' \in Seq(Field) /\ reg' \in Seq(Field)
        /\ Len(tmp') <= 2 * MaxHandle /\ Len(reg') <= 2 * MaxHandle
        /\ offset' \in [Saver -> 0 .. 2 * MaxHandle] /\ spoilt' \subseteq Saver
        /\ \A u \in Saver : u # s => offset'[u] = offset[u]
        /\ offset'[s] <= offset[s] + 1
    <3>1. CASE WriteField(s, "id", h)
      BY <2>2, <2>6, <3>1, WriteType
    <3>2. CASE UNCHANGED <<pc, cur, tmp, reg, offset, spoilt, count>>
      BY <2>4, <3>2 DEF TypeOK
    <3> QED BY <2>1, <3>1, <3>2
  <2>8. /\ seen' \in [Saver -> SUBSET Handle]
        /\ \A u \in Saver : seen'[u] = IF u = s THEN seen[s] \cup {h} ELSE seen[u]
    BY <2>1, <2>2 DEF TypeOK
  <2>9. /\ pc' \in [Saver -> SaverPC] /\ cur' \in [Saver -> 0 .. MaxHandle]
        /\ \A u \in Saver : u # s => pc'[u] = pc[u] /\ cur'[u] = cur[u]
        /\ pc'[s] = "times" => cur'[s] = h
    <3>1. CASE pc' = [pc EXCEPT ![s] = "times"] /\ cur' = [cur EXCEPT ![s] = h]
      BY <1>b, <2>2, <3>1 DEF TypeOK, SaverPC
    <3>2. CASE UNCHANGED <<pc, cur, tmp, reg, offset, spoilt, count>>
      BY <1>b, <2>5, <3>2 DEF TypeOK
    <3> QED BY <2>1, <3>1, <3>2
  <2>10. TypeOK'
    BY <1>3, <2>7, <2>8, <2>9 DEF Visit, TypeOK, SaverPC
  <2>12. OffsetInv'
    <3> SUFFICES ASSUME NEW u \in Saver
                 PROVE  /\ offset'[u] + (IF pc'[u] = "times" THEN 1 ELSE 0) <= 2 * Cardinality(seen'[u])
                        /\ pc'[u] = "times" => cur'[u] \in seen'[u]
      BY DEF OffsetInv
    <3>1. CASE u = s
      <4>1. offset'[u] \in Nat
        BY <2>7
      <4>2. offset'[u] + (IF pc'[u] = "times" THEN 1 ELSE 0) <= 2 * Cardinality(seen[s] \cup {h})
        BY <2>3, <2>4, <2>5, <2>7, <3>1, <4>1
      <4> QED BY <2>8, <2>9, <3>1, <4>2
    <3>2. CASE u # s
      BY <2>7, <2>8, <2>9, <3>2 DEF OffsetInv
    <3> QED BY <3>1, <3>2
  <2> QED BY <2>10, <2>12
<1>4. ASSUME NEW s \in Saver, WriteTimes(s) PROVE TypeInv'
  <2>1. /\ offset[s] \in Nat /\ Cardinality(seen[s]) \in 0 .. MaxHandle /\ cur[s] \in 0 .. MaxHandle
    BY HandleFacts DEF TypeOK
  <2>2. pc[s] = "times" /\ offset[s] + 1 <= 2 * Cardinality(seen[s])
    BY <1>4, <2>1 DEF WriteTimes, OffsetInv
  <2>3. offset[s] + 1 <= 2 * MaxHandle
    BY <1>a, <2>1, <2>2
  <2>4. /\ tmp' \in Seq(Field) /\ reg' \in Seq(Field)
        /\ Len(tmp') <= 2 * MaxHandle /\ Len(reg') <= 2 * MaxHandle
        /\ offset' \in [Saver -> 0 .. 2 * MaxHandle] /\ spoilt' \subseteq Saver
        /\ \A u \in Saver : u # s => offset'[u] = offset[u]
        /\ offset'[s] <= offset[s] + 1
    BY <1>4, <2>1, <2>3, WriteType DEF WriteTimes
  <2>6. /\ pc' \in [Saver -> SaverPC]
        /\ \A u \in Saver : pc'[u] = IF u = s THEN "range" ELSE pc[u]
    BY <1>4, <1>b DEF WriteTimes, SaverPC
  <2>7. /\ cur' \in [Saver -> 0 .. MaxHandle] /\ \A u \in Saver : u # s => cur'[u] = cur[u]
    BY <1>4, <1>a DEF WriteTimes, TypeOK, None
  <2>8. TypeOK'
    BY <1>4, <2>4, <2>6, <2>7 DEF WriteTimes, TypeOK, SaverPC
  <2>9. seen' = seen
    BY <1>4 DEF WriteTimes
  <2>10. OffsetInv'
    <3> SUFFICES ASSUME NEW u \in Saver
                 PROVE  /\ offset'[u] + (IF pc'[u] = "times" THEN 1 ELSE 0) <= 2 * Cardinality(seen[u])
                        /\ pc'[u] = "times" => cur'[u] \in seen[u]
      BY <2>9 DEF OffsetInv
    <3>1. CASE u = s
      <4>1. offset'[u] \in Nat
        BY <2>4
      <4> QED BY <2>1, <2>2, <2>4, <2>6, <3>1, <4>1
    <3>2. CASE u # s
      BY <2>4, <2>6, <2>7, <3>2 DEF OffsetInv
    <3> QED BY <3>1, <3>2
  <2> QED BY <2>8, <2>10
<1>5. ASSUME NEW s \in Saver, Sync(s) PROVE TypeInv'
  <2>1. hurt' \subseteq Handle \X Cause
    BY <1>5, <1>d DEF Sync, TypeOK, Cause
  <2>2. pc' \in [Saver -> SaverPC] /\ \A u \in Saver : pc'[u] = "times" => pc[u] = "times"
    BY <1>5, <1>b DEF Sync, SaverPC
  <2>3. fd' \in [Saver -> {"none", "tmp", "registry"}]
    BY <1>5 DEF Sync, TypeOK
  <2> QED BY <1>5, <1>c, <2>1, <2>2, <2>3 DEF Sync, TypeOK
<1>6. ASSUME NEW s \in Saver, Rename(s) PROVE TypeInv'
  <2>1. hurt' \subseteq Handle \X Cause
    BY <1>6, <1>d DEF Rename, TypeOK, Cause
  <2>2. pc' \in [Saver -> SaverPC] /\ \A u \in Saver : pc'[u] = "times" => pc[u] = "times"
    BY <1>6, <1>b DEF Rename, SaverPC
  <2>3. fd' \in [Saver -> {"none", "tmp", "registry"}]
    BY <1>6 DEF Rename, TypeOK
  <2>4. /\ tmp' \in Seq(Field) /\ reg' \in Seq(Field)
        /\ Len(tmp') <= 2 * MaxHandle /\ Len(reg') <= 2 * MaxHandle
    <3>1. \/ tmp' = tmp /\ reg' = reg
          \/ tmp' = <<>> /\ reg' = tmp
      BY <1>6 DEF Rename
    <3>2. <<>> \in Seq(Field) /\ Len(<<>>) <= 2 * MaxHandle
      BY <1>a
    <3> QED BY <3>1, <3>2 DEF TypeOK
  <2>5. tmpExists' \in BOOLEAN /\ regSpoilt' \in BOOLEAN
    <3>1. /\ tmpExists' = tmpExists \/ tmpExists' = FALSE
          /\ regSpoilt' = regSpoilt \/ regSpoilt' = (s \in spoilt)
      BY <1>6, Zenon DEF Rename
    <3>2. tmpExists \in BOOLEAN /\ regSpoilt \in BOOLEAN /\ (s \in spoilt) \in BOOLEAN
      BY DEF TypeOK
    <3> QED BY <3>1, <3>2, Zenon
  <2>6. UNCHANGED <<memory, late, logs, must, seen, cur, offset, marked, dispatched, spoilt>>
    BY <1>6 DEF Rename
  <2>7. TypeOK'
    BY <2>1, <2>2, <2>3, <2>4, <2>5, <2>6 DEF TypeOK, SaverPC
  <2>8. OffsetInv'
    BY <2>2, <2>6, OffsetKept
  <2> QED BY <2>7, <2>8
<1>7. CASE Mark
  <2>1. pc' \in [Saver -> SaverPC] /\ \A u \in Saver : pc'[u] = "times" => pc[u] = "times"
    BY <1>7, <1>b DEF Mark, SaverPC
  <2>2. complete' \subseteq Handle /\ uploaded' \subseteq Handle /\ marked' \subseteq Handle
    BY <1>7 DEF Mark, TypeOK
  <2> QED BY <1>7, <1>c, <2>1, <2>2 DEF Mark, TypeOK
<1>8. CASE RemoveFile
  <2>1. dlog' \subseteq Handle /\ aged' \subseteq Handle /\ marked' \subseteq Handle
    BY <1>8 DEF RemoveFile, TypeOK
  <2> QED BY <1>8, <1>b, <1>c, <2>1 DEF RemoveFile, TypeOK
<1>9. ASSUME NEW s \in Saver, SaveReturns(s) PROVE TypeInv'
  <2>1. pc' \in [Saver -> SaverPC] /\ \A u \in Saver : pc'[u] = "times" => pc[u] = "times"
    BY <1>9, <1>b DEF SaveReturns, SaverPC
  <2> QED BY <1>9, <1>c, <2>1 DEF SaveReturns, TypeOK
<1>10. CASE CleanupTick \/ DeletionTick
  <2>1. pc' \in [Saver -> SaverPC] /\ \A u \in Saver : pc'[u] = "times" => pc[u] = "times"
    BY <1>10, <1>b DEF CleanupTick, DeletionTick, SaverPC
  <2>2. dlog' \subseteq Handle /\ aged' \subseteq Handle /\ uploaded' \subseteq Handle
    BY <1>10 DEF CleanupTick, DeletionTick, TypeOK
  <2>3. hurt' \subseteq Handle \X Cause
    BY <1>10, <1>d DEF CleanupTick, DeletionTick, TypeOK, Cause
  <2>4. UNCHANGED <<complete, late, must, seen, cur, offset, fd, files, marked, dispatched, history>>
    BY <1>10 DEF CleanupTick, DeletionTick
  <2> QED BY <1>c, <2>1, <2>2, <2>3, <2>4 DEF TypeOK
<1>11. ASSUME NEW h \in Handle, Dispatch(h) \/ Age(h) \/ Expire(h) PROVE TypeInv'
  <2>1. late' \subseteq Handle /\ aged' \subseteq Handle /\ dispatched' \subseteq Handle
    BY <1>11 DEF Dispatch, Age, Expire, TypeOK
  <2>2. hurt' \subseteq Handle \X Cause
    BY <1>11, <1>d DEF Dispatch, Age, Expire, TypeOK, Cause
  <2>3. UNCHANGED <<complete, uploaded, dlog, save, files, marked, history>>
    BY <1>11 DEF Dispatch, Age, Expire
  <2> QED BY <1>b, <1>c, <2>1, <2>2, <2>3 DEF TypeOK
<1>12. CASE Crash
  <2>1. /\ pc' = [s \in Saver |-> "idle"] /\ fd' = [s \in Saver |-> "none"]
        /\ must' = [s \in Saver |-> {}] /\ seen' = [s \in Saver |-> {}]
        /\ cur' = [s \in Saver |-> None] /\ offset' = [s \in Saver |-> 0]
        /\ marked' = {} /\ spoilt' = {}
        /\ UNCHANGED <<late, logs, files, dispatched, regSpoilt>>
    BY <1>12 DEF Crash
  <2>2. complete' \subseteq Handle /\ uploaded' \subseteq Handle
    BY <1>12 DEF Crash, Restart, Loaded, TypeOK
  <2>3. hurt' \subseteq Handle \X Cause
    <3>1. "spoilt" \in Cause /\ Handle \ (dlog \cup Loaded(reg)) \in SUBSET Handle
      BY DEF Cause
    <3>2. Hurt(Handle \ (dlog \cup Loaded(reg)), "spoilt") \/ hurt' = hurt
      BY <1>12 DEF Crash
    <3> QED BY <1>d, <3>1, <3>2 DEF TypeOK
  <2>4. cur' \in [Saver -> 0 .. MaxHandle] /\ offset' \in [Saver -> 0 .. 2 * MaxHandle]
    BY <1>a, <2>1 DEF None
  <2>5. TypeOK'
    BY <2>1, <2>2, <2>3, <2>4 DEF TypeOK
  <2>6. OffsetInv'
    BY <2>1, FS_EmptySet DEF OffsetInv
  <2> QED BY <2>5, <2>6
<1>13. "monitor" \in Saver /\ "uploader" \in Saver
  BY DEF Saver
<1> QED BY <1>1, <1>2, <1>3, <1>4, <1>5, <1>6, <1>7, <1>8, <1>9, <1>10, <1>11, <1>12, <1>13
        DEF Next, Uploader, Monitor, Save

LEMMA TypeInvariant == Spec => []TypeInv
BY TypeInit, TypeStep, PTL DEF Spec

\* Every variable keeps its type, and neither file of the registry gets longer
\* than the records of the handles, for any number of handles, saves and faults.
THEOREM TypeCorrect == Spec => []TypeOK
<1>1. TypeInv => TypeOK
  BY DEF TypeInv
<1> QED BY <1>1, TypeInvariant, PTL

(* --------------------------- Savers that overlap ------------------------- *)

LEMMA Savers ==
  /\ "monitor" \in Saver /\ "uploader" \in Saver
  /\ \A s \in Saver : Other(s) \in Saver /\ Other(s) # s
  /\ \A s, u \in Saver : u = s \/ u = Other(s)
BY DEF Saver, Other

\* Every step, by what it does to the savers.
AtSame(u) == /\ pc[u] \in {"range", "times"} <=> pc'[u] \in {"range", "times"}
             /\ pc[u] = "rename" <=> pc'[u] = "rename"

Created(s) ==
    /\ pc[s] = "create" /\ tmp' = <<>> /\ tmpExists' = TRUE
    /\ fd' = [fd EXCEPT ![s] = "tmp"]
    /\ must' = [must EXCEPT ![s] = uploaded] /\ seen' = [seen EXCEPT ![s] = {}]
    /\ offset' = [offset EXCEPT ![s] = 0]
    /\ pc' = [pc EXCEPT ![s] = "range"]
    /\ spoilt' = IF Saving(Other(s)) THEN Saver ELSE spoilt \ {s}
    /\ UNCHANGED <<memory, late, logs, cur, reg, marked, dispatched, regSpoilt, hurt, count>>

Renamed(s) ==
    /\ pc[s] = "rename" /\ tmpExists
    /\ pc' = [pc EXCEPT ![s] = "saved"]
    /\ reg' = tmp /\ tmp' = <<>> /\ tmpExists' = FALSE
    /\ fd' = [u \in Saver |-> IF fd[u] = "tmp" THEN "registry" ELSE "none"]
    /\ regSpoilt' = (s \in spoilt)
    /\ hurt' = IF s \in spoilt THEN hurt ELSE hurt \ (seen[s] \X {"failed"})
    /\ UNCHANGED <<memory, late, logs, must, seen, cur, offset, marked, dispatched, spoilt>>

\* A save that is given up.
GivenUp(s) ==
    /\ pc[s] \in {"create", "range", "rename"} /\ pc' = [pc EXCEPT ![s] = "saved"]
    /\ fd' = IF pc[s] = "range" THEN [fd EXCEPT ![s] = "none"] ELSE fd
    /\ Hurt(uploaded, "failed") \/ (hurt' = hurt /\ ~tmpExists /\ pc[s] = "rename")
    /\ UNCHANGED <<memory, late, logs, must, seen, cur, offset, files, marked, dispatched, history>>

Synced(s) ==
    /\ pc[s] = "range" /\ must[s] \cap uploaded \subseteq seen[s]
    /\ pc' = [pc EXCEPT ![s] = "rename"] /\ fd' = [fd EXCEPT ![s] = "none"]
    /\ UNCHANGED <<memory, late, logs, must, seen, cur, offset, files, marked, dispatched, history,
                   hurt>>

\* A step that leaves the files and what the savers are about alone.
Aside ==
    /\ \A u \in Saver : AtSame(u) /\ (pc'[u] = "times" <=> pc[u] = "times")
    /\ late \subseteq late'
    /\ UNCHANGED <<must, seen, cur, offset, fd, files, history>>

AsideStep ==
    \/ UNCHANGED vars \/ Mark \/ RemoveFile \/ CleanupTick \/ DeletionTick
    \/ (\E s \in Saver : SaveReturns(s))
    \/ \E h \in Handle : Dispatch(h) \/ Age(h) \/ Expire(h)

LEMMA SaveSteps ==
  ASSUME NEW s \in Saver, Create(s) \/ Sync(s) \/ Rename(s)
  PROVE  Created(s) \/ Synced(s) \/ GivenUp(s) \/ Renamed(s)
<1> USE DEF files, history
<1>1. CASE Create(s)
  BY <1>1 DEF Create, Created, GivenUp
<1>2. CASE Sync(s)
  BY <1>2 DEF Sync, Synced, GivenUp
<1>3. CASE Rename(s)
  BY <1>3, Zenon DEF Rename, Renamed, GivenUp
<1> QED BY <1>1, <1>2, <1>3

LEMMA AsideSteps ==
  ASSUME TypeInv, AsideStep
  PROVE  Aside
<1> USE DEF Aside, AtSame, files, history
<1>a. pc \in [Saver -> SaverPC]
  BY DEF TypeInv, TypeOK, SaverPC
<1>1. CASE UNCHANGED vars
  BY <1>1 DEF vars, save
<1>2. CASE Mark \/ CleanupTick \/ DeletionTick
  BY <1>2, <1>a, Savers DEF Mark, CleanupTick, DeletionTick
<1>3. CASE RemoveFile
  BY <1>3 DEF RemoveFile, save
<1>4. ASSUME NEW s \in Saver, SaveReturns(s) PROVE Aside
  BY <1>4, <1>a DEF SaveReturns
<1>5. ASSUME NEW h \in Handle, Dispatch(h) \/ Age(h) \/ Expire(h) PROVE Aside
  BY <1>5 DEF Dispatch, Age, Expire, save
<1> QED BY <1>1, <1>2, <1>3, <1>4, <1>5 DEF AsideStep

\* Every step.
LEMMA Steps ==
  ASSUME TypeInv, [Next]_vars
  PROVE  \/ \E s \in Saver : \/ Created(s) \/ Visit(s) \/ WriteTimes(s) \/ Synced(s)
                             \/ GivenUp(s) \/ Renamed(s)
         \/ AsideStep /\ Aside
         \/ Crash
<1>1. \/ \E s \in Saver : \/ Created(s) \/ Visit(s) \/ WriteTimes(s) \/ Synced(s)
                         \/ GivenUp(s) \/ Renamed(s)
      \/ AsideStep
      \/ Crash
  BY SaveSteps, Savers DEF Next, Uploader, Monitor, Save, AsideStep
<1> QED BY <1>1, AsideSteps

\* A save that writes a field is spoilt by it or goes on as it was.
LEMMA WritesSpoil ==
  ASSUME NEW s \in Saver, Visit(s) \/ WriteTimes(s)
  PROVE  spoilt' = spoilt \/ spoilt' = spoilt \cup {s}
<1>1. ASSUME NEW x, NEW h, WriteField(s, x, h) PROVE spoilt' = spoilt \/ spoilt' = spoilt \cup {s}
  BY <1>1, WriteIs DEF Done, Failed
<1> QED BY <1>1 DEF Visit, WriteTimes

LEMMA MixStep ==
  ASSUME TypeInv, MixInv, [Next]_vars
  PROVE  MixInv'
<1>a. pc \in [Saver -> SaverPC] /\ DOMAIN fd = Saver /\ spoilt \subseteq Saver
  BY DEF TypeInv, TypeOK, SaverPC
<1>b. \A s \in Saver : Saving(s) /\ Saving(Other(s)) => spoilt = Saver
  BY DEF MixInv, Saver, Other
<1>c. (\A s \in Saver : Saving(s)' /\ Saving(Other(s))' => spoilt' = Saver) /\ (\A s \in Saver : MixOf(s)')
      => MixInv'
  BY DEF MixInv, Saver, Other
<1> USE DEF files, history
<1>1. ASSUME \A u \in Saver : AtSame(u), UNCHANGED <<fd, tmpExists, regSpoilt>>,
             spoilt \subseteq spoilt', spoilt' \subseteq Saver
      PROVE  MixInv'
  <2>1. \A u \in Saver : Saving(u)' <=> Saving(u)
    BY <1>1 DEF AtSame, Saving
  <2>2. \A u \in Saver : MixOf(u)'
    BY <1>1, <2>1 DEF MixInv, MixOf, AtSame
  <2>3. \A u \in Saver : Saving(u)' /\ Saving(Other(u))' => spoilt' = Saver
    BY <1>1, <1>b, <2>1, Savers
  <2> QED BY <1>c, <2>2, <2>3
<1>2. CASE Aside
  BY <1>1, <1>2, <1>a DEF Aside
<1>3. ASSUME NEW s \in Saver, Visit(s) \/ WriteTimes(s) PROVE MixInv'
  <2>1. \A u \in Saver : AtSame(u)
    BY <1>3, <1>a DEF Visit, WriteTimes, AtSame
  <2>2. UNCHANGED <<fd, tmpExists, regSpoilt>>
    BY <1>3 DEF Visit, WriteTimes
  <2> QED BY <1>1, <1>3, <1>a, <2>1, <2>2, WritesSpoil
<1>4. ASSUME NEW s \in Saver, Created(s) PROVE MixInv'
  <2>1. /\ pc'[s] = "range" /\ fd'[s] = "tmp" /\ Saving(s)' /\ tmpExists' /\ regSpoilt' = regSpoilt
        /\ ~Saving(s)
        /\ \A u \in Saver : u # s => pc'[u] = pc[u] /\ fd'[u] = fd[u] /\ (Saving(u)' <=> Saving(u))
    BY <1>4, <1>a DEF Created, Saving
  <2>2. \A u \in Saver : u # s /\ u \in spoilt => u \in spoilt'
    BY <1>4 DEF Created
  <2>3. \A u \in Saver : u # s /\ Saving(u) => spoilt' = Saver
    BY <1>4, Savers DEF Created
  <2>4. MixOf(s)'
    BY <2>1 DEF MixOf
  <2>5. ASSUME NEW u \in Saver, u # s PROVE MixOf(u)'
    <3>1. MixOf(u)
      BY DEF MixInv
    <3> QED BY <2>1, <2>2, <2>3, <2>5, <3>1 DEF MixOf
  <2> QED BY <1>c, <2>1, <2>3, <2>4, <2>5, Savers
<1>5. ASSUME NEW s \in Saver, Synced(s) \/ GivenUp(s) PROVE MixInv'
  <2>1. /\ UNCHANGED <<tmpExists, history>>
        /\ \A u \in Saver : u # s => pc'[u] = pc[u] /\ fd'[u] = fd[u]
        /\ pc'[s] \in {"rename", "saved"} /\ (pc'[s] = "rename" => pc[s] = "range")
        /\ fd'[s] = "none" \/ (fd'[s] = fd[s] /\ pc[s] \notin {"range", "times"})
    BY <1>5, <1>a DEF Synced, GivenUp
  <2>2. fd'[s] = "none"
    BY <2>1 DEF MixInv, MixOf
  <2>3. \A u \in Saver : Saving(u)' => Saving(u)
    BY <2>1 DEF Saving
  <2>4. MixOf(s)'
    <3>1. MixOf(s)
      BY DEF MixInv
    <3> QED BY <2>1, <2>2, <2>3, <3>1 DEF MixOf
  <2>5. ASSUME NEW u \in Saver, u # s PROVE MixOf(u)'
    <3>1. MixOf(u)
      BY DEF MixInv
    <3> QED BY <2>1, <2>3, <2>5, <3>1 DEF MixOf
  <2> QED BY <1>b, <1>c, <2>1, <2>3, <2>4, <2>5, Savers
<1>6. ASSUME NEW s \in Saver, Renamed(s) PROVE MixInv'
  <2>1. /\ pc'[s] = "saved" /\ pc[s] = "rename" /\ spoilt' = spoilt /\ ~tmpExists'
        /\ \A u \in Saver : u # s => pc'[u] = pc[u]
        /\ \A u \in Saver : fd'[u] = IF fd[u] = "tmp" THEN "registry" ELSE "none"
    BY <1>6, <1>a DEF Renamed
  <2>6. s \in spoilt => regSpoilt'
    BY <1>6, Zenon DEF Renamed
  <2>2. ~Saving(s)' /\ Saving(s) /\ \A u \in Saver : u # s => (Saving(u)' <=> Saving(u))
    BY <2>1 DEF Saving
  <2>3. \A u \in Saver : u # s /\ Saving(u) => spoilt = Saver
    BY <1>b, <2>2, Savers
  <2>4. MixOf(s)'
    <3>1. fd[s] = "none"
      BY <2>1 DEF MixInv, MixOf
    <3> QED BY <2>1, <2>2, <3>1 DEF MixOf
  <2>5. ASSUME NEW u \in Saver, u # s PROVE MixOf(u)'
    <3>1. MixOf(u)
      BY DEF MixInv
    <3>2. CASE Saving(u)
      BY <2>1, <2>2, <2>3, <2>5, <2>6, <3>1, <3>2 DEF MixOf
    <3>3. CASE ~Saving(u)
      <4>1. fd[u] = "none"
        BY <3>1, <3>3 DEF MixOf, Saving
      <4> QED BY <2>1, <2>2, <2>5, <3>3, <4>1 DEF MixOf
    <3> QED BY <3>2, <3>3
  <2> QED BY <1>c, <2>2, <2>4, <2>5, Savers
<1>7. CASE Crash
  <2>1. \A u \in Saver : pc'[u] = "idle" /\ fd'[u] = "none"
    BY <1>7 DEF Crash
  <2> QED BY <1>c, <2>1, Savers DEF MixOf, Saving
<1> QED BY <1>2, <1>3, <1>4, <1>5, <1>6, <1>7, Steps


(* -------------------------- Records of the registry ---------------------- *)

\* A step of one saver that needs it to be saving is not one of another saver
\* that has the .tmp file to itself.
LEMMA Solitary ==
  ASSUME MixInv, NEW s \in Saver, Saving(s), s \notin spoilt, NEW c \in Saver, Saving(c)
  PROVE  c = s
BY DEF MixInv, Saver

LEMMA RecordsKept ==
  ASSUME NEW s \in Saver, NEW n, Records(s, n), tmp' = tmp, offset'[s] = offset[s],
         seen'[s] = seen[s], cur'[s] = cur[s], pc'[s] = "times" <=> pc[s] = "times",
         late \subseteq late'
  PROVE  Records(s, n)'
BY DEF Records, Whole

\* What is written behind a record leaves it as it is.
LEMMA WholeKept ==
  ASSUME NEW f \in Seq(Field), NEW g \in Seq(Field), Len(f) <= Len(g),
         \A j \in 1 .. Len(f) : g[j] = f[j], NEW n \in Nat, 2 * n <= Len(f)
  PROVE  \A k \in 1 .. n : \A h : Whole(g, k, h) <=> Whole(f, k, h)
<1> SUFFICES ASSUME NEW k \in 1 .. n, NEW h PROVE Whole(g, k, h) <=> Whole(f, k, h)
  OBVIOUS
<1>1. Len(f) \in Nat /\ Len(g) \in Nat
  OBVIOUS
<1>2. /\ 2 * k <= Len(f) /\ 2 * k <= Len(g)
      /\ 2 * k \in 1 .. Len(f) /\ 2 * k - 1 \in 1 .. Len(f)
  BY <1>1
<1>3. g[2 * k] = f[2 * k] /\ g[2 * k - 1] = f[2 * k - 1]
  BY <1>2
<1> QED BY <1>2, <1>3 DEF Whole

LEMMA TmpStep ==
  ASSUME TypeInv, MixInv, TmpInv, [Next]_vars
  PROVE  TmpInv'
<1>a. /\ pc \in [Saver -> SaverPC] /\ offset \in [Saver -> 0 .. 2 * MaxHandle]
      /\ seen \in [Saver -> SUBSET Handle] /\ cur \in [Saver -> 0 .. MaxHandle]
      /\ tmp \in Seq(Field)
  BY DEF TypeInv, TypeOK, SaverPC
<1> USE DEF memory, logs, files, history
<1> SUFFICES ASSUME NEW s \in Saver, Saving(s)', s \notin spoilt'
             PROVE  \E n \in 0 .. MaxHandle : Records(s, n)'
  BY DEF TmpInv
<1>b. MaxHandle \in Nat /\ offset[s] \in Nat
  BY <1>a, BoundsAssumption
<1>1. CASE Aside
  <2>1. Saving(s) /\ s \notin spoilt
    BY <1>1 DEF Aside, AtSame, Saving
  <2>2. PICK n \in 0 .. MaxHandle : Records(s, n)
    BY <2>1 DEF TmpInv
  <2> QED BY <1>1, <2>2, RecordsKept DEF Aside
<1>2. CASE Crash
  BY <1>2 DEF Crash, Saving
<1>3. ASSUME NEW c \in Saver, Created(c) PROVE \E n \in 0 .. MaxHandle : Records(s, n)'
  <2>1. CASE c = s
    <3>1. /\ tmp' = <<>> /\ offset'[s] = 0 /\ seen'[s] = {} /\ pc'[s] = "range"
      BY <1>3, <1>a, <2>1 DEF Created
    <3>2. Len(tmp') = 0 /\ 1 .. 0 = {} /\ 2 * 0 = 0 /\ 0 \in 0 .. MaxHandle
      BY <1>b, <3>1
    <3>3. Records(s, 0)'
      BY <3>1, <3>2 DEF Records
    <3> QED BY <3>2, <3>3
  <2>2. CASE c # s
    <3>1. pc'[s] = pc[s]
      BY <1>3, <1>a, <2>2 DEF Created
    <3>2. Saving(Other(c))
      BY <2>2, <3>1, Savers DEF Saving
    <3> QED BY <1>3, <3>2 DEF Created
  <2> QED BY <2>1, <2>2
<1>4. ASSUME NEW c \in Saver, Visit(c) PROVE \E n \in 0 .. MaxHandle : Records(s, n)'
  <2>1. Saving(c) /\ pc[c] = "range" /\ s \notin spoilt
    BY <1>4, WritesSpoil DEF Visit, Saving
  <2>2. Saving(s)
    BY <1>4, <1>a DEF Visit, Saving
  <2>3. c = s
    BY <2>1, <2>2, Solitary
  <2>n. PICK n \in 0 .. MaxHandle : Records(s, n)
    BY <2>1, <2>2 DEF TmpInv
  <2>4. fd[s] = "tmp" /\ pc[s] = "range"
    BY <2>1, <2>2, <2>3 DEF MixInv, MixOf
  <2>5. PICK h \in uploaded \ seen[s] :
           /\ seen' = [seen EXCEPT ![s] = @ \cup {h}]
           /\ \/ /\ h \in late
                 /\ UNCHANGED <<pc, cur, tmp, reg, offset, spoilt, count>>
              \/ /\ h \notin late
                 /\ WriteField(s, "id", h)
                 /\ cur' = [cur EXCEPT ![s] = h]
                 /\ pc' = [pc EXCEPT ![s] = "times"]
    BY <1>4, <2>3 DEF Visit
  <2>6. late' = late /\ seen'[s] = seen[s] \cup {h}
    BY <1>4, <1>a, <2>5 DEF Visit
  <2>a. /\ n \in Nat /\ Len(tmp) = 2 * n /\ offset[s] = 2 * n
        /\ \A k \in 1 .. n : \E g \in seen[s] : Whole(tmp, k, g)
        /\ \A g \in seen[s] : \A j, k \in 1 .. n : Whole(tmp, j, g) /\ Whole(tmp, k, g) => j = k
        /\ \A g \in seen[s] : g \in late \/ \E k \in 1 .. n : Whole(tmp, k, g)
    BY <1>b, <2>4, <2>n DEF Records
  <2>b. \A k \in 1 .. n : ~Whole(tmp, k, h)
    <3> SUFFICES ASSUME NEW k \in 1 .. n, Whole(tmp, k, h) PROVE FALSE
      OBVIOUS
    <3>1. PICK g \in seen[s] : Whole(tmp, k, g)
      BY <2>a
    <3>2. <<"id", g>> = <<"id", h>>
      BY <3>1 DEF Whole
    <3> QED BY <2>5, <3>2
  <2>7. CASE UNCHANGED <<pc, cur, tmp, reg, offset, spoilt, count>> /\ h \in late
    <3>1. pc'[s] = "range" /\ Len(tmp') = offset'[s] /\ offset'[s] = 2 * n /\ tmp' = tmp
      BY <2>4, <2>7, <2>a
    <3>2. \A k \in 1 .. n : \E g \in seen'[s] : Whole(tmp', k, g)
      BY <2>6, <2>a, <3>1
    <3>3. \A g \in seen'[s] : \A j, k \in 1 .. n : Whole(tmp', j, g) /\ Whole(tmp', k, g) => j = k
      BY <2>6, <2>a, <2>b, <3>1
    <3>4. \A g \in seen'[s] : g \in late' \/ \E k \in 1 .. n : Whole(tmp', k, g)
      BY <2>6, <2>7, <2>a, <3>1
    <3>5. 2 * n + 0 = 2 * n
      BY <2>a
    <3>6. Records(s, n)'
      BY <3>1, <3>2, <3>3, <3>4, <3>5 DEF Records
    <3> QED BY <3>6
  <2>8. CASE /\ WriteField(s, "id", h) /\ cur' = [cur EXCEPT ![s] = h]
             /\ pc' = [pc EXCEPT ![s] = "times"]
    <3>1. cur'[s] = h /\ pc'[s] = "times"
      BY <1>a, <2>8
    <3>2. tmp' = Put(tmp, offset[s] + 1, <<"id", h>>) /\ offset'[s] = offset[s] + 1
      <4>1. Done(s, "id", h)
        BY <2>8, WriteIs DEF Failed
      <4> QED BY <1>a, <2>4, <4>1 DEF Done
    <3>3. <<"id", h>> \in Field /\ offset[s] + 1 \in Nat \ {0} /\ offset[s] + 1 > Len(tmp)
      <4>1. h \in 0 .. MaxHandle
        BY <1>b DEF TypeInv, TypeOK, Handle
      <4> QED BY <2>a, <4>1, FieldFacts
    <3>4. /\ tmp' \in Seq(Field) /\ Len(tmp') = offset[s] + 1
          /\ tmp'[offset[s] + 1] = <<"id", h>>
          /\ \A j \in 1 .. Len(tmp) : j # offset[s] + 1 => tmp'[j] = tmp[j]
      <4>1. /\ Put(tmp, offset[s] + 1, <<"id", h>>) \in Seq(Field)
            /\ Len(Put(tmp, offset[s] + 1, <<"id", h>>)) =
                  IF offset[s] + 1 > Len(tmp) THEN offset[s] + 1 ELSE Len(tmp)
            /\ Put(tmp, offset[s] + 1, <<"id", h>>)[offset[s] + 1] = <<"id", h>>
            /\ \A j \in 1 .. Len(tmp) :
                  j # offset[s] + 1 => Put(tmp, offset[s] + 1, <<"id", h>>)[j] = tmp[j]
        BY <1>a, <3>3, PutIs
      <4> QED BY <3>2, <3>3, <4>1
    <3>5. \A j \in 1 .. Len(tmp) : tmp'[j] = tmp[j]
      BY <2>a, <3>4
    <3>6. \A k \in 1 .. n : \A g : Whole(tmp', k, g) <=> Whole(tmp, k, g)
      <4>1. Len(tmp) <= Len(tmp') /\ 2 * n <= Len(tmp)
        BY <2>a, <3>4
      <4> QED BY <1>a, <2>a, <3>4, <3>5, <4>1, WholeKept
    <3>7. /\ Len(tmp') = offset'[s] /\ offset'[s] = 2 * n + 1 /\ tmp'[2 * n + 1] = <<"id", cur'[s]>>
      BY <2>a, <3>1, <3>2, <3>4
    <3>8. \A k \in 1 .. n : \E g \in seen'[s] : Whole(tmp', k, g)
      BY <2>6, <2>a, <3>6
    <3>9. \A g \in seen'[s] : \A j, k \in 1 .. n : Whole(tmp', j, g) /\ Whole(tmp', k, g) => j = k
      BY <2>6, <2>a, <2>b, <3>6
    <3>10. \A g \in seen'[s] : g \in late' \/ g = cur'[s] \/ \E k \in 1 .. n : Whole(tmp', k, g)
      BY <2>6, <2>a, <3>1, <3>6
    <3>11. \A k \in 1 .. n : ~Whole(tmp', k, cur'[s])
      BY <2>b, <3>1, <3>6
    <3>12. Records(s, n)'
      BY <3>1, <3>7, <3>8, <3>9, <3>10, <3>11 DEF Records
    <3> QED BY <3>12
  <2> QED BY <2>5, <2>7, <2>8
<1>5. ASSUME NEW c \in Saver, WriteTimes(c) PROVE \E n \in 0 .. MaxHandle : Records(s, n)'
  <2>1. Saving(c) /\ pc[c] = "times" /\ s \notin spoilt
    BY <1>5, WritesSpoil DEF WriteTimes, Saving
  <2>2. Saving(s)
    BY <1>5, <1>a DEF WriteTimes, Saving
  <2>3. c = s
    BY <2>1, <2>2, Solitary
  <2>n. PICK n \in 0 .. MaxHandle : Records(s, n)
    BY <2>1, <2>2 DEF TmpInv
  <2>4. fd[s] = "tmp" /\ pc[s] = "times"
    BY <2>1, <2>2, <2>3 DEF MixInv, MixOf
  <2> DEFINE h == cur[s]
             m == n + 1
  <2>a. /\ n \in Nat /\ Len(tmp) = 2 * n + 1 /\ offset[s] = 2 * n + 1
        /\ \A k \in 1 .. n : \E g \in seen[s] : Whole(tmp, k, g)
        /\ \A g \in seen[s] : \A j, k \in 1 .. n : Whole(tmp, j, g) /\ Whole(tmp, k, g) => j = k
        /\ \A g \in seen[s] : g \in late \/ g = h \/ \E k \in 1 .. n : Whole(tmp, k, g)
        /\ tmp[2 * n + 1] = <<"id", h>> /\ \A k \in 1 .. n : ~Whole(tmp, k, h)
    BY <1>b, <2>4, <2>n DEF Records
  <2>5. h \in seen[s] /\ h \in 0 .. MaxHandle
    BY <1>a, <2>4 DEF TypeInv, OffsetInv
  <2>6. pc'[s] = "range" /\ seen' = seen /\ late' = late
    BY <1>5, <1>a, <2>3 DEF WriteTimes
  <2>7. tmp' = Put(tmp, offset[s] + 1, <<"times", h>>) /\ offset'[s] = offset[s] + 1
    <3>1. WriteField(s, "times", h)
      BY <1>5, <2>3 DEF WriteTimes
    <3>2. Done(s, "times", h)
      BY <3>1, WriteIs DEF Failed
    <3> QED BY <1>a, <2>4, <3>2 DEF Done
  <2>8. m \in 0 .. MaxHandle /\ m \in Nat /\ 2 * m = 2 * n + 2 /\ offset'[s] = 2 * m
    <3>1. offset'[s] <= 2 * MaxHandle
      BY TypeStep DEF TypeInv, TypeOK
    <3> QED BY <1>b, <2>7, <2>a, <3>1
  <2>9. <<"times", h>> \in Field /\ offset[s] + 1 \in Nat \ {0} /\ offset[s] + 1 > Len(tmp)
    BY <2>5, <2>a, FieldFacts
  <2>10. /\ tmp' \in Seq(Field) /\ Len(tmp') = offset[s] + 1
         /\ tmp'[offset[s] + 1] = <<"times", h>>
         /\ \A j \in 1 .. Len(tmp) : j # offset[s] + 1 => tmp'[j] = tmp[j]
    <3>1. /\ Put(tmp, offset[s] + 1, <<"times", h>>) \in Seq(Field)
          /\ Len(Put(tmp, offset[s] + 1, <<"times", h>>)) =
                IF offset[s] + 1 > Len(tmp) THEN offset[s] + 1 ELSE Len(tmp)
          /\ Put(tmp, offset[s] + 1, <<"times", h>>)[offset[s] + 1] = <<"times", h>>
          /\ \A j \in 1 .. Len(tmp) :
                j # offset[s] + 1 => Put(tmp, offset[s] + 1, <<"times", h>>)[j] = tmp[j]
      BY <1>a, <2>9, PutIs
    <3> QED BY <2>7, <2>9, <3>1
  <2>11. \A j \in 1 .. Len(tmp) : tmp'[j] = tmp[j]
    BY <2>a, <2>10
  <2>12. \A k \in 1 .. n : \A g : Whole(tmp', k, g) <=> Whole(tmp, k, g)
    <3>1. Len(tmp) <= Len(tmp') /\ 2 * n <= Len(tmp)
      BY <2>a, <2>10
    <3> QED BY <1>a, <2>a, <2>10, <2>11, <3>1, WholeKept
  <2>13. Whole(tmp', m, h)
    <3>1. 2 * m - 1 = 2 * n + 1 /\ 2 * m = offset[s] + 1 /\ 2 * n + 1 \in 1 .. Len(tmp)
      BY <2>8, <2>a
    <3>2. tmp'[2 * m - 1] = <<"id", h>>
      BY <2>11, <2>a, <3>1
    <3>3. tmp'[2 * m] = <<"times", h>> /\ 2 * m <= Len(tmp')
      BY <2>10, <2>8, <3>1
    <3> HIDE DEF m, h
    <3> QED BY <3>2, <3>3 DEF Whole
  <2>14. \A g : Whole(tmp', m, g) => g = h
    <3> SUFFICES ASSUME NEW g, Whole(tmp', m, g) PROVE g = h
      OBVIOUS
    <3>1. <<"id", g>> = <<"id", h>>
      BY <2>13 DEF Whole
    <3> QED BY <3>1
  <2>15. 1 .. m = (1 .. n) \cup {m} /\ m \notin 1 .. n
    BY <2>8, <2>a
  <2> HIDE DEF m, h
  <2>16. \A k \in 1 .. m : \E g \in seen'[s] : Whole(tmp', k, g)
    BY <2>5, <2>6, <2>a, <2>12, <2>13, <2>15
  <2>17. \A g \in seen'[s] : \A j, k \in 1 .. m : Whole(tmp', j, g) /\ Whole(tmp', k, g) => j = k
    BY <2>6, <2>a, <2>12, <2>14, <2>15
  <2>18. \A g \in seen'[s] : g \in late' \/ \E k \in 1 .. m : Whole(tmp', k, g)
    BY <2>6, <2>a, <2>12, <2>13, <2>15
  <2>19. Len(tmp') = offset'[s] /\ offset'[s] = 2 * m + 0
    BY <2>7, <2>8, <2>10
  <2>20. Records(s, m)'
    BY <2>6, <2>16, <2>17, <2>18, <2>19 DEF Records
  <2> QED BY <2>8, <2>20
<1>6. ASSUME NEW c \in Saver, Synced(c) PROVE \E n \in 0 .. MaxHandle : Records(s, n)'
  <2>1. spoilt' = spoilt /\ Saving(c) /\ pc[c] = "range"
    BY <1>6 DEF Synced, Saving
  <2>2. Saving(s)
    BY <1>6, <1>a DEF Synced, Saving
  <2>3. c = s /\ s \notin spoilt
    BY <2>1, <2>2, Solitary
  <2>n. PICK n \in 0 .. MaxHandle : Records(s, n)
    BY <2>2, <2>3 DEF TmpInv
  <2>4. pc'[s] = "rename" /\ pc[s] = "range"
    BY <1>6, <1>a, <2>1, <2>3 DEF Synced
  <2>5. UNCHANGED <<tmp, offset, seen, cur, late>>
    BY <1>6 DEF Synced
  <2> QED BY <2>n, <2>4, <2>5, RecordsKept
<1>7. ASSUME NEW c \in Saver, GivenUp(c) PROVE \E n \in 0 .. MaxHandle : Records(s, n)'
  <2>1. UNCHANGED <<tmp, offset, seen, cur, late, spoilt>> /\ pc'[c] = "saved"
    BY <1>7, <1>a DEF GivenUp
  <2>2. c # s
    BY <2>1 DEF Saving
  <2>3. pc'[s] = pc[s]
    BY <1>7, <1>a, <2>2 DEF GivenUp
  <2>4. PICK n \in 0 .. MaxHandle : Records(s, n)
    BY <2>1, <2>3 DEF TmpInv, Saving
  <2> QED BY <2>1, <2>3, <2>4, RecordsKept
<1>8. ASSUME NEW c \in Saver, Renamed(c) PROVE \E n \in 0 .. MaxHandle : Records(s, n)'
  <2>1. spoilt' = spoilt /\ Saving(c) /\ pc'[c] = "saved"
    BY <1>8, <1>a DEF Renamed, Saving
  <2>2. Saving(s)
    BY <1>8, <1>a DEF Renamed, Saving
  <2>3. c = s
    BY <2>1, <2>2, Solitary
  <2> QED BY <2>1, <2>3 DEF Saving
<1> QED BY <1>1, <1>2, <1>3, <1>4, <1>5, <1>6, <1>7, <1>8, Steps

\* What becomes the registry file when the saver has had its .tmp file to itself
\* and no write has failed.
LEMMA RenamedWhole ==
  ASSUME TypeInv, MixInv, TmpInv, NEW s \in Saver, Renamed(s), s \notin spoilt
  PROVE  \E n \in 0 .. MaxHandle :
            /\ Len(tmp) = 2 * n
            /\ \A k \in 1 .. n : \E h \in Handle : Whole(tmp, k, h)
            /\ \A h \in Handle : \A j, k \in 1 .. n : Whole(tmp, j, h) /\ Whole(tmp, k, h) => j = k
            /\ \A h \in seen[s] : h \in late \/ \E k \in 1 .. n : Whole(tmp, k, h)
<1>1. pc[s] = "rename" /\ Saving(s)
  BY DEF Renamed, Saving
<1>2. PICK n \in 0 .. MaxHandle : Records(s, n)
  BY <1>1 DEF TmpInv
<1>3. seen[s] \subseteq Handle /\ n \in Nat
  BY BoundsAssumption DEF TypeInv, TypeOK
<1>4. /\ Len(tmp) = 2 * n
      /\ \A k \in 1 .. n : \E h \in seen[s] : Whole(tmp, k, h)
      /\ \A h \in seen[s] : \A j, k \in 1 .. n : Whole(tmp, j, h) /\ Whole(tmp, k, h) => j = k
      /\ \A h \in seen[s] : h \in late \/ \E k \in 1 .. n : Whole(tmp, k, h)
  BY <1>1, <1>2, <1>3 DEF Records
<1>5. ASSUME NEW h \in Handle, NEW j \in 1 .. n, NEW k \in 1 .. n, Whole(tmp, j, h), Whole(tmp, k, h)
      PROVE  j = k
  <2>1. PICK g \in seen[s] : Whole(tmp, j, g)
    BY <1>4
  <2>2. <<"id", g>> = <<"id", h>>
    BY <1>5, <2>1 DEF Whole
  <2>3. g = h
    BY <2>2
  <2> QED BY <1>4, <1>5, <2>3
<1> QED BY <1>3, <1>4, <1>5

\* The registry file is replaced by a rename, and written otherwise only when
\* it has been spoilt before.
LEMMA RegSteps ==
  ASSUME TypeInv, MixInv, [Next]_vars
  PROVE  \/ reg' = reg /\ regSpoilt' = regSpoilt
         \/ \E s \in Saver : Renamed(s)
         \/ regSpoilt /\ regSpoilt' = regSpoilt
<1> USE DEF files, history
<1>1. CASE Aside \/ Crash \/ \E s \in Saver : Created(s) \/ Synced(s) \/ GivenUp(s)
  BY <1>1 DEF Aside, Crash, Created, Synced, GivenUp
<1>2. ASSUME NEW s \in Saver, Visit(s) \/ WriteTimes(s)
      PROVE  regSpoilt' = regSpoilt /\ (reg' = reg \/ regSpoilt)
  <2>1. ASSUME NEW x, NEW h, WriteField(s, x, h) PROVE reg' = reg \/ fd[s] = "registry"
    BY <2>1, WriteIs
  <2>2. regSpoilt' = regSpoilt /\ (reg' = reg \/ fd[s] = "registry")
    BY <1>2, <2>1 DEF Visit, WriteTimes
  <2> QED BY <2>2 DEF MixInv, MixOf
<1> QED BY <1>1, <1>2, Steps

LEMMA SoundStep ==
  ASSUME TypeInv, MixInv, TmpInv, RegistrySound, [Next]_vars
  PROVE  RegistrySound'
<1>1. CASE reg' = reg /\ regSpoilt' = regSpoilt
  BY <1>1 DEF RegistrySound
<1>2. CASE regSpoilt /\ regSpoilt' = regSpoilt
  BY <1>2 DEF RegistrySound
<1>3. ASSUME NEW s \in Saver, Renamed(s), s \in spoilt PROVE RegistrySound'
  <2>1. regSpoilt'
    BY <1>3, Zenon DEF Renamed
  <2> QED BY <2>1 DEF RegistrySound
<1>4. ASSUME NEW s \in Saver, Renamed(s), s \notin spoilt PROVE RegistrySound'
  <2>1. reg' = tmp
    BY <1>4 DEF Renamed
  <2>2. \E n \in 0 .. MaxHandle :
           /\ Len(tmp) = 2 * n
           /\ \A k \in 1 .. n : \E h \in Handle : Whole(tmp, k, h)
           /\ \A h \in Handle : \A j, k \in 1 .. n : Whole(tmp, j, h) /\ Whole(tmp, k, h) => j = k
    BY <1>4, RenamedWhole
  <2> QED BY <2>1, <2>2 DEF RegistrySound, Whole
<1> QED BY <1>1, <1>2, <1>3, <1>4, RegSteps

LEMMA RecordsInvariant == Spec => [](MixInv /\ TmpInv /\ RegistrySound)
<1>1. Init => MixInv /\ TmpInv
  <2> SUFFICES ASSUME Init PROVE MixInv /\ TmpInv
    OBVIOUS
  <2>1. \A s \in Saver : fd[s] = "none" /\ ~Saving(s)
    BY DEF Init, Saving
  <2> QED BY <2>1, Savers DEF MixInv, MixOf, TmpInv
<1>2. Init => RegistrySound
  <2> SUFFICES ASSUME Init PROVE RegistrySound
    OBVIOUS
  <2>1. /\ Len(reg) = 2 * 0 /\ 1 .. 0 = {} /\ 0 \in 0 .. MaxHandle
    BY BoundsAssumption DEF Init
  <2> QED BY <2>1 DEF RegistrySound
<1>3. TypeInv /\ MixInv /\ TmpInv /\ RegistrySound /\ [Next]_vars
      => MixInv' /\ TmpInv' /\ RegistrySound'
  BY MixStep, TmpStep, SoundStep
<1> QED BY <1>1, <1>2, <1>3, TypeInvariant, PTL DEF Spec

\* Whenever the program crashes, whatever entries are marked, expire or are deleted
\* meanwhile, and whichever of Create, Sync, Rename and Remove fail, the registry
\* file consists of whole records, one for a handle.  Two things spoil it, and only
\* these: two saves at once, and a field whose write failed.
THEOREM RegistryIsSound == Spec => []RegistrySound
BY RecordsInvariant, PTL

(* ----------------------- Keys that are not forgotten --------------------- *)

\* What has happened to a handle stays on record, save that a save makes up for
\* the failed ones before it.
LEMMA HurtSteps ==
  ASSUME TypeInv, [Next]_vars
  PROVE  \/ hurt \subseteq hurt'
         \/ \E c \in Saver : Renamed(c) /\ c \notin spoilt /\ hurt' = hurt \ (seen[c] \X {"failed"})
<1> USE DEF Hurt
<1>1. ASSUME NEW s \in Saver, Created(s) \/ Visit(s) \/ WriteTimes(s) \/ Synced(s) \/ GivenUp(s)
      PROVE  hurt \subseteq hurt'
  BY <1>1 DEF Created, Visit, WriteTimes, Synced, GivenUp
<1>2. ASSUME NEW s \in Saver, Renamed(s)
      PROVE  hurt' = hurt \/ (s \notin spoilt /\ hurt' = hurt \ (seen[s] \X {"failed"}))
  BY <1>2 DEF Renamed
<1>3. CASE AsideStep
  BY <1>3 DEF AsideStep, vars, Mark, RemoveFile, CleanupTick, DeletionTick, SaveReturns, Dispatch,
              Age, Expire
<1>4. CASE Crash
  BY <1>4 DEF Crash
<1> QED BY <1>1, <1>2, <1>3, <1>4, Steps

LEMMA DroppedStays ==
  ASSUME TypeInv, [Next]_vars, NEW h
  PROVE  /\ <<h, "expired">> \in hurt => <<h, "expired">> \in hurt'
         /\ Dropped(h) => Dropped(h)'
<1>1. \A cause \in {"spoilt", "deleted", "expired"} : <<h, cause>> \in hurt => <<h, cause>> \in hurt'
  BY HurtSteps
<1> QED BY <1>1 DEF Dropped

\* A handle that the registry in memory has is there until it is dropped or the
\* program crashes.
LEMMA KnownStays ==
  ASSUME TypeInv, KeyInv, [Next]_vars, NEW h, Known(h)
  PROVE  Known(h)' \/ Crash
<1>1. CASE Dropped(h)
  BY <1>1, DroppedStays DEF Known
<1>2. CASE h \in uploaded
  <2> USE DEF memory
  <2>1. ASSUME NEW s \in Saver,
               \/ Created(s) \/ Visit(s) \/ WriteTimes(s) \/ Synced(s) \/ GivenUp(s) \/ Renamed(s)
        PROVE  uploaded' = uploaded
    BY <2>1 DEF Created, Visit, WriteTimes, Synced, GivenUp, Renamed
  <2>2. CASE DeletionTick
    <3>1. PICK old \in SUBSET (uploaded \cap dlog \cap aged) :
             uploaded' = uploaded \ (old \cup late) /\ Hurt(old, "deleted")
      BY <2>2 DEF DeletionTick
    <3>2. CASE h \in old
      BY <3>1, <3>2 DEF Hurt, Known, Dropped
    <3>3. CASE h \in late
      <4>1. <<h, "expired">> \in hurt'
        BY <3>3, DroppedStays DEF KeyInv
      <4> QED BY <4>1 DEF Known, Dropped
    <3> QED BY <1>2, <3>1, <3>2, <3>3 DEF Known
  <2>3. CASE AsideStep /\ ~DeletionTick
    BY <1>2, <2>3 DEF AsideStep, vars, Mark, RemoveFile, CleanupTick, SaveReturns, Dispatch, Age,
                      Expire, Known
  <2> QED BY <1>2, <2>1, <2>2, <2>3, Steps DEF Known
<1> QED BY <1>1, <1>2 DEF Known

LEMMA MarkedSteps ==
  ASSUME AsideStep
  PROVE  /\ Mark \/ marked' \subseteq marked
         /\ Mark => marked' \subseteq uploaded' /\ pc["uploader"] = "idle" /\ pc' = [pc EXCEPT !["uploader"] = "create"]
         /\ \A h \in late' : h \in late \/ <<h, "expired">> \in hurt'
<1>1. CASE Mark
  BY <1>1 DEF Mark
<1>2. CASE ~Mark
  <2>1. marked' \subseteq marked
    BY <1>2 DEF AsideStep, vars, RemoveFile, CleanupTick, DeletionTick, SaveReturns, Dispatch, Age,
                Expire
  <2>2. \A h \in late' : h \in late \/ <<h, "expired">> \in hurt'
    BY <1>2 DEF AsideStep, vars, RemoveFile, CleanupTick, DeletionTick, SaveReturns, Dispatch, Age,
                Expire, Hurt
  <2> QED BY <1>2, <2>1, <2>2
<1> QED BY <1>1, <1>2

LEMMA KeyStep ==
  ASSUME TypeInv, KeyInv, [Next]_vars
  PROVE  KeyInv'
<1>a. /\ pc \in [Saver -> SaverPC] /\ DOMAIN must = Saver /\ DOMAIN seen = Saver
  BY DEF TypeInv, TypeOK, SaverPC
<1>b. \A h : (Dropped(h) => Dropped(h)') /\ (<<h, "expired">> \in hurt => <<h, "expired">> \in hurt')
  BY DroppedStays
<1>c. ~Crash => \A h : Known(h) => Known(h)'
  BY KnownStays
<1>d. "uploader" \in Saver
  BY Savers
<1> USE DEF memory, files, history
<1>1. CASE Crash
  <2>1. /\ \A s \in Saver : pc'[s] = "idle" /\ must'[s] = {} /\ seen'[s] = {}
        /\ marked' = {} /\ late' = late
    BY <1>1 DEF Crash
  <2> QED BY <1>b, <1>d, <2>1 DEF KeyInv, Saving
<1>2. CASE AsideStep /\ Aside /\ ~Crash
  <2>1. \A s \in Saver : /\ must'[s] = must[s] /\ seen'[s] = seen[s]
                         /\ pc'[s] = "rename" <=> pc[s] = "rename"
                         /\ Saving(s)' => Saving(s)
    BY <1>2 DEF Aside, AtSame, Saving
  <2>2. \A h \in late' : <<h, "expired">> \in hurt'
    BY <1>b, <1>2, MarkedSteps DEF KeyInv
  <2>3. \A h \in marked' : Known(h)'
    BY <1>c, <1>2, MarkedSteps DEF KeyInv, Known
  <2>4. Saving("uploader")' => \A h \in marked' : h \in must'["uploader"] \/ Dropped(h)'
    <3>1. Saving("uploader")' => marked' \subseteq marked
      BY <1>a, <1>d, <1>2, MarkedSteps DEF Saving
    <3> QED BY <1>b, <1>d, <2>1, <3>1 DEF KeyInv
  <2>5. \A s \in Saver :
           /\ \A h \in must'[s] \cup seen'[s] : Known(h)'
           /\ pc'[s] = "rename" => \A h \in must'[s] : h \in seen'[s] \/ Dropped(h)'
    BY <1>b, <1>c, <1>2, <2>1 DEF KeyInv
  <2> QED BY <2>2, <2>3, <2>4, <2>5 DEF KeyInv
<1>3. ASSUME NEW c \in Saver, ~Crash,
             \/ Created(c) \/ Visit(c) \/ WriteTimes(c) \/ Synced(c) \/ GivenUp(c) \/ Renamed(c)
      PROVE  KeyInv'
  <2>1. late' = late /\ marked' = marked /\ uploaded' = uploaded
    BY <1>3 DEF Created, Visit, WriteTimes, Synced, GivenUp, Renamed
  <2>2. /\ \A s \in Saver : must'[s] = must[s] \/ (s = c /\ must'[s] = uploaded)
        /\ \A s \in Saver : \A h \in seen'[s] : h \in seen[s] \/ h \in uploaded
    BY <1>3, <1>a DEF Created, Visit, WriteTimes, Synced, GivenUp, Renamed
  <2>3. \A s \in Saver : \A h \in must'[s] \cup seen'[s] : Known(h)'
    BY <1>c, <1>3, <2>1, <2>2 DEF KeyInv, Known
  <2>4. ASSUME NEW s \in Saver, pc'[s] = "rename", NEW h \in must'[s]
        PROVE  h \in seen'[s] \/ Dropped(h)'
    <3>1. CASE pc[s] = "rename"
      <4>1. CASE Created(c) \/ Visit(c)
        <5>1. c # s
          BY <4>1, <3>1 DEF Created, Visit
        <5>2. must'[s] = must[s] /\ seen'[s] = seen[s]
          BY <1>a, <4>1, <5>1 DEF Created, Visit
        <5> QED BY <1>b, <2>4, <3>1, <5>2 DEF KeyInv
      <4>2. CASE WriteTimes(c) \/ Synced(c) \/ GivenUp(c) \/ Renamed(c)
        <5>1. must' = must /\ seen' = seen
          BY <4>2 DEF WriteTimes, Synced, GivenUp, Renamed
        <5> QED BY <1>b, <2>4, <3>1, <5>1 DEF KeyInv
      <4> QED BY <1>3, <4>1, <4>2
    <3>2. CASE pc[s] # "rename"
      <4>1. Synced(c) /\ s = c
        BY <1>3, <1>a, <2>4, <3>2 DEF Created, Visit, WriteTimes, Synced, GivenUp, Renamed
      <4>2. must' = must /\ seen' = seen /\ must[s] \cap uploaded \subseteq seen[s]
        BY <4>1 DEF Synced
      <4>3. Known(h)
        BY <2>4, <4>2 DEF KeyInv
      <4> QED BY <1>b, <2>4, <4>2, <4>3 DEF Known
    <3> QED BY <3>1, <3>2
  <2>5. ASSUME Saving("uploader")', NEW h \in marked
        PROVE  h \in must'["uploader"] \/ Dropped(h)'
    <3>1. Known(h)
      BY DEF KeyInv
    <3>2. CASE Saving("uploader") /\ must'["uploader"] = must["uploader"]
      BY <1>b, <3>2 DEF KeyInv
    <3>3. CASE must'["uploader"] = uploaded
      BY <1>b, <3>1, <3>3 DEF Known
    <3>4. CASE ~Saving("uploader")
      <4>1. Created("uploader")
        BY <1>3, <1>a, <1>d, <2>5, <3>4 DEF Created, Visit, WriteTimes, Synced, GivenUp,
           Renamed, Saving
      <4>2. must'["uploader"] = uploaded
        BY <1>a, <1>d, <4>1 DEF Created
      <4> QED BY <3>3, <4>2
    <3> QED BY <1>d, <2>2, <3>2, <3>3, <3>4
  <2>6. \A h \in late : <<h, "expired">> \in hurt'
    BY <1>b DEF KeyInv
  <2>7. \A h \in marked : Known(h)'
    BY <1>c, <1>3 DEF KeyInv
  <2> QED BY <2>1, <2>3, <2>4, <2>5, <2>6, <2>7 DEF KeyInv
<1> QED BY <1>1, <1>2, <1>3, Steps

(* -------------------------- Handles without a file ----------------------- *)

LEMMA UnhurtIs ==
  ASSUME NEW h
  PROVE  /\ Unhurt(h) => ~Dropped(h) /\ <<h, "expired">> \notin hurt /\ <<h, "failed">> \notin hurt
         /\ Unhurt(h)' => ~Dropped(h)' /\ <<h, "expired">> \notin hurt' /\ <<h, "failed">> \notin hurt'
BY DEF Unhurt, Dropped, Cause

\* A handle is without a file and unhurt because it was so before, because the
\* uploader has removed its file, or because a save has made up for a failed one.
LEMMA BareSteps ==
  ASSUME TypeInv, [Next]_vars, NEW h
  PROVE  /\ Unhurt(h)' => \/ Unhurt(h)
                          \/ \E c \in Saver : Renamed(c) /\ c \notin spoilt /\ h \in seen[c]
         /\ Bare(h)' => \/ Bare(h)
                        \/ RemoveFile /\ h \in marked /\ Unhurt(h)
                        \/ \E c \in Saver : Renamed(c) /\ c \notin spoilt /\ h \in seen[c]
<1>1. Unhurt(h)' => \/ Unhurt(h)
                    \/ \E c \in Saver : Renamed(c) /\ c \notin spoilt /\ h \in seen[c]
  BY HurtSteps DEF Unhurt
<1>2. ASSUME Bare(h)', Unhurt(h), ~Bare(h) PROVE RemoveFile /\ h \in marked
  <2>1. h \notin dlog' /\ h \notin dispatched' /\ Unhurt(h)'
    BY <1>2 DEF Bare
  <2>2. h \in dlog \/ h \in dispatched
    BY <1>2 DEF Bare
  <2> USE DEF logs
  <2>3. ASSUME NEW s \in Saver,
               \/ Created(s) \/ Visit(s) \/ WriteTimes(s) \/ Synced(s) \/ GivenUp(s) \/ Renamed(s)
        PROVE  UNCHANGED <<dlog, dispatched>>
    BY <2>3 DEF Created, Visit, WriteTimes, Synced, GivenUp, Renamed
  <2>4. CASE Crash
    BY <2>1, <2>2, <2>4 DEF Crash
  <2>5. CASE DeletionTick
    <3>1. PICK old \in SUBSET (uploaded \cap dlog \cap aged) :
             dlog' = dlog \ old /\ Hurt(old, "deleted") /\ dispatched' = dispatched
      BY <2>5 DEF DeletionTick
    <3>2. h \notin old
      BY <2>1, <3>1 DEF Hurt, Unhurt, Cause
    <3> QED BY <2>1, <2>2, <3>1, <3>2
  <2>6. CASE RemoveFile
    BY <2>1, <2>2, <2>6 DEF RemoveFile
  <2>7. CASE AsideStep /\ ~DeletionTick /\ ~RemoveFile
    BY <2>1, <2>2, <2>7 DEF AsideStep, vars, Mark, CleanupTick, SaveReturns, Dispatch, Age, Expire
  <2> QED BY <2>1, <2>2, <2>3, <2>4, <2>5, <2>6, <2>7, Steps
<1> QED BY <1>1, <1>2 DEF Bare

\* A handle that the save which is being renamed has to visit is in the new
\* registry file, unless it has been dropped.
LEMMA RenamedLoads ==
  ASSUME TypeInv, MixInv, TmpInv, KeyInv, NEW s \in Saver, Renamed(s), s \notin spoilt, [Next]_vars,
         NEW h \in Handle, Unhurt(h)', h \in must[s] \cup seen[s]
  PROVE  h \in Loaded(reg)'
<1>1. pc[s] = "rename" /\ late' = late
  BY DEF Renamed
<1>2. ~Dropped(h) /\ h \notin late
  <2>1. ~Dropped(h)' /\ <<h, "expired">> \notin hurt'
    BY UnhurtIs
  <2> QED BY <2>1, DroppedStays DEF KeyInv
<1>3. h \in seen[s]
  BY <1>1, <1>2 DEF KeyInv
<1>4. PICK n \in 0 .. MaxHandle : \A g \in seen[s] : g \in late \/ \E k \in 1 .. n : Whole(tmp, k, g)
  BY RenamedWhole
<1>5. PICK k \in 1 .. n : Whole(tmp, k, h)
  BY <1>2, <1>3, <1>4
<1>6. k \in Handle /\ reg' = tmp
  BY BoundsAssumption DEF Handle, Renamed
<1>7. Whole(reg', k, h)
  BY <1>5, <1>6
<1> QED BY <1>1, <1>2, <1>6, <1>7 DEF Loaded

LEMMA LoadedKept ==
  ASSUME KeyInv', reg' = reg, NEW h \in Loaded(reg), Unhurt(h)'
  PROVE  h \in Loaded(reg)'
<1>1. h \notin late'
  BY UnhurtIs DEF KeyInv
<1> QED BY <1>1 DEF Loaded

LEMMA RecoverStep ==
  ASSUME TypeInv, MixInv, TmpInv, KeyInv, BareInv, Recoverable, [Next]_vars
  PROVE  Recoverable'
<1> SUFFICES ASSUME NEW h \in Handle, Bare(h)', ~regSpoilt' PROVE h \in Loaded(reg)'
  BY DEF Recoverable, Bare
<1>a. Unhurt(h)' /\ KeyInv'
  BY KeyStep DEF Bare
<1>1. ASSUME NEW c \in Saver, Renamed(c) PROVE h \in Loaded(reg)'
  <2>1. c \notin spoilt
    BY <1>1, Zenon DEF Renamed
  <2>2. CASE h \in seen[c]
    BY <1>1, <1>a, <2>1, <2>2, RenamedLoads
  <2>3. CASE h \notin seen[c]
    <3>1. hurt' = hurt \ (seen[c] \X {"failed"}) /\ dlog' = dlog /\ dispatched' = dispatched
      BY <1>1, <2>1 DEF Renamed, logs
    <3>2. Bare(h)
      BY <2>3, <3>1 DEF Bare, Unhurt
    <3>3. Saving(c)
      BY <1>1 DEF Renamed, Saving
    <3>4. h \in must[c]
      BY <2>1, <3>2, <3>3 DEF BareInv
    <3> QED BY <1>1, <1>a, <2>1, <3>4, RenamedLoads
  <2> QED BY <2>2, <2>3
<1>2. CASE reg' = reg /\ regSpoilt' = regSpoilt
  <2>1. CASE Bare(h)
    <3>1. h \in Loaded(reg)
      BY <1>2, <2>1 DEF Recoverable, Bare
    <3> QED BY <1>2, <1>a, <3>1, LoadedKept
  <2>2. CASE RemoveFile /\ h \in marked /\ Unhurt(h)
    <3>1. pc["uploader"] = "saved" /\ dispatched' = dispatched
      BY <2>2 DEF RemoveFile
    <3>2. h \in Loaded(reg) \cup dispatched
      BY <1>2, <2>2, <3>1 DEF BareInv
    <3>3. h \notin dispatched
      BY <3>1 DEF Bare
    <3> QED BY <1>2, <1>a, <3>2, <3>3, LoadedKept
  <2> QED BY <1>1, <2>1, <2>2, BareSteps
<1>3. CASE regSpoilt /\ regSpoilt' = regSpoilt
  BY <1>3
<1> QED BY <1>1, <1>2, <1>3, RegSteps

LEMMA BareStep ==
  ASSUME TypeInv, MixInv, TmpInv, KeyInv, BareInv, Recoverable, [Next]_vars
  PROVE  BareInv'
<1>a. /\ pc \in [Saver -> SaverPC] /\ DOMAIN must = Saver /\ KeyInv'
  BY KeyStep DEF TypeInv, TypeOK, SaverPC
<1>b. "monitor" \in Saver /\ "uploader" \in Saver
  BY Savers
<1> USE DEF files, history
<1>1. ASSUME NEW h \in Handle, Bare(h)' PROVE h \in uploaded'
  <2>a. Unhurt(h)'
    BY <1>1 DEF Bare
  <2>1. CASE Crash
    <3>1. uploaded' = Loaded(reg) /\ dlog' = dlog /\ dispatched' = dispatched
      BY <2>1 DEF Crash, Restart, logs
    <3>2. hurt \subseteq hurt' /\ (regSpoilt => Hurt(Handle \ (dlog \cup Loaded(reg)), "spoilt"))
      BY <2>1 DEF Crash, Hurt
    <3>3. Bare(h)
      BY <1>1, <3>1, <3>2 DEF Bare, Unhurt
    <3>4. CASE regSpoilt
      BY <2>a, <3>1, <3>2, <3>3, <3>4 DEF Hurt, Unhurt, Cause, Bare
    <3>5. CASE ~regSpoilt
      BY <3>1, <3>3, <3>5 DEF Recoverable, Bare
    <3> QED BY <3>4, <3>5
  <2>2. CASE ~Crash
    <3>1. Known(h)
      <4>1. CASE Bare(h)
        BY <4>1 DEF BareInv, Known
      <4>2. CASE h \in marked
        BY <4>2 DEF KeyInv
      <4>3. ASSUME NEW c \in Saver, h \in seen[c] PROVE Known(h)
        BY <4>3 DEF KeyInv
      <4> QED BY <1>1, <4>1, <4>2, <4>3, BareSteps
    <3>2. Known(h)'
      BY <2>2, <3>1, KnownStays
    <3> QED BY <2>a, <3>2, UnhurtIs DEF Known
  <2> QED BY <2>1, <2>2
<1>2. ASSUME NEW s \in Saver, Saving(s)', s \notin spoilt', NEW h \in Handle, Bare(h)'
      PROVE  h \in must'[s]
  <2>a. Unhurt(h)'
    BY <1>2 DEF Bare
  <2>1. ASSUME Saving(s), s \notin spoilt, must'[s] = must[s] PROVE h \in must'[s]
    <3>1. CASE Bare(h)
      BY <2>1, <3>1 DEF BareInv
    <3>2. CASE RemoveFile /\ h \in marked /\ Unhurt(h)
      <4>1. pc["uploader"] = "saved"
        BY <3>2 DEF RemoveFile
      <4>2. s = "monitor"
        BY <2>1, <4>1 DEF Saver, Saving
      <4> QED BY <2>1, <3>2, <4>1, <4>2 DEF BareInv
    <3>3. ASSUME NEW c \in Saver, Renamed(c) PROVE FALSE
      <4>1. Saving(c) /\ pc'[c] = "saved"
        BY <1>a, <3>3 DEF Renamed, Saving
      <4>2. c = s
        BY <2>1, <4>1, Solitary
      <4> QED BY <1>2, <4>1, <4>2 DEF Saving
    <3> QED BY <1>2, <3>1, <3>2, <3>3, BareSteps
  <2>2. CASE Aside
    BY <1>2, <2>1, <2>2 DEF Aside, AtSame, Saving
  <2>3. CASE Crash
    BY <1>2, <2>3 DEF Crash, Saving
  <2>4. ASSUME NEW c \in Saver, Created(c) PROVE h \in must'[s]
    <3>1. CASE c = s
      <4>1. must'[s] = uploaded /\ uploaded' = uploaded
        BY <1>a, <2>4, <3>1 DEF Created, memory
      <4> QED BY <1>1, <1>2, <4>1
    <3>2. CASE c # s
      <4>1. pc'[s] = pc[s]
        BY <1>a, <2>4, <3>2 DEF Created
      <4>2. Saving(Other(c))
        BY <1>2, <3>2, <4>1, Savers DEF Saving
      <4> QED BY <1>2, <2>4, <4>2 DEF Created
    <3> QED BY <3>1, <3>2
  <2>5. ASSUME NEW c \in Saver,
               \/ Visit(c) \/ WriteTimes(c) \/ Synced(c) \/ GivenUp(c) \/ Renamed(c)
        PROVE  h \in must'[s]
    <3>1. must' = must /\ spoilt \subseteq spoilt'
      <4>1. CASE Visit(c) \/ WriteTimes(c)
        BY <4>1, WritesSpoil DEF Visit, WriteTimes
      <4>2. CASE Synced(c) \/ GivenUp(c) \/ Renamed(c)
        BY <4>2 DEF Synced, GivenUp, Renamed
      <4> QED BY <2>5, <4>1, <4>2
    <3>2. Saving(s)
      BY <1>2, <1>a, <2>5 DEF Visit, WriteTimes, Synced, GivenUp, Renamed, Saving
    <3> QED BY <1>2, <2>1, <3>1, <3>2
  <2> QED BY <2>2, <2>3, <2>4, <2>5, Steps
<1>3. ASSUME pc'["uploader"] = "saved", NEW h \in marked', Unhurt(h)'
      PROVE  /\ Saving("monitor")' /\ "monitor" \notin spoilt' => h \in must'["monitor"]
             /\ ~regSpoilt' => h \in Loaded(reg)' \cup dispatched'
  <2>a. ~Crash
    BY <1>3, <1>b DEF Crash
  <2>b. h \in marked /\ h \in Handle /\ Known(h)
    <3>1. CASE AsideStep
      <4>1. ~Mark
        BY <1>3, <1>a, <1>b DEF Mark
      <4> QED BY <1>3, <3>1, <4>1, MarkedSteps DEF KeyInv, TypeInv, TypeOK
    <3>2. ASSUME NEW s \in Saver,
                 \/ Created(s) \/ Visit(s) \/ WriteTimes(s) \/ Synced(s) \/ GivenUp(s) \/ Renamed(s)
          PROVE  marked' = marked
      BY <3>2 DEF Created, Visit, WriteTimes, Synced, GivenUp, Renamed
    <3>3. h \in marked
      BY <1>3, <2>a, <3>1, <3>2, Steps
    <3> QED BY <3>3 DEF KeyInv, TypeInv, TypeOK
  <2>c. ~Dropped(h) /\ h \in uploaded
    <3>1. ~Dropped(h)
      BY <1>3, UnhurtIs, DroppedStays
    <3> QED BY <2>b, <3>1 DEF Known
  <2>d. dispatched \subseteq dispatched'
    <3>1. ASSUME NEW s \in Saver,
                 \/ Created(s) \/ Visit(s) \/ WriteTimes(s) \/ Synced(s) \/ GivenUp(s) \/ Renamed(s)
          PROVE  dispatched' = dispatched
      BY <3>1 DEF Created, Visit, WriteTimes, Synced, GivenUp, Renamed
    <3>2. CASE AsideStep
      BY <3>2 DEF AsideStep, vars, Mark, RemoveFile, CleanupTick, DeletionTick, SaveReturns,
                  Dispatch, Age, Expire
    <3> QED BY <2>a, <3>1, <3>2, Steps
  <2>1. CASE pc["uploader"] = "saved" /\ Unhurt(h)
    <3>0. ~Renamed("uploader")
      BY <2>1 DEF Renamed
    <3>1. Saving("monitor")' /\ "monitor" \notin spoilt' => h \in must'["monitor"]
      <4> SUFFICES ASSUME Saving("monitor")', "monitor" \notin spoilt' PROVE h \in must'["monitor"]
        OBVIOUS
      <4>1. CASE Created("monitor")
        <5>1. must'["monitor"] = uploaded
          BY <1>a, <1>b, <4>1 DEF Created
        <5> QED BY <2>c, <5>1
      <4>2. CASE ~Created("monitor")
        <5>1. ~Created("uploader")
          BY <2>1 DEF Created
        <5>2. must' = must /\ spoilt \subseteq spoilt' /\ Saving("monitor")
          <6>1. CASE Aside
            BY <1>b, <6>1 DEF Aside, AtSame, Saving
          <6>2. ASSUME NEW s \in Saver, Visit(s) \/ WriteTimes(s)
                PROVE  must' = must /\ spoilt \subseteq spoilt' /\ Saving("monitor")
            <7>1. spoilt \subseteq spoilt'
              BY <6>2, WritesSpoil
            <7> QED BY <1>a, <1>b, <6>2, <7>1 DEF Visit, WriteTimes, Saving
          <6>3. ASSUME NEW s \in Saver, Synced(s) \/ GivenUp(s) \/ Renamed(s)
                PROVE  must' = must /\ spoilt \subseteq spoilt' /\ Saving("monitor")
            BY <1>a, <1>b, <6>3 DEF Synced, GivenUp, Renamed, Saving
          <6> QED BY <2>a, <4>2, <5>1, <6>1, <6>2, <6>3, Steps DEF Saver
        <5> QED BY <2>1, <2>b, <5>2 DEF BareInv
      <4> QED BY <4>1, <4>2
    <3>2. ~regSpoilt' => h \in Loaded(reg)' \cup dispatched'
      <4> SUFFICES ASSUME ~regSpoilt' PROVE h \in Loaded(reg)' \cup dispatched'
        OBVIOUS
      <4>1. CASE reg' = reg /\ regSpoilt' = regSpoilt
        BY <1>3, <1>a, <2>1, <2>b, <2>d, <4>1, LoadedKept DEF BareInv
      <4>2. CASE Renamed("monitor")
        <5>1. "monitor" \notin spoilt
          BY <4>2, Zenon DEF Renamed
        <5>2. Saving("monitor")
          BY <4>2 DEF Renamed, Saving
        <5>3. h \in must["monitor"]
          BY <2>1, <2>b, <5>1, <5>2 DEF BareInv
        <5> QED BY <1>3, <1>b, <2>b, <4>2, <5>1, <5>3, RenamedLoads
      <4>3. CASE regSpoilt /\ regSpoilt' = regSpoilt
        BY <4>3
      <4> QED BY <3>0, <4>1, <4>2, <4>3, RegSteps DEF Saver
    <3> QED BY <3>1, <3>2
  <2>2. CASE pc["uploader"] = "saved" /\ ~Unhurt(h)
    <3>1. PICK c \in Saver : Renamed(c) /\ c \notin spoilt /\ h \in seen[c]
      BY <1>3, <2>2, BareSteps
    <3>2. c = "monitor"
      BY <2>2, <3>1 DEF Renamed, Saver
    <3>3. ~Saving("monitor")'
      BY <1>a, <1>b, <3>1, <3>2 DEF Renamed, Saving
    <3> QED BY <1>3, <2>b, <3>1, <3>3, RenamedLoads
  <2>3. CASE pc["uploader"] # "saved"
    <3>1. GivenUp("uploader") \/ Renamed("uploader")
      <4>1. ~AsideStep
        <5>1. ASSUME AsideStep PROVE pc'["uploader"] = pc["uploader"] \/ pc'["uploader"] \in {"idle", "create"}
          BY <1>a, <1>b, <5>1 DEF AsideStep, vars, save, Mark, RemoveFile, CleanupTick,
             DeletionTick,
                             SaveReturns, Dispatch, Age, Expire
        <5> QED BY <1>3, <2>3, <5>1
      <4>2. ASSUME NEW s \in Saver, Created(s) \/ Visit(s) \/ WriteTimes(s) \/ Synced(s)
            PROVE  FALSE
        BY <1>3, <1>a, <1>b, <2>3, <4>2 DEF Created, Visit, WriteTimes, Synced
      <4>3. ASSUME NEW s \in Saver, GivenUp(s) \/ Renamed(s) PROVE s = "uploader"
        BY <1>3, <1>a, <1>b, <2>3, <4>3 DEF GivenUp, Renamed
      <4> QED BY <2>a, <4>1, <4>2, <4>3, Steps
    <3>2. CASE GivenUp("uploader")
      <4>1. Hurt(uploaded, "failed") \/ (hurt' = hurt /\ ~tmpExists /\ pc["uploader"] = "rename")
        BY <3>2 DEF GivenUp
      <4>2. ~Hurt(uploaded, "failed")
        BY <1>3, <2>c DEF Hurt, Unhurt, Cause
      <4>3. Saving("uploader") /\ ~tmpExists
        BY <4>1, <4>2 DEF Saving
      <4>4. regSpoilt' /\ spoilt' = spoilt
        BY <1>b, <3>2, <4>3 DEF GivenUp, MixInv, MixOf
      <4>5. Saving("monitor")' => spoilt = Saver
        BY <1>a, <1>b, <3>2, <4>3 DEF GivenUp, MixInv, Saving
      <4> QED BY <1>b, <4>4, <4>5
    <3>3. CASE Renamed("uploader")
      <4>1. Saving("uploader") /\ spoilt' = spoilt
        BY <3>3 DEF Renamed, Saving
      <4>2. Saving("monitor")' => spoilt = Saver
        BY <1>a, <1>b, <3>3, <4>1 DEF Renamed, MixInv, Saving
      <4>3. "uploader" \in spoilt => regSpoilt'
        BY <3>3, Zenon DEF Renamed
      <4>4. h \in must["uploader"]
        BY <2>b, <2>c, <4>1 DEF KeyInv
      <4>5. "uploader" \notin spoilt => h \in Loaded(reg)'
        BY <1>3, <1>b, <2>b, <3>3, <4>4, RenamedLoads
      <4> QED BY <1>b, <4>1, <4>2, <4>3, <4>5
    <3> QED BY <3>1, <3>2, <3>3
  <2> QED BY <2>1, <2>2, <2>3
<1> QED BY <1>1, <1>2, <1>3 DEF BareInv

LEMMA RecoverInvariant == Spec => [](KeyInv /\ BareInv /\ Recoverable)
<1>1. Init => KeyInv
  BY DEF Init, KeyInv, Saving, Saver
<1>2. Init => BareInv /\ Recoverable
  BY DEF Init, BareInv, Bare, Recoverable, Saving, Saver
<1>3. /\ TypeInv /\ MixInv /\ TmpInv /\ KeyInv /\ BareInv /\ Recoverable /\ [Next]_vars
      => KeyInv' /\ BareInv' /\ Recoverable'
  BY KeyStep, BareStep, RecoverStep
<1> QED BY <1>1, <1>2, <1>3, TypeInvariant, RecordsInvariant, PTL DEF Spec

\* A handle that has not been dispatched survives a crash at any moment, whatever
\* the two savers, log deletion and the faults do, save for what Recoverable
\* excepts: for any number of handles, saves and faults.
THEOREM HandlesRecoverable == Spec => []Recoverable
BY RecoverInvariant, PTL

================================================================================
