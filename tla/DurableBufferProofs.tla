-------------------------- MODULE DurableBufferProofs --------------------------
(***************************************************************************)
(* Proofs about DurableBuffer: type correctness, that a chunk is in one    *)
(* place at a time, and that what is uploaded is whole and stays as it is. *)
(***************************************************************************)
EXTENDS DurableBuffer, SelectionProofs, SequenceTheorems

Entry == Handle \X (1 .. Chunks)

(* -------------------------------- Typing -------------------------------- *)

\* A client inside Write has a chunk to send, and a replay that hands over a
\* record has a file open and has read a chunk.
FlowInv ==
    /\ \A h \in Handle : cpc[h] \in {"push", "register"} => sent[h] < Chunks
    /\ pc["monitor"] \in {"replayPush", "replayRegister"} => rfile \in Handle /\ rchunk \in 1 .. Chunks

TypeInv == TypeOK /\ FlowInv

LEMMA HandlesInType == ASSUME NEW s \in Seq(Entry) PROVE HandlesIn(s) \subseteq Handle
BY DEF HandlesIn, Entry

LEMMA SelectedType ==
  ASSUME NEW s \in Seq(Entry), NEW ps \in SUBSET (1 .. Len(s))
  PROVE  Selected(s, ps) \in Seq(Entry)
BY SelectedIs

LEMMA WithoutType ==
  ASSUME NEW s \in Seq(Entry), NEW h
  PROVE  Without(s, h) \in Seq(Entry)
<1>1. (1 .. Len(s)) \ Positions(s, h) \in SUBSET (1 .. Len(s))
  OBVIOUS
<1> QED BY <1>1, SelectedType DEF Without

LEMMA FunctionSeq ==
  ASSUME NEW S, NEW n \in Nat, NEW f \in [1 .. n -> S]
  PROVE  f \in Seq(S) /\ Len(f) = n
OBVIOUS

LEMMA ChunksOfType ==
  ASSUME NEW s \in Seq(Entry), NEW h
  PROVE  ChunksOf(s, h) \in Seq(1 .. Chunks)
<1> DEFINE ps == Positions(s, h)
<1>1. ps \in SUBSET (1 .. Len(s)) /\ Len(s) \in Nat
  BY DEF Positions
<1>2. Cardinality(ps) \in Nat /\ \A k \in 1 .. Cardinality(ps) : Nth(ps, k) \in 1 .. Len(s)
  BY <1>1, PositionsFinite, SelectedIs
<1>3. \A i \in 1 .. Len(s) : s[i][2] \in 1 .. Chunks
  BY DEF Entry
<1>4. \A k \in 1 .. Cardinality(ps) : s[Nth(ps, k)][2] \in 1 .. Chunks
  BY <1>2, <1>3
<1>5. ChunksOf(s, h) = [k \in 1 .. Cardinality(ps) |-> s[Nth(ps, k)][2]]
  BY DEF ChunksOf
<1> HIDE DEF ps
<1>6. ChunksOf(s, h) \in [1 .. Cardinality(ps) -> 1 .. Chunks]
  BY <1>4, <1>5
<1> QED BY <1>2, <1>6, FunctionSeq

LEMMA OverwriteType ==
  ASSUME NEW S, NEW old \in Seq(S), NEW new \in Seq(S)
  PROVE  Overwrite(old, new) \in Seq(S)
<1>1. SubSeq(old, Len(new) + 1, Len(old)) \in Seq(S)
  BY SubSeqProperties
<1> QED BY <1>1, ConcatProperties DEF Overwrite

LEMMA TypeInit == Init => TypeInv
<1> SUFFICES ASSUME Init PROVE TypeInv
  OBVIOUS
<1> USE SizesAssumption, BoundsAssumption
<1>1. TypeOK
  BY DEF Init, TypeOK, Handle, Flusher, NoHandle
<1>2. FlowInv
  BY DEF Init, FlowInv, Flusher
<1> QED BY <1>1, <1>2 DEF TypeInv

LEMMA TypeStep == TypeInv /\ [Next]_vars => TypeInv'
<1> SUFFICES ASSUME TypeInv, [Next]_vars PROVE TypeInv'
  OBVIOUS
<1> USE SizesAssumption DEF TypeInv
<1>a. Chunks \in Nat /\ Chunks > 0 /\ Cap \in Nat /\ Cap > 0 /\ MaxHandle \in Nat
  OBVIOUS
<1>b. "monitor" \in Flusher /\ "uploader" \in Flusher
  BY DEF Flusher
<1>1. CASE UNCHANGED vars
  BY <1>1 DEF vars, disk, clients, replay, upload, TypeOK, FlowInv
<1>2. CASE GenerateHandle
  <2>1. issued + 1 \in Handle /\ issued' \in 0 .. MaxHandle /\ nextHandle' \in Nat
    BY <1>2 DEF GenerateHandle, TypeOK, Handle
  <2>2. idOf' \in [Handle -> Nat] /\ cpc' \in [Handle -> {"none", "idle", "push", "register", "gone"}]
    BY <1>2, <2>1 DEF GenerateHandle, TypeOK
  <2>3. TypeOK'
    BY <1>2, <2>1, <2>2 DEF GenerateHandle, TypeOK, disk, replay, upload
  <2>4. FlowInv'
    BY <1>2, <2>1 DEF GenerateHandle, TypeOK, FlowInv, disk, replay, upload
  <2> QED BY <2>3, <2>4
<1>3. ASSUME NEW h \in Handle, WriteCheck(h) PROVE TypeInv'
  <2>1. /\ cpc' \in [Handle -> {"none", "idle", "push", "register", "gone"}]
        /\ sent' \in [Handle -> 0 .. Chunks] /\ hurt' \subseteq Handle \X Cause
    <3>1. sent[h] \in 0 .. Chunks /\ sent[h] < Chunks
      BY <1>3 DEF WriteCheck, TypeOK
    <3>2. sent[h] + 1 \in 0 .. Chunks
      BY <1>a, <3>1
    <3>3. sent' = sent \/ sent' = [sent EXCEPT ![h] = sent[h] + 1]
      BY <1>3 DEF WriteCheck, Refuse
    <3>4. \E v \in {"idle", "push", "gone"} : cpc' = [cpc EXCEPT ![h] = v]
      BY <1>3 DEF WriteCheck, Refuse
    <3>5. hurt' = hurt \/ hurt' = hurt \cup ({h} \X {"refused"})
      BY <1>3 DEF WriteCheck, Refuse, Hurt
    <3>6. sent' \in [Handle -> 0 .. Chunks]
      BY <3>2, <3>3 DEF TypeOK
    <3>7. cpc' \in [Handle -> {"none", "idle", "push", "register", "gone"}]
      BY <3>4 DEF TypeOK
    <3>8. hurt' \subseteq Handle \X Cause
      BY <3>5 DEF TypeOK, Cause
    <3> QED BY <3>6, <3>7, <3>8
  <2>2. \A g \in Handle : cpc'[g] \in {"push", "register"} => sent'[g] < Chunks
    BY <1>3 DEF WriteCheck, Refuse, FlowInv, TypeOK
  <2>3. TypeOK'
    BY <1>3, <2>1 DEF WriteCheck, TypeOK, disk, replay, upload
  <2>4. FlowInv'
    BY <1>3, <2>2 DEF WriteCheck, FlowInv, replay
  <2> QED BY <2>3, <2>4
<1>4. ASSUME NEW h \in Handle, WritePush(h) PROVE TypeInv'
  <2>1. /\ cpc' \in [Handle -> {"none", "idle", "push", "register", "gone"}]
        /\ sent' \in [Handle -> 0 .. Chunks]
    <3>1. sent[h] \in 0 .. Chunks /\ sent[h] < Chunks
      BY <1>4 DEF WritePush, FlowInv, TypeOK
    <3>2. sent[h] + 1 \in 0 .. Chunks
      BY <1>a, <3>1
    <3>3. sent' = sent \/ sent' = [sent EXCEPT ![h] = sent[h] + 1]
      BY <1>4 DEF WritePush, Refuse
    <3>4. \E v \in {"idle", "register", "gone"} : cpc' = [cpc EXCEPT ![h] = v]
      BY <1>4 DEF WritePush, Refuse
    <3>5. sent' \in [Handle -> 0 .. Chunks]
      BY <3>2, <3>3 DEF TypeOK
    <3>6. cpc' \in [Handle -> {"none", "idle", "push", "register", "gone"}]
      BY <3>4 DEF TypeOK
    <3> QED BY <3>5, <3>6
  <2>2. \A g \in Handle : cpc'[g] \in {"push", "register"} => sent'[g] < Chunks
    BY <1>4 DEF WritePush, Refuse, FlowInv, TypeOK
  <2>3. <<h, sent[h] + 1>> \in Entry
    <3>1. sent[h] \in 0 .. Chunks /\ sent[h] < Chunks
      BY <1>4 DEF WritePush, FlowInv, TypeOK
    <3>2. sent[h] + 1 \in 1 .. Chunks
      BY <1>a, <3>1
    <3> QED BY <3>2 DEF Entry
  <2>4. ring \in Seq(Entry) /\ Len(ring) \in Nat /\ (Len(ring) = Cap => ring # <<>>)
    BY DEF TypeOK, Entry
  <2>5. ring' \in Seq(Entry) /\ Len(ring') <= Cap
    <3>1. CASE Len(ring) < Cap /\ ring' = Append(ring, <<h, sent[h] + 1>>)
      BY <2>3, <2>4, <3>1
    <3>2. CASE Len(ring) = Cap /\ ring' = Append(Tail(ring), <<h, sent[h] + 1>>)
      <4>1. Tail(ring) \in Seq(Entry) /\ Len(Tail(ring)) = Cap - 1
        BY <2>4, <3>2
      <4> QED BY <2>3, <3>2, <4>1
    <3>3. CASE ring' = ring
      BY <2>4, <3>3 DEF TypeOK
    <3> QED BY <1>4, <3>1, <3>2, <3>3 DEF WritePush
  <2>6. hurt' \subseteq Handle \X Cause
    <3>1. Len(ring) = Cap => Head(ring) \in Entry
      BY <2>4
    <3>2. Len(ring) = Cap => Head(ring)[1] \in Handle
      BY <3>1 DEF Entry
    <3>3. \A g \in Handle : {g} \X {"dropped"} \subseteq Handle \X Cause /\ {g} \X {"refused"} \subseteq Handle \X Cause
      BY DEF Cause
    <3> QED BY <1>4, <3>2, <3>3 DEF WritePush, Refuse, Hurt, TypeOK
  <2>7. TypeOK'
    BY <1>4, <2>1, <2>5, <2>6 DEF WritePush, TypeOK, Entry, disk, replay, upload
  <2>8. FlowInv'
    BY <1>4, <2>2 DEF WritePush, FlowInv, replay
  <2> QED BY <2>7, <2>8
<1>5. ASSUME NEW h \in Handle, WriteRegister(h) PROVE TypeInv'
  <2>1. /\ cpc' \in [Handle -> {"none", "idle", "push", "register", "gone"}]
        /\ handles' \in [Handle -> {"none", "open", "done"}]
    BY <1>5 DEF WriteRegister, Registered, TypeOK
  <2>2. sent' \in [Handle -> 0 .. Chunks]
    BY <1>5 DEF WriteRegister, TypeOK, FlowInv
  <2>3. \A g \in Handle : cpc'[g] \in {"push", "register"} => sent'[g] < Chunks
    BY <1>5 DEF WriteRegister, FlowInv, TypeOK
  <2>4. TypeOK'
    BY <1>5, <2>1, <2>2 DEF WriteRegister, TypeOK, disk, replay, upload
  <2>5. FlowInv'
    BY <1>5, <2>3 DEF WriteRegister, FlowInv, replay
  <2> QED BY <2>4, <2>5
<1>6. CASE Expire
  <2>1. expired' \subseteq Handle
    <3>1. 1 .. issued \subseteq Handle
      BY <1>a DEF TypeOK, Handle
    <3>2. \E h \in 1 .. issued : expired' = expired \cup {h}
      BY <1>6 DEF Expire
    <3> QED BY <3>1, <3>2 DEF TypeOK
  <2>2. TypeOK'
    BY <1>6, <2>1 DEF Expire, TypeOK, disk, clients, replay, upload
  <2>3. FlowInv'
    BY <1>6 DEF Expire, FlowInv, clients, replay
  <2> QED BY <2>2, <2>3
<1>7. CASE Crash
  <2>1. cpc' \in [Handle -> {"none", "idle", "push", "register", "gone"}]
    BY <1>7 DEF Crash, TypeOK
  <2>2. hurt' \subseteq Handle \X Cause
    <3>1. HandlesIn(ring) \subseteq Handle /\ \A a \in Flusher : HandlesIn(buf[a]) \subseteq Handle
      BY HandlesInType DEF TypeOK, Entry
    <3>2. HandlesIn(ring) \cup UNION {HandlesIn(buf[a]) : a \in Flusher} \subseteq Handle
      BY <3>1
    <3> QED BY <1>7, <3>2 DEF Crash, Hurt, Cause, TypeOK
  <2>3. /\ ring' \in Seq(Handle \X (1 .. Chunks)) /\ Len(ring') <= Cap
        /\ buf' \in [Flusher -> Seq(Handle \X (1 .. Chunks))]
    BY <1>7 DEF Crash
  <2>4. DOMAIN pc' = Flusher /\ pc'["monitor"] = "start" /\ pc'["uploader"] = "idle"
    BY <1>7, <1>b DEF Crash
  <2>7. /\ rfiles' \subseteq Handle /\ rfile' \in 0 .. MaxHandle
        /\ rpos' \in Nat \ {0} /\ rchunk' \in 0 .. Chunks
    BY <1>7, <1>a DEF Crash, NoHandle
  <2>8. /\ handles' \in [Handle -> {"none", "open", "done"}] /\ nextHandle' \in Nat
        /\ uploaded' \subseteq Handle /\ registry' \subseteq Handle
    BY <1>7 DEF Crash, disk, TypeOK
  <2>5. TypeOK'
    BY <1>7, <2>1, <2>2, <2>3, <2>4, <2>7, <2>8 DEF Crash, TypeOK, disk
  <2>6. FlowInv'
    BY <1>7, <2>4 DEF Crash, FlowInv
  <2> QED BY <2>5, <2>6
<1>8. CASE MonitorStart
  <2>1. DOMAIN pc' = Flusher /\ pc'["monitor"] \in {"replay", "select"} /\ pc'["uploader"] = pc["uploader"]
    BY <1>8, <1>b DEF MonitorStart, TypeOK
  <2>2. TypeOK'
    BY <1>8, <2>1 DEF MonitorStart, TypeOK, disk, clients, upload
  <2>3. FlowInv'
    BY <1>8, <2>1 DEF MonitorStart, FlowInv, clients
  <2> QED BY <2>2, <2>3
<1>9. CASE ReplayOpen
  <2>1. DOMAIN pc' = Flusher /\ pc'["monitor"] \in {"replay", "select"} /\ pc'["uploader"] = pc["uploader"]
    BY <1>9, <1>b DEF ReplayOpen, TypeOK
  <2>2. rfiles' \subseteq Handle /\ rfile' \in 0 .. MaxHandle /\ rpos' \in Nat \ {0} /\ rchunk' = rchunk
    <3>1. CASE UNCHANGED replay
      BY <3>1 DEF replay, TypeOK
    <3>2. CASE rfiles # {} /\ ~UNCHANGED replay
      <4>1. PICK h \in rfiles : rfile' = h /\ rfiles' = rfiles \ {h} /\ rpos' = 1 /\ rchunk' = rchunk
        BY <1>9, <3>2 DEF ReplayOpen
      <4>2. h \in 0 .. MaxHandle
        BY DEF TypeOK, Handle
      <4> QED BY <4>1, <4>2 DEF TypeOK
    <3> QED BY <1>9, <3>1, <3>2 DEF ReplayOpen
  <2>3. TypeOK'
    BY <1>9, <2>1, <2>2 DEF ReplayOpen, TypeOK, disk, clients, upload
  <2>4. FlowInv'
    BY <1>9, <2>1 DEF ReplayOpen, FlowInv, clients
  <2> QED BY <2>3, <2>4
<1>10. CASE ReplayClose
  <2>1. TypeOK'
    BY <1>10 DEF ReplayClose, TypeOK, NoHandle, disk, clients, upload
  <2>2. FlowInv'
    BY <1>10 DEF ReplayClose, FlowInv, clients
  <2> QED BY <2>1, <2>2
<1>11. CASE ReplaySkip
  <2>3. rpos' \in Nat \ {0}
    BY <1>11 DEF ReplaySkip, TypeOK
  <2>1. TypeOK'
    BY <1>11, <2>3 DEF ReplaySkip, TypeOK, disk, clients, upload
  <2>2. FlowInv'
    BY <1>11 DEF ReplaySkip, FlowInv, clients
  <2> QED BY <2>1, <2>2
<1>12. CASE ReplayVisit
  <2>1. DOMAIN pc' = Flusher /\ pc'["monitor"] = "replayPush" /\ pc'["uploader"] = pc["uploader"]
    BY <1>12, <1>b DEF ReplayVisit, TypeOK
  <2>2. rfile \in Handle
    BY <1>12 DEF ReplayVisit, TypeOK, NoHandle, Handle
  <2>3. rchunk' \in 1 .. Chunks
    <3>1. dlog[rfile] \in Seq(1 .. Chunks) /\ rpos \in 1 .. Len(dlog[rfile])
      BY <1>12, <2>2 DEF ReplayVisit, MoreRecords, TypeOK
    <3> QED BY <1>12, <3>1 DEF ReplayVisit
  <2>4. hurt' \subseteq Handle \X Cause /\ nextHandle' \in Nat
    BY <1>12, <2>2 DEF ReplayVisit, TypeOK, Hurt, Cause
  <2>7. rchunk' \in 0 .. Chunks
    BY <2>3
  <2>5. TypeOK'
    BY <1>12, <2>1, <2>4, <2>7 DEF ReplayVisit, TypeOK, disk, clients, upload
  <2>6. FlowInv'
    BY <1>12, <2>2, <2>3 DEF ReplayVisit, FlowInv, clients
  <2> QED BY <2>5, <2>6
<1>13. CASE ReplayPush
  <2>1. DOMAIN pc' = Flusher /\ pc'["monitor"] = "replayRegister" /\ pc'["uploader"] = pc["uploader"]
    BY <1>13, <1>b DEF ReplayPush, TypeOK
  <2>2. <<rfile, rchunk>> \in Entry
    BY <1>13 DEF ReplayPush, FlowInv, Entry
  <2>6. ring \in Seq(Entry) /\ Len(ring) \in Nat /\ Len(ring) <= Cap
    BY DEF Entry, TypeOK
  <2>7. Append(ring, <<rfile, rchunk>>) \in Seq(Entry) /\ Len(Append(ring, <<rfile, rchunk>>)) = Len(ring) + 1
    BY <2>2, <2>6
  <2>3. ring' \in Seq(Entry) /\ Len(ring') <= Cap
    <3>1. CASE Len(ring) < Cap /\ ring' = Append(ring, <<rfile, rchunk>>)
      BY <1>a, <2>6, <2>7, <3>1
    <3>2. CASE ring' = ring
      BY <2>6, <3>2
    <3> QED BY <1>13, <3>1, <3>2 DEF ReplayPush
  <2>4. TypeOK'
    BY <1>13, <2>1, <2>3 DEF ReplayPush, TypeOK, Entry, disk, clients, replay, upload
  <2>5. FlowInv'
    BY <1>13 DEF ReplayPush, FlowInv, clients, replay
  <2> QED BY <2>4, <2>5
<1>14. CASE ReplayRegister
  <2>1. DOMAIN pc' = Flusher /\ pc'["monitor"] = "replay" /\ pc'["uploader"] = pc["uploader"]
    BY <1>14, <1>b DEF ReplayRegister, TypeOK
  <2>2. handles' \in [Handle -> {"none", "open", "done"}]
    BY <1>14 DEF ReplayRegister, Registered, TypeOK
  <2>3. rpos' \in Nat \ {0} /\ rchunk' \in 0 .. Chunks
    BY <1>14 DEF ReplayRegister, TypeOK
  <2>5. TypeOK'
    BY <1>14, <2>1, <2>2, <2>3 DEF ReplayRegister, TypeOK, disk, clients, upload
  <2>4. FlowInv'
    BY <1>14, <2>1 DEF ReplayRegister, FlowInv, clients
  <2> QED BY <2>5, <2>4
<1>15. ASSUME NEW a \in Flusher, Sync(a) PROVE TypeInv'
  <2>1. buf[a] \in Seq(Entry)
    BY DEF TypeOK, Entry
  <2>2. ASSUME NEW b \in Seq(Entry), buf' = [buf EXCEPT ![a] = b]
        PROVE  buf' \in [Flusher -> Seq(Handle \X (1 .. Chunks))]
    BY <2>2 DEF TypeOK, Entry
  <2>3. ASSUME NEW v, pc' = [pc EXCEPT ![a] = v],
               a = "monitor" => v \in {"append", "save", "select"},
               a = "uploader" => v \in {"append", "snapshot", "remove"}
        PROVE  /\ DOMAIN pc' = Flusher
               /\ pc'["monitor"] \in {"start", "replay", "replayPush", "replayRegister",
                                      "select", "build", "append", "save"}
               /\ pc'["uploader"] \in {"idle", "build", "append", "snapshot", "upload",
                                       "save", "remove"}
               /\ pc'["monitor"] \in {"replayPush", "replayRegister"} => pc["monitor"] = pc'["monitor"]
    <3>1. DOMAIN pc' = Flusher /\ pc'[a] = v /\ \A b \in Flusher : b # a => pc'[b] = pc[b]
      BY <2>3 DEF TypeOK
    <3> QED BY <3>1, <2>3, <1>b DEF TypeOK, Flusher
  <2>4. CASE Build(a)
    <3>1. buf' \in [Flusher -> Seq(Handle \X (1 .. Chunks))]
      <4>1. {k \in 1 .. Len(buf[a]) : ~isHandleExpired(buf[a][k][1])} \in SUBSET (1 .. Len(buf[a]))
        OBVIOUS
      <4>2. Selected(buf[a], {k \in 1 .. Len(buf[a]) : ~isHandleExpired(buf[a][k][1])}) \in Seq(Entry)
        BY <2>1, <4>1, SelectedType
      <4> QED BY <2>2, <2>4, <4>2 DEF Build
    <3>2. hurt' \subseteq Handle \X Cause
      BY <2>1, <2>4, HandlesInType DEF Build, Hurt, Cause, TypeOK
    <3>3. /\ DOMAIN pc' = Flusher
          /\ pc'["monitor"] \in {"start", "replay", "replayPush", "replayRegister",
                                 "select", "build", "append", "save"}
          /\ pc'["uploader"] \in {"idle", "build", "append", "snapshot", "upload",
                                  "save", "remove"}
          /\ pc'["monitor"] \in {"replayPush", "replayRegister"} => pc["monitor"] = pc'["monitor"]
      BY <2>3, <2>4 DEF Build
    <3>4. TypeOK'
      BY <2>4, <3>1, <3>2, <3>3 DEF Build, TypeOK, disk, clients, replay, upload
    <3>5. FlowInv'
      BY <2>4, <3>3 DEF Build, FlowInv, clients, replay
    <3> QED BY <3>4, <3>5
  <2>5. CASE AppendFile(a)
    <3>1. PICK h \in HandlesIn(buf[a]) :
             /\ dlog' = [dlog EXCEPT ![h] = @ \o ChunksOf(buf[a], h)]
             /\ buf' = [buf EXCEPT ![a] = Without(@, h)]
      BY <2>5 DEF AppendFile
    <3>2. h \in Handle
      BY <2>1, HandlesInType
    <3>3. Without(buf[a], h) \in Seq(Entry) /\ ChunksOf(buf[a], h) \in Seq(1 .. Chunks)
      BY <2>1, WithoutType, ChunksOfType
    <3>4. buf' \in [Flusher -> Seq(Handle \X (1 .. Chunks))]
      BY <2>2, <3>1, <3>3
    <3>5. dlog' \in [Handle -> Seq(1 .. Chunks)]
      <4>1. dlog[h] \o ChunksOf(buf[a], h) \in Seq(1 .. Chunks)
        BY <3>2, <3>3, ConcatProperties DEF TypeOK
      <4> QED BY <3>1, <3>2, <4>1 DEF TypeOK
    <3>6. TypeOK'
      BY <2>5, <3>4, <3>5 DEF AppendFile, TypeOK, clients, replay, upload
    <3>7. FlowInv'
      BY <2>5 DEF AppendFile, FlowInv, clients, replay
    <3> QED BY <3>6, <3>7
  <2>6. CASE AppendFails(a)
    <3>1. buf' \in [Flusher -> Seq(Handle \X (1 .. Chunks))]
      <4>1. <<>> \in Seq(Entry)
        OBVIOUS
      <4> QED BY <2>2, <2>6, <4>1 DEF AppendFails
    <3>2. hurt' \subseteq Handle \X Cause
      BY <2>1, <2>6, HandlesInType DEF AppendFails, Hurt, Cause, TypeOK
    <3>3. TypeOK'
      BY <2>6, <3>1, <3>2 DEF AppendFails, TypeOK, disk, clients, replay, upload
    <3>4. FlowInv'
      BY <2>6 DEF AppendFails, FlowInv, clients, replay
    <3> QED BY <3>3, <3>4
  <2>7. CASE AppendDone(a)
    <3>1. /\ DOMAIN pc' = Flusher
          /\ pc'["monitor"] \in {"start", "replay", "replayPush", "replayRegister",
                                 "select", "build", "append", "save"}
          /\ pc'["uploader"] \in {"idle", "build", "append", "snapshot", "upload",
                                  "save", "remove"}
          /\ pc'["monitor"] \in {"replayPush", "replayRegister"} => pc["monitor"] = pc'["monitor"]
      BY <2>3, <2>7 DEF AppendDone
    <3>2. TypeOK'
      BY <2>7, <3>1 DEF AppendDone, TypeOK, disk, clients, replay, upload
    <3>3. FlowInv'
      BY <2>7, <3>1 DEF AppendDone, FlowInv, clients, replay
    <3> QED BY <3>2, <3>3
  <2>8. CASE Save(a)
    <3>1. /\ DOMAIN pc' = Flusher
          /\ pc'["monitor"] \in {"start", "replay", "replayPush", "replayRegister",
                                 "select", "build", "append", "save"}
          /\ pc'["uploader"] \in {"idle", "build", "append", "snapshot", "upload",
                                  "save", "remove"}
          /\ pc'["monitor"] \in {"replayPush", "replayRegister"} => pc["monitor"] = pc'["monitor"]
      BY <2>3, <2>8 DEF Save
    <3>2. TypeOK'
      BY <2>8, <3>1 DEF Save, TypeOK, clients, replay, upload
    <3>3. FlowInv'
      BY <2>8, <3>1 DEF Save, FlowInv, clients, replay
    <3> QED BY <3>2, <3>3
  <2> QED BY <1>15, <2>4, <2>5, <2>6, <2>7, <2>8 DEF Sync
<1>16. ASSUME NEW a \in Flusher, Drain(a),
              UNCHANGED <<handles, uploaded, nextHandle, disk, clients, expired, replay, upload>>
       PROVE  TypeInv'
  <2>1. DOMAIN pc' = Flusher /\ pc'[a] = "build" /\ \A b \in Flusher : b # a => pc'[b] = pc[b]
    BY <1>16 DEF Drain, TypeOK
  <2>2. hurt' \subseteq Handle \X Cause
    <3>1. HandlesIn(ring) \subseteq Handle
      BY HandlesInType DEF TypeOK, Entry
    <3> QED BY <1>16, <3>1 DEF Drain, Hurt, Cause, TypeOK
  <2>3. /\ buf' \in [Flusher -> Seq(Handle \X (1 .. Chunks))]
        /\ ring' \in Seq(Handle \X (1 .. Chunks)) /\ Len(ring') <= Cap
    BY <1>16 DEF Drain, TypeOK
  <2>4. /\ pc'["monitor"] = pc["monitor"] \/ pc'["monitor"] = "build"
        /\ pc'["uploader"] = pc["uploader"] \/ pc'["uploader"] = "build"
    BY <2>1, <1>b
  <2>5. TypeOK'
    BY <1>16, <2>1, <2>2, <2>3, <2>4 DEF TypeOK, disk, clients, replay, upload
  <2>6. FlowInv'
    BY <1>16, <2>4 DEF FlowInv, clients, replay
  <2> QED BY <2>5, <2>6
<1>17. CASE CleanupTick
  BY <1>16, <1>17, <1>b DEF CleanupTick
<1>18. CASE UploadTick
  BY <1>16, <1>18, <1>b DEF UploadTick
<1>19. CASE DeletionTick
  <2>1. DOMAIN pc' = Flusher /\ pc'["monitor"] = "save" /\ pc'["uploader"] = pc["uploader"]
    BY <1>19, <1>b DEF DeletionTick, TypeOK
  <2>2. dlog' \in [Handle -> Seq(1 .. Chunks)] /\ uploaded' \subseteq Handle
    <3>1. PICK old \in SUBSET {h \in uploaded : dlog[h] # <<>>} :
             /\ dlog' = [h \in Handle |-> IF h \in old THEN <<>> ELSE dlog[h]]
             /\ uploaded' = uploaded \ old
      BY <1>19 DEF DeletionTick
    <3>2. dlog \in [Handle -> Seq(1 .. Chunks)] /\ <<>> \in Seq(1 .. Chunks) /\ uploaded \subseteq Handle
      BY DEF TypeOK
    <3> QED BY <3>1, <3>2, Zenon
  <2>3. TypeOK'
    BY <1>19, <2>1, <2>2 DEF DeletionTick, TypeOK, clients, replay, upload
  <2>4. FlowInv'
    BY <1>19, <2>1 DEF DeletionTick, FlowInv, clients, replay
  <2> QED BY <2>3, <2>4
<1>20. CASE Snapshot
  <2>1. DOMAIN pc' = Flusher /\ pc'["monitor"] = pc["monitor"] /\ pc'["uploader"] \in {"idle", "upload"}
    BY <1>20, <1>b DEF Snapshot, TypeOK
  <2>2. TypeOK'
    BY <1>20, <2>1 DEF Snapshot, TypeOK, disk, clients, replay
  <2>3. FlowInv'
    BY <1>20, <2>1 DEF Snapshot, FlowInv, clients, replay
  <2> QED BY <2>2, <2>3
<1>21. CASE UploadFile
  <2>1. PICK h \in pending :
           /\ stored' = [stored EXCEPT ![h] = Overwrite(@, dlog[h])]
           /\ pending' = pending \ {h}
           /\ Hurt({h} \cap (HandlesIn(ring) \cup HandlesIn(buf["monitor"])), "overtaken")
           /\ marked' = marked \cup {h} \/ marked' = marked
    BY <1>21 DEF UploadFile
  <2>2. h \in Handle /\ marked' \subseteq Handle
    BY <2>1 DEF TypeOK
  <2>3. stored' \in [Handle -> Seq(1 .. Chunks)]
    <3>1. Overwrite(stored[h], dlog[h]) \in Seq(1 .. Chunks)
      BY <2>2, OverwriteType DEF TypeOK
    <3> QED BY <2>1, <2>2, <3>1 DEF TypeOK
  <2>4. hurt' \subseteq Handle \X Cause
    BY <2>1, <2>2 DEF Hurt, Cause, TypeOK
  <2>5. TypeOK'
    BY <1>21, <2>1, <2>2, <2>3, <2>4 DEF UploadFile, TypeOK, clients, replay
  <2>6. FlowInv'
    BY <1>21 DEF UploadFile, FlowInv, clients, replay
  <2> QED BY <2>5, <2>6
<1>22. CASE UploadFails
  <2>1. pending' \subseteq Handle
    BY <1>22 DEF UploadFails, TypeOK
  <2>2. TypeOK'
    BY <1>22, <2>1 DEF UploadFails, TypeOK, disk, clients, replay
  <2>3. FlowInv'
    BY <1>22 DEF UploadFails, FlowInv, clients, replay
  <2> QED BY <2>2, <2>3
<1>23. CASE MarkHandlesUploaded
  <2>1. DOMAIN pc' = Flusher /\ pc'["monitor"] = pc["monitor"] /\ pc'["uploader"] \in {"idle", "save"}
    BY <1>23, <1>b DEF MarkHandlesUploaded, TypeOK
  <2>2. handles' \in [Handle -> {"none", "open", "done"}] /\ uploaded' \subseteq Handle
    BY <1>23 DEF MarkHandlesUploaded, TypeOK
  <2>3. TypeOK'
    BY <1>23, <2>1, <2>2 DEF MarkHandlesUploaded, TypeOK, disk, clients, replay, upload
  <2>4. FlowInv'
    BY <1>23, <2>1 DEF MarkHandlesUploaded, FlowInv, clients, replay
  <2> QED BY <2>3, <2>4
<1>24. CASE RemoveFiles
  <2>1. DOMAIN pc' = Flusher /\ pc'["monitor"] = pc["monitor"] /\ pc'["uploader"] = "idle"
    BY <1>24, <1>b DEF RemoveFiles, TypeOK
  <2>2. dlog' \in [Handle -> Seq(1 .. Chunks)]
    <3>1. dlog \in [Handle -> Seq(1 .. Chunks)] /\ <<>> \in Seq(1 .. Chunks)
      BY DEF TypeOK
    <3>2. dlog' = [h \in Handle |-> IF h \in marked THEN <<>> ELSE dlog[h]]
      BY <1>24 DEF RemoveFiles
    <3> QED BY <3>1, <3>2, Zenon
  <2>3. TypeOK'
    BY <1>24, <2>1, <2>2 DEF RemoveFiles, TypeOK, clients, replay
  <2>4. FlowInv'
    BY <1>24, <2>1 DEF RemoveFiles, FlowInv, clients, replay
  <2> QED BY <2>3, <2>4
<1> QED BY <1>1, <1>2, <1>3, <1>4, <1>5, <1>6, <1>7, <1>8, <1>9, <1>10, <1>11, <1>12,
           <1>13, <1>14, <1>15, <1>17, <1>18, <1>19, <1>20, <1>21, <1>22, <1>23, <1>24, <1>b
        DEF Next, Client, Monitor, Uploader

LEMMA TypeInvariant == Spec => []TypeInv
BY TypeInit, TypeStep, PTL DEF Spec

\* Every variable keeps its type: the ring never outgrows its capacity, and a
\* client never sends more chunks than its file has.
THEOREM TypeCorrect == Spec => []TypeOK
<1>1. TypeInv => TypeOK
  BY DEF TypeInv
<1> QED BY <1>1, TypeInvariant, PTL
(* ------------------- One upload of an unreplayed handle ----------------- *)

\* A handle that Replay has not read is complete only when its client is done,
\* and an uploaded one is neither complete nor about to be uploaded again.
SettledInv ==
    /\ \A h \in Handle : <<h, "replayed">> \notin hurt =>
          /\ handles[h] = "done" => sent[h] = Chunks
          /\ h \in pending \cup marked \cup uploaded \cup registry => sent[h] = Chunks
          /\ h \in uploaded => handles[h] # "done" /\ h \notin pending
    /\ pc["monitor"] \in {"replayPush", "replayRegister"} => <<rfile, "replayed">> \in hurt

\* What hurts a handle stays on record.
LEMMA HurtGrows == [Next]_vars => hurt \subseteq hurt'
<1> SUFFICES ASSUME [Next]_vars PROVE hurt \subseteq hurt'
  OBVIOUS
<1> USE DEF Hurt
<1>1. CASE UNCHANGED vars
  BY <1>1 DEF vars
<1>2. ASSUME NEW h \in Handle, Client(h) PROVE hurt \subseteq hurt'
  BY <1>2 DEF Client, WriteCheck, WritePush, WriteRegister, Refuse
<1>3. ASSUME NEW a \in Flusher, Sync(a) PROVE hurt \subseteq hurt'
  BY <1>3 DEF Sync, Build, AppendFile, AppendFails, AppendDone, Save
<1>4. CASE Monitor
  BY <1>3, <1>4 DEF Monitor, Flusher, MonitorStart, ReplayOpen, ReplayClose, ReplaySkip,
                    ReplayVisit, ReplayPush, ReplayRegister
<1>5. CASE Uploader
  BY <1>3, <1>5 DEF Uploader, Flusher, Snapshot, UploadFile, UploadFails,
                    MarkHandlesUploaded, RemoveFiles
<1>6. CASE GenerateHandle \/ Expire \/ Crash \/ CleanupTick \/ DeletionTick \/ UploadTick
  BY <1>6 DEF GenerateHandle, Expire, Crash, CleanupTick, DeletionTick, UploadTick, Drain
<1> QED BY <1>1, <1>2, <1>4, <1>5, <1>6 DEF Next

LEMMA SettledStep == TypeInv /\ SettledInv /\ [Next]_vars => SettledInv'
<1> SUFFICES ASSUME TypeInv, SettledInv, [Next]_vars PROVE SettledInv'
  OBVIOUS
<1> USE SizesAssumption DEF TypeInv
<1>a. hurt \subseteq hurt'
  BY HurtGrows
<1>b. "monitor" \in Flusher /\ "uploader" \in Flusher
  BY DEF Flusher
<1>c. Chunks \in Nat /\ sent \in [Handle -> 0 .. Chunks] /\ DOMAIN pc = Flusher
  BY DEF TypeOK
<1>d. ASSUME UNCHANGED <<handles, sent, pending, marked, uploaded, registry>>,
             pc'["monitor"] \in {"replayPush", "replayRegister"} => <<rfile', "replayed">> \in hurt'
      PROVE  SettledInv'
  BY <1>a, <1>d DEF SettledInv
<1>1. CASE UNCHANGED vars
  BY <1>1, <1>d DEF vars, disk, clients, replay, upload, SettledInv
<1>2. CASE GenerateHandle \/ Expire
  BY <1>2, <1>d DEF GenerateHandle, Expire, disk, clients, replay, upload, SettledInv
<1>3. ASSUME NEW h \in Handle, WriteCheck(h) \/ WritePush(h) PROVE SettledInv'
  <2>1. sent[h] < Chunks
    BY <1>3 DEF WriteCheck, WritePush, FlowInv
  <2>2. \A g \in Handle : sent[g] = Chunks => sent'[g] = Chunks
    BY <1>3, <1>c, <2>1 DEF WriteCheck, WritePush, Refuse
  <2>3. UNCHANGED <<handles, pending, marked, uploaded, registry, pc, rfile>>
    BY <1>3 DEF WriteCheck, WritePush, disk, replay, upload
  <2> QED BY <1>a, <2>2, <2>3 DEF SettledInv
<1>4. ASSUME NEW h \in Handle, WriteRegister(h) PROVE SettledInv'
  <2>1. sent[h] < Chunks /\ sent[h] \in Nat
    BY <1>4, <1>c DEF WriteRegister, FlowInv
  <2>2. /\ sent'[h] = sent[h] + 1 /\ \A g \in Handle : g # h => sent'[g] = sent[g]
        /\ \A g \in Handle : g # h => handles'[g] = handles[g]
        /\ handles'[h] = "done" => handles[h] = "done" \/ sent[h] + 1 = Chunks
    BY <1>4, <1>c DEF WriteRegister, Registered, TypeOK
  <2>3. UNCHANGED <<pending, marked, uploaded, registry, pc, rfile, hurt>>
    BY <1>4 DEF WriteRegister, disk, replay, upload
  <2>4. ASSUME NEW g \in Handle, <<g, "replayed">> \notin hurt'
        PROVE  /\ handles'[g] = "done" => sent'[g] = Chunks
               /\ g \in pending \cup marked \cup uploaded \cup registry => sent'[g] = Chunks
               /\ g \in uploaded => handles'[g] # "done" /\ g \notin pending
    <3>1. CASE g # h
      BY <2>2, <2>3, <2>4, <3>1 DEF SettledInv
    <3>2. CASE g = h
      <4>1. sent[h] # Chunks
        BY <2>1, <1>c
      <4>2. h \notin pending \cup marked \cup uploaded \cup registry /\ handles[h] # "done"
        BY <2>3, <2>4, <3>2, <4>1 DEF SettledInv
      <4> QED BY <2>2, <3>2, <4>2
    <3> QED BY <3>1, <3>2
  <2>5. pc'["monitor"] \in {"replayPush", "replayRegister"} => <<rfile', "replayed">> \in hurt'
    BY <2>3 DEF SettledInv
  <2> QED BY <2>3, <2>4, <2>5 DEF SettledInv
<1>5. CASE Crash
  BY <1>5, <1>a, <1>b DEF Crash, disk, SettledInv
<1>6. CASE MonitorStart \/ ReplayOpen \/ ReplayClose \/ ReplaySkip
  <2>1. UNCHANGED <<handles, sent, pending, marked, uploaded, registry>>
    BY <1>6 DEF MonitorStart, ReplayOpen, ReplayClose, ReplaySkip, disk, clients, upload
  <2>2. pc'["monitor"] \notin {"replayPush", "replayRegister"}
    BY <1>6, <1>b, <1>c DEF MonitorStart, ReplayOpen, ReplayClose, ReplaySkip
  <2> QED BY <2>1, <2>2, <1>d
<1>7. CASE ReplayVisit
  <2>1. UNCHANGED <<handles, sent, pending, marked, uploaded, registry>>
    BY <1>7 DEF ReplayVisit, disk, clients, upload
  <2>2. <<rfile', "replayed">> \in hurt'
    BY <1>7 DEF ReplayVisit, Hurt
  <2> QED BY <2>1, <2>2, <1>d
<1>8. CASE ReplayPush
  <2>1. UNCHANGED <<handles, sent, pending, marked, uploaded, registry, rfile>>
    BY <1>8 DEF ReplayPush, disk, clients, upload, replay
  <2>2. <<rfile, "replayed">> \in hurt
    BY <1>8 DEF ReplayPush, SettledInv
  <2> QED BY <1>a, <2>1, <2>2, <1>d
<1>9. CASE ReplayRegister
  <2>1. UNCHANGED <<sent, pending, marked, uploaded, registry, rfile, hurt>>
    BY <1>9 DEF ReplayRegister, disk, clients, upload
  <2>2. <<rfile, "replayed">> \in hurt /\ pc'["monitor"] = "replay"
    BY <1>9, <1>b, <1>c DEF ReplayRegister, SettledInv
  <2>3. \A g \in Handle : g # rfile => handles'[g] = handles[g]
    BY <1>9 DEF ReplayRegister, TypeOK
  <2> QED BY <2>1, <2>2, <2>3 DEF SettledInv
<1>10. ASSUME NEW a \in Flusher, Sync(a) PROVE SettledInv'
  <2>1. UNCHANGED <<handles, sent, pending, marked, uploaded, rfile>>
    BY <1>10 DEF Sync, Build, AppendFile, AppendFails, AppendDone, Save, disk, clients, upload,
       replay
  <2>2. registry' = registry \/ registry' = uploaded
    BY <1>10 DEF Sync, Build, AppendFile, AppendFails, AppendDone, Save, disk
  <2>3. pc'["monitor"] \in {"replayPush", "replayRegister"} => pc["monitor"] = pc'["monitor"]
    BY <1>10, <1>b, <1>c DEF Sync, Build, AppendFile, AppendFails, AppendDone, Save
  <2> QED BY <1>a, <2>1, <2>2, <2>3 DEF SettledInv
<1>11. CASE CleanupTick \/ UploadTick
  <2>1. UNCHANGED <<handles, sent, pending, marked, uploaded, registry, rfile>>
    BY <1>11 DEF CleanupTick, UploadTick, disk, clients, upload, replay
  <2>2. pc'["monitor"] \in {"replayPush", "replayRegister"} => pc["monitor"] = pc'["monitor"]
    BY <1>11, <1>b, <1>c DEF CleanupTick, UploadTick, Drain
  <2> QED BY <1>a, <2>1, <2>2, <1>d DEF SettledInv
<1>12. CASE DeletionTick
  <2>1. UNCHANGED <<handles, sent, pending, marked, registry, rfile, hurt>> /\ uploaded' \subseteq uploaded
    BY <1>12 DEF DeletionTick, clients, upload, replay
  <2>2. pc'["monitor"] = "save"
    BY <1>12, <1>b, <1>c DEF DeletionTick
  <2> QED BY <2>1, <2>2 DEF SettledInv
<1>13. CASE Snapshot
  <2>1. UNCHANGED <<handles, sent, marked, uploaded, registry, rfile, hurt>>
    BY <1>13 DEF Snapshot, disk, clients, replay
  <2>2. pending' = {h \in Handle : handles[h] = "done"} /\ pc'["monitor"] = pc["monitor"]
    BY <1>13, <1>b, <1>c DEF Snapshot
  <2> QED BY <2>1, <2>2 DEF SettledInv
<1>14. CASE UploadFile \/ UploadFails
  <2>1. UNCHANGED <<handles, sent, uploaded, registry, rfile, pc>>
    BY <1>14 DEF UploadFile, UploadFails, disk, clients, replay
  <2>2. pending' \subseteq pending /\ marked' \subseteq marked \cup pending
    BY <1>14 DEF UploadFile, UploadFails
  <2> QED BY <1>a, <2>1, <2>2 DEF SettledInv
<1>15. CASE MarkHandlesUploaded
  <2>1. UNCHANGED <<sent, marked, pending, registry, rfile, hurt>> /\ pending = {}
    BY <1>15 DEF MarkHandlesUploaded, disk, clients, replay, upload
  <2>2. /\ uploaded' = uploaded \cup marked /\ pc'["monitor"] = pc["monitor"]
        /\ \A h \in Handle : handles'[h] = IF h \in marked THEN "none" ELSE handles[h]
    BY <1>15, <1>b, <1>c DEF MarkHandlesUploaded
  <2> QED BY <2>1, <2>2 DEF SettledInv
<1>16. CASE RemoveFiles
  <2>1. UNCHANGED <<handles, sent, uploaded, pending, registry, rfile, hurt>> /\ marked' = {}
    BY <1>16 DEF RemoveFiles, clients, replay
  <2>2. pc'["monitor"] = pc["monitor"]
    BY <1>16, <1>b, <1>c DEF RemoveFiles
  <2> QED BY <2>1, <2>2 DEF SettledInv
<1> QED BY <1>1, <1>2, <1>3, <1>4, <1>5, <1>6, <1>7, <1>8, <1>9, <1>10, <1>11, <1>12,
           <1>13, <1>14, <1>15, <1>16, <1>b
        DEF Next, Client, Monitor, Uploader

LEMMA SettledInvariant == Spec => []SettledInv
<1>1. Init => SettledInv
  BY DEF Init, SettledInv, Flusher
<1> QED BY <1>1, SettledStep, TypeInvariant, PTL DEF Spec

\* A handle listed by MarkHandlesUploaded and never read by Replay keeps the
\* content it was uploaded with, through every crash and every failed write.
THEOREM NothingRewritten == Spec => UploadedOnce
<1>1. SettledInv /\ TypeInv /\ [Next]_vars =>
        [\A h \in Handle : h \in uploaded /\ <<h, "replayed">> \notin hurt =>
           stored'[h] = stored[h]]_vars
  <2> SUFFICES ASSUME SettledInv, TypeInv, Next, NEW h \in Handle,
                      h \in uploaded, <<h, "replayed">> \notin hurt
               PROVE  stored'[h] = stored[h]
    OBVIOUS
  <2>1. stored' = stored \/ UploadFile
    <3>1. ASSUME NEW g \in Handle, Client(g) PROVE stored' = stored
      BY <3>1 DEF Client, WriteCheck, WritePush, WriteRegister, disk
    <3>2. ASSUME NEW a \in Flusher, Sync(a) PROVE stored' = stored
      BY <3>2 DEF Sync, Build, AppendFile, AppendFails, AppendDone, Save, disk
    <3>3. CASE Monitor
      BY <3>2, <3>3 DEF Monitor, Flusher, MonitorStart, ReplayOpen, ReplayClose, ReplaySkip,
                        ReplayVisit, ReplayPush, ReplayRegister, disk
    <3>4. CASE Uploader
      BY <3>2, <3>4 DEF Uploader, Flusher, Snapshot, UploadFails, MarkHandlesUploaded,
                        RemoveFiles, disk
    <3>5. CASE GenerateHandle \/ Expire \/ Crash \/ CleanupTick \/ DeletionTick \/ UploadTick
      BY <3>5 DEF GenerateHandle, Expire, Crash, CleanupTick, DeletionTick, UploadTick, disk
    <3> QED BY <3>1, <3>3, <3>4, <3>5 DEF Next
  <2>2. CASE UploadFile
    <3>1. PICK g \in pending : stored' = [stored EXCEPT ![g] = Overwrite(@, dlog[g])]
      BY <2>2 DEF UploadFile
    <3>2. h \notin pending
      BY DEF SettledInv
    <3> QED BY <3>1, <3>2 DEF TypeInv, TypeOK
  <2> QED BY <2>1, <2>2
<1> QED BY <1>1, SettledInvariant, TypeInvariant, PTL DEF Spec, UploadedOnce

(* ------------------------- Runs of a handle's chunks --------------------- *)

Prefix(n) == [k \in 1 .. n |-> k]

\* The entries of h in s are its chunks lo + 1 to hi, in their order.
Run(s, h, lo, hi) ==
    /\ lo <= hi
    /\ \A i \in 1 .. Len(s) : s[i][1] = h => s[i][2] \in lo + 1 .. hi
    /\ \A n \in lo + 1 .. hi : \E i \in 1 .. Len(s) : s[i] = <<h, n>>
    /\ \A i, j \in 1 .. Len(s) : i < j /\ s[i][1] = h /\ s[j][1] = h => s[i][2] < s[j][2]

LEMMA RunNone ==
  ASSUME NEW s \in Seq(Entry), NEW h, NEW n \in Nat
  PROVE  h \notin HandlesIn(s) <=> Run(s, h, n, n)
<1>1. ASSUME h \notin HandlesIn(s) PROVE Run(s, h, n, n)
  <2>1. \A i \in 1 .. Len(s) : s[i][1] # h
    BY <1>1 DEF HandlesIn
  <2> QED BY <2>1 DEF Run
<1>2. ASSUME Run(s, h, n, n) PROVE h \notin HandlesIn(s)
  <2>1. \A i \in 1 .. Len(s) : s[i][1] # h
    BY <1>2 DEF Run
  <2> QED BY <2>1 DEF HandlesIn
<1> QED BY <1>1, <1>2

LEMMA RunEmpty ==
  ASSUME NEW s \in Seq(Entry), NEW h, NEW lo \in Nat, NEW hi \in Nat,
         Run(s, h, lo, hi), h \notin HandlesIn(s)
  PROVE  lo = hi
<1>1. \A i \in 1 .. Len(s) : s[i] # <<h, lo + 1>>
  BY DEF HandlesIn
<1>2. lo + 1 \notin lo + 1 .. hi
  BY <1>1 DEF Run
<1> QED BY <1>2 DEF Run

LEMMA RunAppendOwn ==
  ASSUME NEW s \in Seq(Entry), NEW h, NEW lo \in Nat, NEW hi \in Nat, Run(s, h, lo, hi),
         <<h, hi + 1>> \in Entry
  PROVE  Run(Append(s, <<h, hi + 1>>), h, lo, hi + 1)
<1> DEFINE t == Append(s, <<h, hi + 1>>)
<1>1. /\ Len(t) = Len(s) + 1 /\ t[Len(s) + 1] = <<h, hi + 1>>
      /\ \A i \in 1 .. Len(s) : t[i] = s[i]
      /\ Len(s) \in Nat
  BY AppendProperties
<1> HIDE DEF t
<1>2. lo <= hi + 1
  BY DEF Run
<1>3. ASSUME NEW i \in 1 .. Len(t), t[i][1] = h PROVE t[i][2] \in lo + 1 .. hi + 1
  BY <1>1, <1>3 DEF Run
<1>4. ASSUME NEW n \in lo + 1 .. hi + 1 PROVE \E i \in 1 .. Len(t) : t[i] = <<h, n>>
  <2>1. CASE n = hi + 1
    BY <1>1, <2>1
  <2>2. CASE n \in lo + 1 .. hi
    <3>1. PICK i \in 1 .. Len(s) : s[i] = <<h, n>>
      BY <2>2 DEF Run
    <3> QED BY <1>1, <3>1
  <2> QED BY <2>1, <2>2
<1>5. ASSUME NEW i \in 1 .. Len(t), NEW j \in 1 .. Len(t), i < j, t[i][1] = h, t[j][1] = h
      PROVE  t[i][2] < t[j][2]
  <2>1. i \in 1 .. Len(s)
    BY <1>1, <1>5
  <2>2. s[i][2] \in lo + 1 .. hi
    BY <1>1, <1>5, <2>1 DEF Run
  <2>3. CASE j = Len(s) + 1
    BY <1>1, <2>1, <2>2, <2>3
  <2>4. CASE j \in 1 .. Len(s)
    BY <1>1, <1>5, <2>1, <2>4 DEF Run
  <2> QED BY <1>1, <2>3, <2>4
<1>6. Run(t, h, lo, hi + 1)
  BY <1>2, <1>3, <1>4, <1>5 DEF Run
<1> QED BY <1>6 DEF t

LEMMA RunAppendOther ==
  ASSUME NEW s \in Seq(Entry), NEW h, NEW lo \in Nat, NEW hi \in Nat, Run(s, h, lo, hi),
         NEW e \in Entry, e[1] # h
  PROVE  Run(Append(s, e), h, lo, hi)
<1> DEFINE t == Append(s, e)
<1>1. /\ Len(t) = Len(s) + 1 /\ t[Len(s) + 1] = e
      /\ \A i \in 1 .. Len(s) : t[i] = s[i]
      /\ Len(s) \in Nat
  BY AppendProperties
<1> HIDE DEF t
<1>2. \A i \in 1 .. Len(t) : t[i][1] = h => i \in 1 .. Len(s) /\ t[i] = s[i]
  BY <1>1
<1>3. ASSUME NEW n \in lo + 1 .. hi PROVE \E i \in 1 .. Len(t) : t[i] = <<h, n>>
  <2>1. PICK i \in 1 .. Len(s) : s[i] = <<h, n>>
    BY DEF Run
  <2> QED BY <1>1, <2>1
<1>4. Run(t, h, lo, hi)
  BY <1>2, <1>3 DEF Run
<1> QED BY <1>4 DEF t

LEMMA RunTail ==
  ASSUME NEW s \in Seq(Entry), NEW h, NEW lo \in Nat, NEW hi \in Nat, Run(s, h, lo, hi),
         s # <<>>, Head(s)[1] # h
  PROVE  Run(Tail(s), h, lo, hi)
<1> DEFINE t == Tail(s)
<1>1. /\ Len(t) = Len(s) - 1 /\ Head(s) = s[1]
      /\ \A i \in 1 .. Len(t) : t[i] = s[i + 1]
      /\ Len(s) \in Nat
  BY HeadTailProperties
<1> HIDE DEF t
<1>2. \A i \in 1 .. Len(t) : i + 1 \in 1 .. Len(s)
  BY <1>1
<1>3. ASSUME NEW n \in lo + 1 .. hi PROVE \E i \in 1 .. Len(t) : t[i] = <<h, n>>
  <2>1. PICK i \in 1 .. Len(s) : s[i] = <<h, n>>
    BY DEF Run
  <2>2. i # 1
    BY <1>1, <2>1
  <2>3. i - 1 \in 1 .. Len(t)
    BY <1>1, <2>2
  <2>4. t[i - 1] = s[i]
    BY <1>1, <2>3
  <2> QED BY <2>1, <2>3, <2>4
<1>4. \A i \in 1 .. Len(t) : t[i][1] = h => t[i][2] \in lo + 1 .. hi
  BY <1>1, <1>2 DEF Run
<1>5. ASSUME NEW i \in 1 .. Len(t), NEW j \in 1 .. Len(t), i < j, t[i][1] = h, t[j][1] = h
      PROVE  t[i][2] < t[j][2]
  <2>1. i + 1 < j + 1
    BY <1>1, <1>5
  <2>2. i + 1 \in 1 .. Len(s) /\ j + 1 \in 1 .. Len(s) /\ t[i] = s[i + 1] /\ t[j] = s[j + 1]
    BY <1>1, <1>2
  <2> QED BY <1>5, <2>1, <2>2 DEF Run
<1>6. Run(t, h, lo, hi)
  BY <1>3, <1>4, <1>5 DEF Run
<1> QED BY <1>6 DEF t

\* A selection that leaves out no entry of h keeps its run.
LEMMA RunSelected ==
  ASSUME NEW s \in Seq(Entry), NEW h, NEW lo \in Nat, NEW hi \in Nat, Run(s, h, lo, hi),
         NEW ps \in SUBSET (1 .. Len(s)), Positions(s, h) \subseteq ps
  PROVE  Run(Selected(s, ps), h, lo, hi)
<1> DEFINE t == Selected(s, ps)
           c == Cardinality(ps)
<1>1. /\ Len(t) = c
      /\ \A k \in 1 .. c : Nth(ps, k) \in ps /\ t[k] = s[Nth(ps, k)]
      /\ \A k, l \in 1 .. c : k < l => Nth(ps, k) < Nth(ps, l)
      /\ \A i \in ps : Rank(ps, i) \in 1 .. c /\ Nth(ps, Rank(ps, i)) = i
  BY SelectedIs
<1> HIDE DEF t, c
<1>2. \A k \in 1 .. Len(t) : Nth(ps, k) \in 1 .. Len(s) /\ t[k] = s[Nth(ps, k)]
  BY <1>1
<1>3. ASSUME NEW n \in lo + 1 .. hi PROVE \E k \in 1 .. Len(t) : t[k] = <<h, n>>
  <2>1. PICK i \in 1 .. Len(s) : s[i] = <<h, n>>
    BY DEF Run
  <2>2. i \in ps
    BY <2>1 DEF Positions
  <2>3. Rank(ps, i) \in 1 .. c /\ Nth(ps, Rank(ps, i)) = i
    BY <1>1, <2>2
  <2>4. Rank(ps, i) \in 1 .. Len(t) /\ t[Rank(ps, i)] = s[i]
    BY <1>1, <2>3
  <2> QED BY <2>1, <2>4
<1>4. \A k \in 1 .. Len(t) : t[k][1] = h => t[k][2] \in lo + 1 .. hi
  BY <1>2 DEF Run
<1>5. ASSUME NEW k \in 1 .. Len(t), NEW l \in 1 .. Len(t), k < l, t[k][1] = h, t[l][1] = h
      PROVE  t[k][2] < t[l][2]
  <2>1. Nth(ps, k) < Nth(ps, l)
    BY <1>1, <1>5
  <2>2. s[Nth(ps, k)][2] < s[Nth(ps, l)][2]
    BY <1>2, <1>5, <2>1 DEF Run
  <2> QED BY <1>2, <2>2
<1>6. lo <= hi
  BY DEF Run
<1>7. Run(t, h, lo, hi)
  BY <1>3, <1>4, <1>5, <1>6 DEF Run
<1> QED BY <1>7 DEF t

LEMMA NoneSelected ==
  ASSUME NEW s \in Seq(Entry), NEW h, NEW ps \in SUBSET (1 .. Len(s)),
         \A i \in ps : s[i][1] # h
  PROVE  h \notin HandlesIn(Selected(s, ps))
<1> DEFINE t == Selected(s, ps)
           c == Cardinality(ps)
<1>1. Len(t) = c /\ \A k \in 1 .. c : Nth(ps, k) \in ps /\ t[k] = s[Nth(ps, k)]
  BY SelectedIs
<1> HIDE DEF t, c
<1>2. \A k \in 1 .. Len(t) : t[k][1] # h
  BY <1>1
<1>3. h \notin HandlesIn(t)
  BY <1>2 DEF HandlesIn
<1> QED BY <1>3 DEF t

\* Counting by chunk number: a run up to chunk n has n - lo entries.
LEMMA RunSize ==
  ASSUME NEW s \in Seq(Entry), NEW h, NEW lo \in Nat, NEW hi \in Nat, Run(s, h, lo, hi),
         NEW n \in lo .. hi,
         NEW ps \in SUBSET (1 .. Len(s)),
         \A i \in 1 .. Len(s) : i \in ps <=> s[i][1] = h /\ s[i][2] <= n
  PROVE  Cardinality(ps) = n - lo
<1> DEFINE f == [i \in ps |-> s[i][2]]
           T == lo + 1 .. n
<1>1. IsFiniteSet(T) /\ Cardinality(T) = n - lo
  <2>1. lo + 1 \in Int /\ n \in Int /\ lo <= n
    OBVIOUS
  <2>2. IsFiniteSet(T) /\ Cardinality(T) = IF lo + 1 > n THEN 0 ELSE n - (lo + 1) + 1
    BY <2>1, FS_Interval
  <2> QED BY <2>1, <2>2
<1>2. IsFiniteSet(ps)
  BY PositionsFinite
<1>3. f \in [ps -> T]
  <2>1. \A i \in ps : s[i][2] \in lo + 1 .. hi /\ s[i][2] <= n
    BY DEF Run
  <2>2. \A i \in ps : s[i][2] \in T
    BY <2>1
  <2> QED BY <2>2
<1>4. ASSUME NEW i \in ps, NEW j \in ps, f[i] = f[j] PROVE i = j
  <2>1. s[i][1] = h /\ s[j][1] = h /\ s[i][2] = s[j][2] /\ s[i][2] \in T
    BY <1>3, <1>4
  <2>2. i \in 1 .. Len(s) /\ j \in 1 .. Len(s)
    OBVIOUS
  <2>3. ~(i < j) /\ ~(j < i)
    BY <2>1, <2>2 DEF Run
  <2> QED BY <2>2, <2>3
<1>5. ASSUME NEW c \in T PROVE \E i \in ps : f[i] = c
  <2>1. c \in lo + 1 .. hi /\ c <= n
    OBVIOUS
  <2>2. PICK i \in 1 .. Len(s) : s[i] = <<h, c>>
    BY <2>1 DEF Run
  <2>3. i \in ps
    BY <2>1, <2>2
  <2> QED BY <2>2, <2>3
<1>6. f \in Bijection(ps, T)
  BY <1>3, <1>4, <1>5 DEF Bijection, Injection, Surjection, IsInjective
<1>7. ExistsBijection(ps, T)
  BY <1>6 DEF ExistsBijection
<1>8. Cardinality(ps) = Cardinality(T)
  BY <1>1, <1>2, <1>7, FS_Bijection
<1> QED BY <1>1, <1>8

\* A flusher that holds a run appends its chunks to the file one by one.
LEMMA RunChunks ==
  ASSUME NEW s \in Seq(Entry), NEW h, NEW lo \in Nat, NEW hi \in Nat, Run(s, h, lo, hi)
  PROVE  ChunksOf(s, h) = [k \in 1 .. hi - lo |-> lo + k]
<1> DEFINE ps == Positions(s, h)
<1>1. ps \in SUBSET (1 .. Len(s)) /\ Len(s) \in Nat /\ \A i \in 1 .. Len(s) : i \in ps <=> s[i][1] = h
  BY DEF Positions
<1>2. lo <= hi /\ \A i \in ps : s[i][2] \in lo + 1 .. hi
  BY <1>1 DEF Run
<1>3. IsFiniteSet(ps) /\ ps \in SUBSET Nat
  BY <1>1, PositionsFinite
<1>4. ChunksOf(s, h) = [k \in 1 .. Cardinality(ps) |-> s[Nth(ps, k)][2]]
  BY DEF ChunksOf
<1> HIDE DEF ps
<1>5. Cardinality(ps) = hi - lo
  <2>1. \A i \in 1 .. Len(s) : i \in ps <=> s[i][1] = h /\ s[i][2] <= hi
    BY <1>1, <1>2
  <2>2. hi \in lo .. hi
    BY <1>2
  <2> QED BY <1>1, <2>1, <2>2, RunSize
<1>6. ASSUME NEW i \in ps PROVE Rank(ps, i) = s[i][2] - lo
  <2> DEFINE A == {j \in ps : j <= i}
             n == s[i][2]
  <2>1. n \in lo .. hi /\ i \in 1 .. Len(s) /\ s[i][1] = h
    BY <1>1, <1>2
  <2>2. ASSUME NEW j \in ps PROVE j <= i <=> s[j][2] <= n
    <3>1. j \in 1 .. Len(s) /\ s[j][1] = h /\ s[j][2] \in lo + 1 .. hi
      BY <1>1, <1>2
    <3>2. i < j => n < s[j][2]
      BY <2>1, <3>1 DEF Run
    <3>3. j < i => s[j][2] < n
      BY <2>1, <3>1 DEF Run
    <3> QED BY <2>1, <3>1, <3>2, <3>3
  <2>3. A \in SUBSET (1 .. Len(s)) /\ \A j \in 1 .. Len(s) : j \in A <=> s[j][1] = h /\ s[j][2] <= n
    BY <1>1, <2>2
  <2> HIDE DEF A, n
  <2>4. Cardinality(A) = n - lo
    BY <2>1, <2>3, RunSize
  <2> QED BY <2>4 DEF A, n, Rank
<1>7. ASSUME NEW k \in 1 .. hi - lo PROVE s[Nth(ps, k)][2] = lo + k
  <2>1. lo + k \in lo + 1 .. hi
    BY <1>2
  <2>2. PICK i \in 1 .. Len(s) : s[i] = <<h, lo + k>>
    BY <2>1 DEF Run
  <2>3. i \in ps
    BY <1>1, <2>2
  <2>4. Rank(ps, i) = k
    BY <1>6, <2>2, <2>3
  <2>5. Nth(ps, k) = i
    BY <1>3, <2>3, <2>4, NthRank
  <2> QED BY <2>2, <2>5
<1> QED BY <1>4, <1>5, <1>7

\* How often e is in s.
In(s, e) == Cardinality({k \in 1 .. Len(s) : s[k] = e})

\* A chunk of a run is in it once, any other chunk of h is not in it.
LEMMA RunCount ==
  ASSUME NEW s \in Seq(Entry), NEW h, NEW lo \in Nat, NEW hi \in Nat, Run(s, h, lo, hi), NEW n \in Nat
  PROVE  In(s, <<h, n>>) = IF n \in lo + 1 .. hi THEN 1 ELSE 0
<1> DEFINE A == {k \in 1 .. Len(s) : s[k] = <<h, n>>}
<1>1. CASE n \notin lo + 1 .. hi
  <2>1. A = {}
    BY <1>1 DEF Run
  <2> QED BY <1>1, <2>1, FS_EmptySet DEF In
<1>2. CASE n \in lo + 1 .. hi
  <2>1. PICK i \in 1 .. Len(s) : s[i] = <<h, n>>
    BY <1>2 DEF Run
  <2>2. ASSUME NEW k \in 1 .. Len(s), s[k] = <<h, n>> PROVE k = i
    <3>1. s[k][1] = h /\ s[i][1] = h /\ s[k][2] = n /\ s[i][2] = n
      BY <2>1, <2>2
    <3>2. ~(k < i) /\ ~(i < k)
      BY <3>1 DEF Run
    <3> QED BY <3>2
  <2>3. A = {i}
    BY <2>1, <2>2
  <2> QED BY <1>2, <2>3, FS_Singleton DEF In
<1> QED BY <1>1, <1>2

LEMMA PrefixCount ==
  ASSUME NEW d \in Nat, NEW n \in Nat
  PROVE  /\ Len(Prefix(d)) = d
         /\ Cardinality({k \in 1 .. Len(Prefix(d)) : Prefix(d)[k] = n}) = IF n \in 1 .. d THEN 1 ELSE 0
<1>1. Len(Prefix(d)) = d /\ \A k \in 1 .. d : Prefix(d)[k] = k
  BY DEF Prefix
<1> DEFINE A == {k \in 1 .. Len(Prefix(d)) : Prefix(d)[k] = n}
<1>2. A = IF n \in 1 .. d THEN {n} ELSE {}
  BY <1>1
<1> QED BY <1>1, <1>2, FS_EmptySet, FS_Singleton

LEMMA PrefixGrows ==
  ASSUME NEW d \in Nat, NEW m \in Nat, d <= m
  PROVE  Prefix(d) \o [k \in 1 .. m - d |-> d + k] = Prefix(m)
<1> DEFINE t == [k \in 1 .. m - d |-> d + k]
<1>1. Prefix(d) \in Seq(Nat) /\ Len(Prefix(d)) = d /\ \A k \in 1 .. d : Prefix(d)[k] = k
  BY DEF Prefix
<1>2. t \in Seq(Nat) /\ Len(t) = m - d /\ \A k \in 1 .. m - d : t[k] = d + k
  OBVIOUS
<1> HIDE DEF t
<1>3. /\ Prefix(d) \o t \in Seq(Nat) /\ Len(Prefix(d) \o t) = m
      /\ \A i \in 1 .. m : (Prefix(d) \o t)[i] = IF i <= d THEN Prefix(d)[i] ELSE t[i - d]
  BY <1>1, <1>2, ConcatProperties
<1>4. \A i \in 1 .. m : (Prefix(d) \o t)[i] = i
  BY <1>1, <1>2, <1>3
<1>5. Prefix(m) \in Seq(Nat) /\ Len(Prefix(m)) = m /\ \A k \in 1 .. m : Prefix(m)[k] = k
  BY DEF Prefix
<1>6. Prefix(d) \o t = Prefix(m)
  BY <1>3, <1>4, <1>5, SeqEqual
<1> QED BY <1>6 DEF t

(* ------------------- Where the chunks of a handle are ------------------- *)

\* A flusher holds entries only between its drain and its last append.
BufInv == \A a \in Flusher : pc[a] \notin {"build", "append"} => buf[a] = <<>>

\* A handle that is not generated yet has no client.
IssuedInv == \A h \in Handle : h > issued => cpc[h] = "none"

\* The client of h has put p chunks into the ring.
Pushed(h, p) ==
    /\ p = sent[h] \/ p = sent[h] + 1
    /\ cpc[h] = "register" => p = sent[h] + 1
    /\ cpc[h] \in {"none", "idle", "push"} => p = sent[h]

\* The file of h holds its first d chunks, flusher x the next ones up to m and
\* the ring the last ones, up to p.
Chain(h, x, d, m, p) ==
    /\ dlog[h] = Prefix(d)
    /\ Run(buf[x], h, d, m)
    /\ Run(ring, h, m, p)
    /\ h \notin HandlesIn(buf[Other(x)])

\* Nothing of h is uploaded, and its chunks lie in order in the file, in the
\* hands of one flusher and in the ring.
Waiting(h) ==
    /\ stored[h] = <<>>
    /\ h \notin marked \cup uploaded \cup registry
    /\ \E x \in Flusher : \E d, m, p \in 0 .. Chunks : Chain(h, x, d, m, p) /\ Pushed(h, p)

\* h is uploaded whole, and nothing of it is left in the buffers and the ring.
Finished(h) ==
    /\ stored[h] = Whole /\ sent[h] = Chunks
    /\ dlog[h] = <<>> \/ dlog[h] = Whole
    /\ h \notin HandlesIn(ring)
    /\ \A a \in Flusher : h \notin HandlesIn(buf[a])

PlaceInv == \A h \in Handle : Unhurt(h) => Waiting(h) \/ Finished(h)

ContentInv == BufInv /\ IssuedInv /\ PlaceInv

LEMMA ContentInit == Init => ContentInv
<1> SUFFICES ASSUME Init PROVE ContentInv
  OBVIOUS
<1> USE SizesAssumption
<1>1. BufInv /\ IssuedInv
  BY DEF Init, BufInv, IssuedInv
<1>2. ASSUME NEW h \in Handle PROVE Waiting(h)
  <2>1. Chain(h, "monitor", 0, 0, 0)
    <3>1. dlog[h] = <<>> /\ buf["monitor"] = <<>> /\ buf["uploader"] = <<>> /\ ring = <<>>
      BY DEF Init, Flusher
    <3>2. Prefix(0) = <<>>
      BY DEF Prefix
    <3>3. <<>> \in Seq(Entry) /\ h \notin HandlesIn(<<>>) /\ 0 \in Nat
      BY DEF HandlesIn
    <3>4. Run(<<>>, h, 0, 0)
      BY <3>3, RunNone
    <3> QED BY <3>1, <3>2, <3>3, <3>4 DEF Chain, Other
  <2>2. Pushed(h, 0)
    BY DEF Init, Pushed
  <2>3. "monitor" \in Flusher /\ 0 \in 0 .. Chunks
    BY DEF Flusher
  <2> QED BY <2>1, <2>2, <2>3 DEF Init, Waiting
<1> QED BY <1>1, <1>2 DEF ContentInv, PlaceInv

LEMMA BufStep == TypeInv /\ BufInv /\ [Next]_vars => BufInv'
<1> SUFFICES ASSUME TypeInv, BufInv, [Next]_vars PROVE BufInv'
  OBVIOUS
<1>a. DOMAIN pc = Flusher /\ DOMAIN buf = Flusher /\ "monitor" \in Flusher /\ "uploader" \in Flusher
  BY DEF TypeInv, TypeOK, Flusher
<1>b. ASSUME pc' = pc, buf' = buf PROVE BufInv'
  BY <1>b DEF BufInv
<1>c. ASSUME NEW a \in Flusher, NEW v, buf' = buf, pc' = [pc EXCEPT ![a] = v],
             pc[a] \notin {"build", "append"}
      PROVE  BufInv'
  BY <1>a, <1>c DEF BufInv
<1>1. CASE UNCHANGED vars
  BY <1>1, <1>b DEF vars
<1>2. ASSUME NEW h \in Handle, Client(h) PROVE BufInv'
  BY <1>2, <1>b DEF Client, WriteCheck, WritePush, WriteRegister
<1>3. CASE GenerateHandle \/ Expire \/ ReplayClose \/ ReplaySkip \/ UploadFile \/ UploadFails
  BY <1>3, <1>b DEF GenerateHandle, Expire, ReplayClose, ReplaySkip, UploadFile, UploadFails
<1>4. CASE Crash
  BY <1>4 DEF Crash, BufInv
<1>5. CASE MonitorStart \/ ReplayVisit \/ ReplayPush \/ ReplayRegister \/ DeletionTick
  BY <1>5, <1>a, <1>c DEF MonitorStart, ReplayVisit, ReplayPush, ReplayRegister, DeletionTick
<1>6. CASE ReplayOpen
  <2>1. CASE pc' = pc
    BY <1>6, <2>1, <1>b DEF ReplayOpen
  <2>2. CASE pc' = [pc EXCEPT !["monitor"] = "select"]
    BY <1>6, <2>2, <1>a, <1>c DEF ReplayOpen
  <2> QED BY <1>6, <2>1, <2>2 DEF ReplayOpen
<1>7. CASE Snapshot \/ MarkHandlesUploaded \/ RemoveFiles
  BY <1>7, <1>a, <1>c DEF Snapshot, MarkHandlesUploaded, RemoveFiles
<1>8. ASSUME NEW a \in Flusher, Drain(a) PROVE BufInv'
  BY <1>8, <1>a DEF Drain, BufInv
<1>9. ASSUME NEW a \in Flusher, Sync(a) PROVE BufInv'
  <2>1. CASE Build(a)
    BY <2>1, <1>a DEF Build, BufInv
  <2>2. CASE AppendFile(a)
    <3>1. pc' = pc /\ pc[a] = "append" /\ \A b \in Flusher : b # a => buf'[b] = buf[b]
      BY <2>2, <1>a DEF AppendFile
    <3> QED BY <3>1 DEF BufInv
  <2>3. CASE AppendFails(a)
    BY <2>3, <1>a DEF AppendFails, BufInv
  <2>4. CASE AppendDone(a)
    BY <2>4, <1>a DEF AppendDone, BufInv
  <2>5. CASE Save(a)
    BY <2>5, <1>c DEF Save
  <2> QED BY <1>9, <2>1, <2>2, <2>3, <2>4, <2>5 DEF Sync
<1> QED BY <1>1, <1>2, <1>3, <1>4, <1>5, <1>6, <1>7, <1>8, <1>9, <1>a
        DEF Next, Monitor, Uploader, CleanupTick, UploadTick

LEMMA IssuedStep == TypeInv /\ IssuedInv /\ [Next]_vars => IssuedInv'
<1> SUFFICES ASSUME TypeInv, IssuedInv, [Next]_vars PROVE IssuedInv'
  OBVIOUS
<1>a. /\ issued \in 0 .. MaxHandle /\ MaxHandle \in Nat /\ Handle \subseteq Nat
      /\ DOMAIN cpc = Handle
  BY SizesAssumption DEF TypeInv, TypeOK, Handle
<1>b. ASSUME issued' = issued, cpc' = cpc PROVE IssuedInv'
  BY <1>b DEF IssuedInv
<1>1. CASE UNCHANGED vars
  BY <1>1, <1>b DEF vars, clients
<1>2. CASE GenerateHandle
  <2>1. /\ issued' = issued + 1
        /\ \A g \in Handle : g # issued + 1 => cpc'[g] = cpc[g]
    BY <1>2, <1>a DEF GenerateHandle
  <2>2. \A g \in Handle : g > issued + 1 => g > issued /\ g # issued + 1
    BY <1>a
  <2> QED BY <2>1, <2>2 DEF IssuedInv
<1>3. ASSUME NEW h \in Handle, Client(h) PROVE IssuedInv'
  <2>1. issued' = issued /\ cpc[h] # "none" /\ \A g \in Handle : g # h => cpc'[g] = cpc[g]
    BY <1>3, <1>a DEF Client, WriteCheck, WritePush, WriteRegister, Refuse
  <2> QED BY <2>1 DEF IssuedInv
<1>4. CASE Crash
  BY <1>4 DEF Crash, IssuedInv
<1>5. ASSUME NEW a \in Flusher, Sync(a) PROVE IssuedInv'
  BY <1>5, <1>b DEF Sync, Build, AppendFile, AppendFails, AppendDone, Save, clients
<1>6. CASE Monitor
  BY <1>5, <1>6, <1>b DEF Monitor, Flusher, MonitorStart, ReplayOpen, ReplayClose, ReplaySkip,
                          ReplayVisit, ReplayPush, ReplayRegister, clients
<1>7. CASE Uploader
  BY <1>5, <1>7, <1>b DEF Uploader, Flusher, Snapshot, UploadFile, UploadFails,
                          MarkHandlesUploaded, RemoveFiles, clients
<1>8. CASE Expire \/ CleanupTick \/ DeletionTick \/ UploadTick
  BY <1>8, <1>b DEF Expire, CleanupTick, DeletionTick, UploadTick, clients
<1> QED BY <1>1, <1>2, <1>3, <1>4, <1>6, <1>7, <1>8 DEF Next

\* Whatever run of h the sequence s is, t is the same one.
Keeps(s, t, h) == \A lo, hi \in Nat : Run(s, h, lo, hi) => Run(t, h, lo, hi)

LEMMA KeepsNone ==
  ASSUME NEW s \in Seq(Entry), NEW t \in Seq(Entry), NEW h, h \notin HandlesIn(s)
  PROVE  Keeps(s, t, h) <=> h \notin HandlesIn(t)
<1>1. ASSUME Keeps(s, t, h) PROVE h \notin HandlesIn(t)
  <2>1. Run(s, h, 0, 0)
    BY RunNone
  <2>2. Run(t, h, 0, 0)
    BY <1>1, <2>1 DEF Keeps
  <2> QED BY <2>2, RunNone
<1>2. ASSUME h \notin HandlesIn(t), NEW lo \in Nat, NEW hi \in Nat, Run(s, h, lo, hi)
      PROVE  Run(t, h, lo, hi)
  <2>1. lo = hi
    BY <1>2, RunEmpty
  <2> QED BY <1>2, <2>1, RunNone
<1> QED BY <1>1, <1>2 DEF Keeps

LEMMA KeepsSame == ASSUME NEW s, NEW h PROVE Keeps(s, s, h)
BY DEF Keeps

\* How to show that h is waiting after a step.
LEMMA WaitingNext ==
  ASSUME NEW h, NEW x \in Flusher, NEW d \in 0 .. Chunks, NEW m \in 0 .. Chunks, NEW p \in 0 .. Chunks,
         stored'[h] = <<>>, h \notin marked' \cup uploaded' \cup registry',
         dlog'[h] = Prefix(d), Run(buf'[x], h, d, m), Run(ring', h, m, p),
         h \notin HandlesIn(buf'[Other(x)]), Pushed(h, p)'
  PROVE  Waiting(h)'
<1>1. Chain(h, x, d, m, p)'
  BY DEF Chain
<1> QED BY <1>1 DEF Waiting

\* What is known of a waiting handle.
LEMMA WaitingNow ==
  ASSUME NEW h, Waiting(h)
  PROVE  \E x \in Flusher, d \in 0 .. Chunks, m \in 0 .. Chunks, p \in 0 .. Chunks :
            /\ dlog[h] = Prefix(d) /\ Run(buf[x], h, d, m) /\ Run(ring, h, m, p)
            /\ h \notin HandlesIn(buf[Other(x)]) /\ Pushed(h, p)
<1>1. PICK x \in Flusher : \E d, m, p \in 0 .. Chunks : Chain(h, x, d, m, p) /\ Pushed(h, p)
  BY DEF Waiting
<1>2. PICK d \in 0 .. Chunks, m \in 0 .. Chunks, p \in 0 .. Chunks :
         Chain(h, x, d, m, p) /\ Pushed(h, p)
  BY <1>1
<1> QED BY <1>2 DEF Chain

\* A step that leaves the chunks of h where they are.
LEMMA PlaceKept ==
  ASSUME NEW h \in Handle, Waiting(h) \/ Finished(h), TypeInv, TypeInv',
         Keeps(ring, ring', h), \A a \in Flusher : Keeps(buf[a], buf'[a], h),
         dlog'[h] = dlog[h], stored'[h] = stored[h], sent'[h] = sent[h],
         \/ cpc'[h] = cpc[h] \/ cpc'[h] = "gone"
         \/ cpc[h] \in {"none", "idle"} /\ cpc'[h] \in {"idle", "push"},
         h \in marked' \cup uploaded' \cup registry' =>
            h \in marked \cup uploaded \cup registry
  PROVE  (Waiting(h) \/ Finished(h))'
<1>a. /\ ring \in Seq(Entry) /\ ring' \in Seq(Entry)
      /\ \A a \in Flusher : buf[a] \in Seq(Entry) /\ buf'[a] \in Seq(Entry)
      /\ 0 .. Chunks \subseteq Nat
  <2>1. /\ ring \in Seq(Entry) /\ buf \in [Flusher -> Seq(Entry)]
        /\ ring' \in Seq(Entry) /\ buf' \in [Flusher -> Seq(Entry)]
    BY DEF TypeInv, TypeOK, Entry
  <2> QED BY <2>1, SizesAssumption
<1>1. CASE Waiting(h)
  <2>1. PICK x \in Flusher, d \in 0 .. Chunks, m \in 0 .. Chunks, p \in 0 .. Chunks :
            /\ dlog[h] = Prefix(d) /\ Run(buf[x], h, d, m) /\ Run(ring, h, m, p)
            /\ h \notin HandlesIn(buf[Other(x)]) /\ Pushed(h, p)
    BY <1>1, WaitingNow
  <2>2. Run(buf'[x], h, d, m) /\ Run(ring', h, m, p)
    BY <1>a, <2>1 DEF Keeps
  <2>3. Other(x) \in Flusher
    BY DEF Other, Flusher
  <2>4. h \notin HandlesIn(buf'[Other(x)])
    BY <1>a, <2>1, <2>3, KeepsNone
  <2>5. Pushed(h, p)'
    BY <2>1 DEF Pushed
  <2>6. stored'[h] = <<>> /\ h \notin marked' \cup uploaded' \cup registry'
    BY <1>1 DEF Waiting
  <2>7. Waiting(h)'
    BY <2>1, <2>2, <2>4, <2>5, <2>6, WaitingNext
  <2> QED BY <2>7
<1>2. CASE Finished(h)
  <2>1. h \notin HandlesIn(ring') /\ \A a \in Flusher : h \notin HandlesIn(buf'[a])
    BY <1>a, <1>2, KeepsNone DEF Finished
  <2> QED BY <1>2, <2>1 DEF Finished
<1> QED BY <1>1, <1>2

LEMMA PlaceStep == TypeInv /\ SettledInv /\ ContentInv /\ [Next]_vars => PlaceInv'
<1> SUFFICES ASSUME TypeInv, SettledInv, ContentInv, [Next]_vars,
                    NEW h \in Handle, Unhurt(h)'
             PROVE  (Waiting(h) \/ Finished(h))'
  BY DEF PlaceInv
<1> USE SizesAssumption
<1>a. TypeInv'
  BY TypeStep
<1>b. Unhurt(h) /\ hurt \subseteq hurt' /\ \A cause \in Cause : <<h, cause>> \notin hurt'
  BY HurtGrows DEF Unhurt
<1>c. /\ ring \in Seq(Entry) /\ ring' \in Seq(Entry) /\ <<>> \in Seq(Entry)
      /\ \A a \in Flusher : buf[a] \in Seq(Entry) /\ buf'[a] \in Seq(Entry)
      /\ DOMAIN buf = Flusher /\ DOMAIN cpc = Handle /\ DOMAIN sent = Handle
      /\ DOMAIN dlog = Handle /\ DOMAIN stored = Handle
      /\ 0 .. Chunks \subseteq Nat /\ Chunks \in Nat /\ sent[h] \in 0 .. Chunks
      /\ "monitor" \in Flusher /\ "uploader" \in Flusher
      /\ h \notin HandlesIn(<<>>)
  BY <1>a DEF TypeInv, TypeOK, Entry, Flusher, HandlesIn
<1>d. /\ Waiting(h) \/ Finished(h)
      /\ <<h, "replayed">> \notin hurt
  BY <1>b DEF ContentInv, PlaceInv, Cause
<1>e. ASSUME ring' = ring, buf' = buf, dlog'[h] = dlog[h], stored'[h] = stored[h],
             sent'[h] = sent[h],
             \/ cpc'[h] = cpc[h] \/ cpc'[h] = "gone"
             \/ cpc[h] \in {"none", "idle"} /\ cpc'[h] \in {"idle", "push"},
             h \in marked' \cup uploaded' \cup registry' =>
                h \in marked \cup uploaded \cup registry
      PROVE  (Waiting(h) \/ Finished(h))'
  BY <1>a, <1>d, <1>e, KeepsSame, PlaceKept
<1>1. CASE UNCHANGED vars
  BY <1>1, <1>e DEF vars, disk, clients, upload
<1>2. CASE GenerateHandle
  <2>1. cpc'[h] = cpc[h] \/ (cpc[h] = "none" /\ cpc'[h] = "idle")
    <3>1. CASE h = issued + 1
      <4>1. h > issued
        BY <3>1 DEF TypeInv, TypeOK
      <4> QED BY <1>2, <1>c, <3>1, <4>1 DEF GenerateHandle, ContentInv, IssuedInv
    <3>2. CASE h # issued + 1
      <4>1. cpc' = [cpc EXCEPT ![issued + 1] = "idle"]
        BY <1>2 DEF GenerateHandle
      <4> QED BY <1>c, <3>2, <4>1
    <3> QED BY <3>1, <3>2
  <2> QED BY <1>2, <1>e, <2>1 DEF GenerateHandle, disk, upload
<1>3. ASSUME NEW g \in Handle, WriteCheck(g) PROVE (Waiting(h) \/ Finished(h))'
  <2>3. g = h => ~Refuse(g)
    BY <1>b DEF Refuse, Hurt, Cause
  <2>4. /\ cpc[g] = "idle"
        /\ Refuse(g) \/ (cpc' = [cpc EXCEPT ![g] = "push"] /\ UNCHANGED sent)
    BY <1>3 DEF WriteCheck
  <2>1. cpc'[h] = cpc[h] \/ (cpc[h] = "idle" /\ cpc'[h] = "push")
    BY <1>c, <2>3, <2>4 DEF Refuse
  <2>2. sent'[h] = sent[h]
    BY <1>c, <2>3, <2>4 DEF Refuse
  <2> QED BY <1>3, <1>e, <2>1, <2>2 DEF WriteCheck, disk, upload
<1>4. ASSUME NEW g \in Handle, WritePush(g) PROVE (Waiting(h) \/ Finished(h))'
  <2>1. UNCHANGED <<dlog, registry, stored, uploaded, marked, buf>> /\ cpc[g] = "push"
    BY <1>4 DEF WritePush, disk, upload
  <2>2. CASE g # h
    <3>1. cpc'[h] = cpc[h] /\ sent'[h] = sent[h]
      BY <1>4, <1>c, <2>2 DEF WritePush, Refuse
    <3>2. <<g, sent[g] + 1>> \in Entry
      <4>1. sent[g] \in 0 .. Chunks /\ sent[g] < Chunks
        BY <2>1 DEF TypeInv, TypeOK, FlowInv
      <4>2. sent[g] + 1 \in 1 .. Chunks
        BY <1>c, <4>1
      <4> QED BY <4>2 DEF Entry
    <3>3. Keeps(ring, ring', h)
      <4>1. CASE ring' = ring
        BY <4>1, KeepsSame
      <4>2. CASE ring' = Append(ring, <<g, sent[g] + 1>>)
        BY <1>c, <2>2, <3>2, <4>2, RunAppendOther DEF Keeps
      <4>3. CASE /\ Len(ring) = Cap /\ ring' = Append(Tail(ring), <<g, sent[g] + 1>>)
                 /\ Hurt({Head(ring)[1]}, "dropped")
        <5>1. ring # <<>> /\ Tail(ring) \in Seq(Entry)
          BY <1>c, <4>3
        <5>2. Head(ring)[1] # h
          BY <1>b, <4>3 DEF Hurt, Cause
        <5>3. ASSUME NEW lo \in Nat, NEW hi \in Nat, Run(ring, h, lo, hi)
              PROVE  Run(ring', h, lo, hi)
          <6>1. Run(Tail(ring), h, lo, hi)
            BY <1>c, <5>1, <5>2, <5>3, RunTail
          <6> QED BY <2>2, <3>2, <4>3, <5>1, <6>1, RunAppendOther
        <5> QED BY <5>3 DEF Keeps
      <4> QED BY <1>4, <4>1, <4>2, <4>3 DEF WritePush
    <3> QED BY <1>a, <1>d, <2>1, <3>1, <3>3, KeepsSame, PlaceKept
  <2>3. CASE g = h
    <3>1. sent[h] < Chunks /\ sent[h] + 1 \in 1 .. Chunks /\ sent[h] + 1 \in 0 .. Chunks
      BY <2>1, <2>3, <1>c DEF TypeInv, TypeOK, FlowInv
    <3>2. Waiting(h)
      BY <1>d, <3>1, <1>c DEF Finished
    <3>3. PICK x \in Flusher, d \in 0 .. Chunks, m \in 0 .. Chunks, p \in 0 .. Chunks :
            /\ dlog[h] = Prefix(d) /\ Run(buf[x], h, d, m) /\ Run(ring, h, m, p)
            /\ h \notin HandlesIn(buf[Other(x)]) /\ Pushed(h, p)
      BY <3>2, WaitingNow
    <3>4. p = sent[h] /\ <<h, p + 1>> \in Entry
      BY <2>1, <2>3, <3>1, <3>3 DEF Pushed, Entry
    <3>5. UNCHANGED sent /\ cpc'[h] = "register"
      BY <1>4, <1>b, <1>c, <2>3 DEF WritePush, Refuse, Hurt, Cause
    <3>6. Run(ring', h, m, p + 1)
      <4>1. CASE ring' = Append(ring, <<h, p + 1>>)
        BY <1>c, <3>3, <3>4, <4>1, RunAppendOwn
      <4>2. CASE /\ Len(ring) = Cap /\ ring' = Append(Tail(ring), <<h, p + 1>>)
                 /\ Hurt({Head(ring)[1]}, "dropped")
        <5>1. ring # <<>> /\ Tail(ring) \in Seq(Entry)
          BY <1>c, <4>2
        <5>2. Head(ring)[1] # h
          BY <1>b, <4>2 DEF Hurt, Cause
        <5>3. Run(Tail(ring), h, m, p)
          BY <1>c, <3>3, <5>1, <5>2, RunTail
        <5> QED BY <1>c, <3>4, <4>2, <5>1, <5>3, RunAppendOwn
      <4>3. ~(Refuse(h) /\ UNCHANGED ring)
        BY <1>b DEF Refuse, Hurt, Cause
      <4> QED BY <1>4, <2>3, <3>4, <4>1, <4>2, <4>3 DEF WritePush
    <3>7. Pushed(h, p + 1)'
      BY <3>4, <3>5 DEF Pushed
    <3>8. stored'[h] = <<>> /\ h \notin marked' \cup uploaded' \cup registry'
      BY <2>1, <3>2 DEF Waiting
    <3>9. p + 1 \in 0 .. Chunks
      BY <3>1, <3>4
    <3>10. Waiting(h)'
      BY <2>1, <3>3, <3>6, <3>7, <3>8, <3>9, WaitingNext
    <3> QED BY <3>10
  <2> QED BY <2>2, <2>3
<1>5. ASSUME NEW g \in Handle, WriteRegister(g) PROVE (Waiting(h) \/ Finished(h))'
  <2>1. UNCHANGED <<dlog, registry, stored, uploaded, marked, buf, ring>> /\ cpc[g] = "register"
    BY <1>5 DEF WriteRegister, disk, upload
  <2>2. CASE g # h
    <3>1. cpc'[h] = cpc[h] /\ sent'[h] = sent[h]
      BY <1>5, <1>c, <2>2 DEF WriteRegister
    <3> QED BY <1>e, <2>1, <3>1
  <2>3. CASE g = h
    <3>1. sent[h] < Chunks /\ sent'[h] = sent[h] + 1 /\ cpc'[h] = "idle"
      BY <1>5, <1>c, <2>1, <2>3 DEF WriteRegister, TypeInv, FlowInv
    <3>2. Waiting(h)
      BY <1>d, <3>1, <1>c DEF Finished
    <3>3. PICK x \in Flusher, d \in 0 .. Chunks, m \in 0 .. Chunks, p \in 0 .. Chunks :
            /\ dlog[h] = Prefix(d) /\ Run(buf[x], h, d, m) /\ Run(ring, h, m, p)
            /\ h \notin HandlesIn(buf[Other(x)]) /\ Pushed(h, p)
      BY <3>2, WaitingNow
    <3>4. Pushed(h, p)'
      BY <2>1, <2>3, <3>1, <3>3 DEF Pushed
    <3>5. stored'[h] = <<>> /\ h \notin marked' \cup uploaded' \cup registry'
      BY <2>1, <3>2 DEF Waiting
    <3>6. Waiting(h)'
      BY <2>1, <3>3, <3>4, <3>5, WaitingNext
    <3> QED BY <3>6
  <2> QED BY <2>2, <2>3
<1>6. CASE Expire \/ MonitorStart \/ ReplayOpen \/ ReplayClose \/ ReplaySkip \/ ReplayVisit \/ ReplayRegister
  <2>1. UNCHANGED <<ring, buf, dlog, stored, sent, cpc, marked, uploaded, registry>>
    BY <1>6 DEF Expire, MonitorStart, ReplayOpen, ReplayClose, ReplaySkip, ReplayVisit,
                ReplayRegister, disk, clients, upload
  <2> QED BY <1>e, <2>1
<1>7. CASE Snapshot \/ UploadFails \/ MarkHandlesUploaded
  <2>1. UNCHANGED <<ring, buf, dlog, stored, sent, cpc, marked, registry>>
    BY <1>7 DEF Snapshot, UploadFails, MarkHandlesUploaded, disk, clients, upload
  <2>2. uploaded' \subseteq uploaded \cup marked
    BY <1>7 DEF Snapshot, UploadFails, MarkHandlesUploaded
  <2> QED BY <1>e, <2>1, <2>2
<1>8. CASE ReplayPush
  <2>1. UNCHANGED <<buf, dlog, stored, sent, cpc, marked, uploaded, registry>>
    BY <1>8 DEF ReplayPush, disk, clients, upload
  <2>2. rfile # h /\ <<rfile, rchunk>> \in Entry
    BY <1>8, <1>d DEF ReplayPush, SettledInv, TypeInv, FlowInv, Entry
  <2>3. Keeps(ring, ring', h)
    <3>1. CASE ring' = ring
      BY <3>1, KeepsSame
    <3>2. CASE ring' = Append(ring, <<rfile, rchunk>>)
      BY <1>c, <2>2, <3>2, RunAppendOther DEF Keeps
    <3> QED BY <1>8, <3>1, <3>2 DEF ReplayPush
  <2> QED BY <1>a, <1>d, <2>1, <2>3, KeepsSame, PlaceKept
<1>9. CASE Crash
  <2>1. h \notin HandlesIn(ring) /\ \A a \in Flusher : h \notin HandlesIn(buf[a])
    BY <1>9, <1>b DEF Crash, Hurt, Cause
  <2>2. ring' = <<>> /\ \A a \in Flusher : buf'[a] = <<>>
    BY <1>9 DEF Crash
  <2>3. Keeps(ring, ring', h) /\ \A a \in Flusher : Keeps(buf[a], buf'[a], h)
    BY <1>c, <2>1, <2>2, KeepsNone
  <2>4. dlog' = dlog /\ stored' = stored /\ sent' = sent /\ registry' = registry /\ uploaded' = registry /\ marked' = {}
    BY <1>9 DEF Crash, disk
  <2>5. cpc'[h] = cpc[h] \/ cpc'[h] = "gone"
    BY <1>9 DEF Crash
  <2> QED BY <1>a, <1>d, <2>3, <2>4, <2>5, PlaceKept
<1>10. ASSUME NEW a \in Flusher, Sync(a) PROVE (Waiting(h) \/ Finished(h))'
  <2>a. ASSUME NEW t, buf' = [buf EXCEPT ![a] = t], Keeps(buf[a], t, h),
               UNCHANGED <<ring, stored, sent, cpc, marked, uploaded, registry>>, dlog'[h] = dlog[h]
        PROVE  (Waiting(h) \/ Finished(h))'
    <3>1. \A b \in Flusher : Keeps(buf[b], buf'[b], h)
      BY <1>c, <2>a, KeepsSame
    <3> QED BY <1>a, <1>d, <2>a, <3>1, KeepsSame, PlaceKept
  <2>1. CASE Build(a)
    <3> DEFINE ps == {k \in 1 .. Len(buf[a]) : ~isHandleExpired(buf[a][k][1])}
    <3>1. buf' = [buf EXCEPT ![a] = Selected(buf[a], ps)] /\ ps \in SUBSET (1 .. Len(buf[a]))
      BY <2>1 DEF Build
    <3>2. Selected(buf[a], ps) \in Seq(Entry)
      BY <1>c, <3>1, SelectedType
    <3>3. Keeps(buf[a], Selected(buf[a], ps), h)
      <4>1. CASE isHandleExpired(h)
        <5>1. h \notin HandlesIn(buf[a])
          BY <1>b, <2>1, <4>1 DEF Build, Hurt, Cause
        <5>2. \A i \in ps : buf[a][i][1] # h
          BY <5>1 DEF HandlesIn
        <5>3. h \notin HandlesIn(Selected(buf[a], ps))
          BY <1>c, <3>1, <5>2, NoneSelected
        <5> QED BY <1>c, <3>2, <5>1, <5>3, KeepsNone
      <4>2. CASE ~isHandleExpired(h)
        <5>1. Positions(buf[a], h) \subseteq ps
          BY <4>2 DEF Positions
        <5> QED BY <1>c, <3>1, <5>1, RunSelected DEF Keeps
      <4> QED BY <4>1, <4>2
    <3>4. UNCHANGED <<ring, dlog, stored, sent, cpc, marked, uploaded, registry>>
      BY <2>1 DEF Build, disk, clients, upload
    <3> QED BY <2>a, <3>1, <3>3, <3>4
  <2>2. CASE AppendFile(a)
    <3>1. PICK g \in HandlesIn(buf[a]) :
             /\ dlog' = [dlog EXCEPT ![g] = @ \o ChunksOf(buf[a], g)]
             /\ buf' = [buf EXCEPT ![a] = Without(@, g)]
      BY <2>2 DEF AppendFile
    <3>2. UNCHANGED <<ring, stored, sent, cpc, marked, uploaded, registry>>
      BY <2>2 DEF AppendFile, clients, upload
    <3> DEFINE ps == (1 .. Len(buf[a])) \ Positions(buf[a], g)
    <3>3. ps \in SUBSET (1 .. Len(buf[a])) /\ Without(buf[a], g) = Selected(buf[a], ps)
      BY DEF Without
    <3>4. CASE g # h
      <4>1. Positions(buf[a], h) \subseteq ps
        BY <3>4 DEF Positions
      <4>2. Keeps(buf[a], Without(buf[a], g), h)
        <5> HIDE DEF ps
        <5>1. ASSUME NEW lo \in Nat, NEW hi \in Nat, Run(buf[a], h, lo, hi)
              PROVE  Run(Selected(buf[a], ps), h, lo, hi)
          BY <1>c, <3>3, <4>1, <5>1, RunSelected
        <5> QED BY <3>3, <5>1 DEF Keeps
      <4>3. dlog'[h] = dlog[h]
        BY <1>c, <3>1, <3>4
      <4> QED BY <2>a, <3>1, <3>2, <4>2, <4>3
    <3>5. CASE g = h
      <4>1. Waiting(h)
        BY <1>d, <3>5 DEF Finished
      <4>2. PICK x \in Flusher, d \in 0 .. Chunks, m \in 0 .. Chunks, p \in 0 .. Chunks :
              /\ dlog[h] = Prefix(d) /\ Run(buf[x], h, d, m) /\ Run(ring, h, m, p)
              /\ h \notin HandlesIn(buf[Other(x)]) /\ Pushed(h, p)
        BY <4>1, WaitingNow
      <4>3. x = a
        <5>1. a # Other(x)
          BY <3>5, <4>2
        <5> QED BY <5>1 DEF Other, Flusher
      <4>4. d \in Nat /\ m \in Nat /\ d <= m
        BY <1>c, <4>2 DEF Run
      <4>5. ChunksOf(buf[a], h) = [k \in 1 .. m - d |-> d + k]
        BY <1>c, <4>2, <4>3, <4>4, RunChunks
      <4>6. dlog'[h] = Prefix(m)
        <5>1. dlog'[h] = dlog[h] \o ChunksOf(buf[a], h)
          BY <1>c, <3>1, <3>5
        <5>2. Prefix(d) \o [k \in 1 .. m - d |-> d + k] = Prefix(m)
          BY <4>4, PrefixGrows
        <5> QED BY <4>2, <4>5, <5>1, <5>2
      <4>7. Run(buf'[a], h, m, m)
        <5>1. \A i \in ps : buf[a][i][1] # h
          BY <3>5 DEF Positions
        <5>2. h \notin HandlesIn(Without(buf[a], g))
          BY <1>c, <3>3, <5>1, NoneSelected
        <5>3. buf'[a] = Without(buf[a], g)
          BY <1>c, <3>1
        <5> QED BY <1>c, <4>4, <5>2, <5>3, RunNone
      <4>8. h \notin HandlesIn(buf'[Other(a)])
        <5>1. buf'[Other(a)] = buf[Other(a)]
          BY <1>c, <3>1 DEF Other
        <5> QED BY <4>2, <4>3, <5>1
      <4>9. Pushed(h, p)' /\ stored'[h] = <<>> /\ h \notin marked' \cup uploaded' \cup registry'
        BY <3>2, <4>1, <4>2 DEF Pushed, Waiting
      <4>10. Run(ring', h, m, p)
        BY <3>2, <4>2
      <4>11. Waiting(h)'
        BY <4>6, <4>7, <4>8, <4>9, <4>10, WaitingNext
      <4> QED BY <4>11
    <3> QED BY <3>4, <3>5
  <2>3. CASE AppendFails(a)
    <3>1. h \notin HandlesIn(buf[a])
      BY <1>b, <2>3 DEF AppendFails, Hurt, Cause
    <3>2. Keeps(buf[a], <<>>, h)
      BY <1>c, <3>1, KeepsNone
    <3> QED BY <2>a, <2>3, <3>2 DEF AppendFails, disk, clients, upload
  <2>4. CASE AppendDone(a) \/ Save(a)
    <3>1. UNCHANGED <<ring, buf, dlog, stored, sent, cpc, marked, uploaded>>
      BY <2>4 DEF AppendDone, Save, disk, clients, upload
    <3>2. registry' = registry \/ registry' = uploaded
      BY <2>4 DEF AppendDone, Save, disk
    <3> QED BY <1>e, <3>1, <3>2
  <2> QED BY <1>10, <2>1, <2>2, <2>3, <2>4 DEF Sync
<1>11. ASSUME NEW a \in Flusher, Drain(a), pc[a] \in {"idle", "select"},
              UNCHANGED <<handles, uploaded, nextHandle, disk, clients, expired, replay, upload>>
       PROVE  (Waiting(h) \/ Finished(h))'
  <2>1. UNCHANGED <<dlog, stored, sent, cpc, marked, uploaded, registry>>
    BY <1>11 DEF disk, clients, upload
  <2>2. ring' = <<>> /\ buf'[a] = ring /\ buf[a] = <<>> /\ \A b \in Flusher : b # a => buf'[b] = buf[b]
    BY <1>11, <1>c DEF Drain, ContentInv, BufInv
  <2>3. h \notin HandlesIn(ring) \cap HandlesIn(buf[Other(a)])
    BY <1>11, <1>b DEF Drain, Hurt, Cause
  <2>4. Other(a) \in Flusher /\ Other(a) # a /\ \A b \in Flusher : b = a \/ b = Other(a)
    BY DEF Other, Flusher
  <2>5. CASE h \notin HandlesIn(ring)
    <3>1. Keeps(ring, ring', h)
      BY <1>c, <2>2, <2>5, KeepsNone
    <3>2. \A b \in Flusher : Keeps(buf[b], buf'[b], h)
      <4>1. Keeps(buf[a], buf'[a], h)
        BY <1>c, <2>2, <2>5, KeepsNone
      <4> QED BY <2>2, <4>1, KeepsSame
    <3> QED BY <1>a, <1>d, <2>1, <3>1, <3>2, PlaceKept
  <2>6. CASE h \in HandlesIn(ring)
    <3>1. Waiting(h) /\ h \notin HandlesIn(buf[Other(a)]) /\ h \notin HandlesIn(buf[a])
      BY <1>c, <1>d, <2>2, <2>3, <2>6 DEF Finished
    <3>2. PICK x \in Flusher, d \in 0 .. Chunks, m \in 0 .. Chunks, p \in 0 .. Chunks :
            /\ dlog[h] = Prefix(d) /\ Run(buf[x], h, d, m) /\ Run(ring, h, m, p)
            /\ h \notin HandlesIn(buf[Other(x)]) /\ Pushed(h, p)
      BY <3>1, WaitingNow
    <3>3. h \notin HandlesIn(buf[x])
      BY <2>4, <3>1
    <3>4. d = m /\ p \in Nat
      BY <1>c, <3>2, <3>3, RunEmpty
    <3>5. Run(buf'[a], h, d, p)
      BY <2>2, <3>2, <3>4
    <3>6. Run(ring', h, p, p)
      BY <1>c, <2>2, <3>4, RunNone
    <3>7. h \notin HandlesIn(buf'[Other(a)])
      BY <2>2, <2>4, <3>1
    <3>8. Pushed(h, p)' /\ stored'[h] = <<>> /\ h \notin marked' \cup uploaded' \cup registry'
      BY <2>1, <3>1, <3>2 DEF Pushed, Waiting
    <3>9. Waiting(h)'
      BY <2>1, <3>2, <3>5, <3>6, <3>7, <3>8, WaitingNext
    <3> QED BY <3>9
  <2> QED BY <2>5, <2>6
<1>12. CASE CleanupTick
  BY <1>11, <1>12, <1>c DEF CleanupTick
<1>13. CASE UploadTick
  BY <1>11, <1>13, <1>c DEF UploadTick
<1>14. CASE DeletionTick \/ RemoveFiles
  <2>1. UNCHANGED <<ring, buf, stored, sent, cpc, registry>>
    BY <1>14 DEF DeletionTick, RemoveFiles, clients
  <2>2. marked' \subseteq marked /\ uploaded' \subseteq uploaded
    BY <1>14 DEF DeletionTick, RemoveFiles, upload
  <2>3. dlog'[h] = dlog[h] \/ (h \in marked \cup uploaded /\ dlog'[h] = <<>>)
    <3>1. CASE RemoveFiles
      BY <3>1 DEF RemoveFiles
    <3>2. CASE DeletionTick
      <4>1. PICK old \in SUBSET {g \in uploaded : dlog[g] # <<>>} :
               dlog' = [g \in Handle |-> IF g \in old THEN <<>> ELSE dlog[g]]
        BY <3>2 DEF DeletionTick
      <4> QED BY <4>1
    <3> QED BY <1>14, <3>1, <3>2
  <2>4. CASE dlog'[h] = dlog[h]
    BY <1>e, <2>1, <2>2, <2>4
  <2>5. CASE h \in marked \cup uploaded /\ dlog'[h] = <<>>
    <3>1. Finished(h)
      BY <1>d, <2>5 DEF Waiting
    <3> QED BY <2>1, <2>5, <3>1 DEF Finished
  <2> QED BY <2>3, <2>4, <2>5
<1>15. CASE UploadFile
  <2>1. PICK g \in pending :
           /\ dlog[g] # <<>>
           /\ stored' = [stored EXCEPT ![g] = Overwrite(@, dlog[g])]
           /\ Hurt({g} \cap (HandlesIn(ring) \cup HandlesIn(buf["monitor"])), "overtaken")
           /\ marked' = marked \cup {g} \/ marked' = marked
    BY <1>15 DEF UploadFile
  <2>2. UNCHANGED <<ring, buf, dlog, sent, cpc, uploaded, registry>> /\ pc["uploader"] = "upload"
    BY <1>15 DEF UploadFile, clients
  <2>3. CASE g # h
    <3>1. stored'[h] = stored[h]
      BY <1>c, <2>1, <2>3
    <3> QED BY <1>e, <2>1, <2>2, <2>3, <3>1
  <2>4. CASE g = h
    <3>1. h \notin HandlesIn(ring) /\ h \notin HandlesIn(buf["monitor"])
      BY <1>b, <2>1, <2>4 DEF Hurt, Cause
    <3>2. \A a \in Flusher : h \notin HandlesIn(buf[a])
      BY <1>c, <2>2, <3>1 DEF ContentInv, BufInv, Flusher
    <3>3. sent[h] = Chunks
      BY <1>d, <2>1, <2>4 DEF SettledInv
    <3>4. stored'[h] = Overwrite(stored[h], dlog[h])
      BY <1>c, <2>1, <2>4
    <3>5. Whole \in Seq(Nat) /\ Len(Whole) = Chunks /\ Whole = Prefix(Chunks)
      BY DEF Whole, Prefix
    <3>6. dlog[h] = Whole /\ (stored[h] = <<>> \/ stored[h] = Whole)
      <4>1. CASE Waiting(h)
        <5>1. PICK x \in Flusher, d \in 0 .. Chunks, m \in 0 .. Chunks, p \in 0 .. Chunks :
                /\ dlog[h] = Prefix(d) /\ Run(buf[x], h, d, m) /\ Run(ring, h, m, p)
                /\ h \notin HandlesIn(buf[Other(x)]) /\ Pushed(h, p)
          BY <4>1, WaitingNow
        <5>2. d \in Nat /\ m \in Nat /\ p \in Nat
          BY <1>c
        <5>3. d = m
          BY <1>c, <3>2, <5>1, <5>2, RunEmpty
        <5>4. m = p
          BY <1>c, <3>1, <5>1, <5>2, RunEmpty
        <5>5. p = Chunks
          BY <1>c, <3>3, <5>1, <5>2 DEF Pushed
        <5> QED BY <3>5, <4>1, <5>1, <5>3, <5>4, <5>5 DEF Waiting
      <4>2. CASE Finished(h)
        BY <2>1, <2>4, <4>2 DEF Finished
      <4> QED BY <1>d, <4>1, <4>2
    <3>7. stored'[h] = Whole
      <4>1. CASE stored[h] = <<>>
        <5>1. SubSeq(<<>>, Len(Whole) + 1, Len(<<>>)) = <<>>
          BY <1>c, <3>5, SubSeqEmpty
        <5> QED BY <3>4, <3>5, <3>6, <4>1, <5>1, ConcatEmptySeq DEF Overwrite
      <4>2. CASE stored[h] = Whole
        <5>1. SubSeq(Whole, Len(Whole) + 1, Len(Whole)) = <<>>
          BY <1>c, <3>5, SubSeqEmpty
        <5> QED BY <3>4, <3>5, <3>6, <4>2, <5>1, ConcatEmptySeq DEF Overwrite
      <4> QED BY <3>6, <4>1, <4>2
    <3>8. Finished(h)'
      BY <2>2, <3>1, <3>2, <3>3, <3>6, <3>7 DEF Finished
    <3> QED BY <3>8
  <2> QED BY <2>3, <2>4
<1> QED BY <1>1, <1>2, <1>3, <1>4, <1>5, <1>6, <1>7, <1>8, <1>9, <1>10, <1>12, <1>13,
           <1>14, <1>15, <1>c
        DEF Next, Client, Monitor, Uploader

LEMMA ContentInvariant == Spec => []ContentInv
<1>1. TypeInv /\ SettledInv /\ ContentInv /\ [Next]_vars => ContentInv'
  BY BufStep, IssuedStep, PlaceStep DEF ContentInv
<1> QED BY <1>1, ContentInit, TypeInvariant, SettledInvariant, PTL DEF Spec

\* What is listed as uploaded, in memory or in the registry file, is in the DFS
\* whole, unless a recorded cause explains the difference.
THEOREM UploadedWhole == Spec => []UploadExact
<1>1. ContentInv => UploadExact
  BY DEF ContentInv, PlaceInv, Waiting, Finished, UploadExact, Went
<1> QED BY <1>1, ContentInvariant, PTL

\* Every accepted chunk of an unhurt handle that is not uploaded yet is in
\* exactly one place: ring, buffer of a flusher, or file.
THEOREM ChunksAccounted == Spec => []Accounted
<1>1. TypeInv /\ ContentInv => Accounted
  <2> SUFFICES ASSUME TypeInv, ContentInv, NEW h \in Handle, Unhurt(h), stored[h] = <<>>,
                      NEW n \in 1 .. Chunks
               PROVE  /\ n <= sent[h] => Copies(h, n) = 1
                      /\ n = sent[h] + 1 => Copies(h, n) <= 1
                      /\ n > sent[h] + 1 => Copies(h, n) = 0
    BY DEF Accounted
  <2>1. /\ ring \in Seq(Entry) /\ \A a \in Flusher : buf[a] \in Seq(Entry)
        /\ 0 .. Chunks \subseteq Nat /\ Chunks \in Nat /\ Chunks # 0 /\ sent[h] \in Nat /\ n \in Nat /\ 0 \in Nat
    BY SizesAssumption DEF TypeInv, TypeOK, Entry
  <2>2. Waiting(h)
    <3>1. Whole # <<>>
      BY <2>1 DEF Whole
    <3> QED BY <3>1 DEF ContentInv, PlaceInv, Finished
  <2>3. PICK x \in Flusher, d \in 0 .. Chunks, m \in 0 .. Chunks, p \in 0 .. Chunks :
            /\ dlog[h] = Prefix(d) /\ Run(buf[x], h, d, m) /\ Run(ring, h, m, p)
            /\ h \notin HandlesIn(buf[Other(x)]) /\ Pushed(h, p)
    BY <2>2, WaitingNow
  <2>4. d \in Nat /\ m \in Nat /\ p \in Nat /\ d <= m /\ m <= p /\ (p = sent[h] \/ p = sent[h] + 1)
    BY <2>1, <2>3 DEF Run, Pushed
  <2>5. Copies(h, n) = In(ring, <<h, n>>) + In(buf["monitor"], <<h, n>>) + In(buf["uploader"], <<h, n>>)
                         + Cardinality({k \in 1 .. Len(dlog[h]) : dlog[h][k] = n})
    BY DEF Copies, In
  <2>6. In(buf[x], <<h, n>>) = IF n \in d + 1 .. m THEN 1 ELSE 0
    BY <2>1, <2>3, <2>4, RunCount
  <2>7. In(ring, <<h, n>>) = IF n \in m + 1 .. p THEN 1 ELSE 0
    BY <2>1, <2>3, <2>4, RunCount
  <2>8. In(buf[Other(x)], <<h, n>>) = 0
    <3>1. buf[Other(x)] \in Seq(Entry)
      BY <2>1 DEF Other, Flusher
    <3>2. Run(buf[Other(x)], h, 0, 0)
      BY <2>1, <2>3, <3>1, RunNone
    <3>3. \A lo, hi \in Nat : Run(buf[Other(x)], h, lo, hi) =>
             In(buf[Other(x)], <<h, n>>) = IF n \in lo + 1 .. hi THEN 1 ELSE 0
      BY <2>1, <3>1, RunCount
    <3>4. In(buf[Other(x)], <<h, n>>) = IF n \in 0 + 1 .. 0 THEN 1 ELSE 0
      BY <2>1, <3>2, <3>3, Zenon
    <3>5. n \notin 0 + 1 .. 0
      BY <2>1
    <3> QED BY <3>4, <3>5, Zenon
  <2>9. Cardinality({k \in 1 .. Len(dlog[h]) : dlog[h][k] = n}) = IF n \in 1 .. d THEN 1 ELSE 0
    <3>1. Cardinality({k \in 1 .. Len(Prefix(d)) : Prefix(d)[k] = n}) = IF n \in 1 .. d THEN 1 ELSE 0
      BY <2>1, <2>4, PrefixCount
    <3>2. dlog[h] = Prefix(d)
      BY <2>3
    <3> QED BY <3>1, <3>2, Zenon
  <2>10. Copies(h, n) = (IF n \in d + 1 .. m THEN 1 ELSE 0) + (IF n \in m + 1 .. p THEN 1 ELSE 0)
                          + (IF n \in 1 .. d THEN 1 ELSE 0)
    <3>1. x = "monitor" \/ x = "uploader"
      BY DEF Flusher
    <3>2. CASE x = "monitor"
      BY <2>5, <2>6, <2>7, <2>8, <2>9, <3>2 DEF Other
    <3>3. CASE x = "uploader"
      BY <2>5, <2>6, <2>7, <2>8, <2>9, <3>3 DEF Other
    <3> QED BY <3>1, <3>2, <3>3
  <2> QED BY <2>1, <2>4, <2>10
<1> QED BY <1>1, ContentInvariant, TypeInvariant, PTL
================================================================================
