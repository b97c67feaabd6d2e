--------------------------- MODULE RingBufferProofs ---------------------------
EXTENDS RingBuffer, TLAPS

\* An index has a slot.
LEMMA SlotType == ASSUME NEW i \in Int PROVE Slot(i) \in Slots
BY CapAssumption DEF Slot, Slots

\* On the first lap an index is its own slot.
LEMMA FirstLap == ASSUME NEW i \in Slots PROVE Slot(i) = i
<1> DEFINE q == i \div Cap
<1>1. q \in Int /\ i % Cap \in 0 .. (Cap - 1) /\ i = Cap * q + (i % Cap) /\ i \in 0 .. (Cap - 1)
  BY CapAssumption DEF Slots
<1>2. CASE q >= 1
  BY <1>1, <1>2, CapAssumption
<1>3. CASE q <= -1
  BY <1>1, <1>3, CapAssumption
<1>4. CASE q = 0
  BY <1>1, <1>4, CapAssumption DEF Slot
<1> QED BY <1>1, <1>2, <1>3, <1>4

\* Whole laps away the index has the same slot.
LEMMA Laps == ASSUME NEW i \in Int, NEW n \in Int PROVE Slot(i + Cap * n) = Slot(i)
<1> DEFINE j == i + Cap * n
           q == i \div Cap
           r == j \div Cap
<1>0. Cap * n \in Int
  BY CapAssumption
<1>1. q \in Int /\ i % Cap \in 0 .. (Cap - 1) /\ i = Cap * q + (i % Cap)
  BY CapAssumption
<1>2. r \in Int /\ j % Cap \in 0 .. (Cap - 1) /\ j = Cap * r + (j % Cap)
  BY <1>0, CapAssumption
<1>3. (i % Cap) - (j % Cap) = Cap * (r - q - n)
  BY <1>1, <1>2, CapAssumption
<1>4. CASE r - q - n >= 1
  BY <1>1, <1>2, <1>3, <1>4, CapAssumption
<1>5. CASE r - q - n <= -1
  BY <1>1, <1>2, <1>3, <1>5, CapAssumption
<1>6. CASE r - q - n = 0
  BY <1>1, <1>2, <1>3, <1>6, CapAssumption DEF Slot
<1> QED BY <1>1, <1>2, <1>4, <1>5, <1>6

\* A lap later the index has the same slot.
LEMMA NextLap == ASSUME NEW i \in Int PROVE Slot(i + Cap) = Slot(i)
<1>1. Cap * 1 = Cap
  BY CapAssumption
<1> QED BY <1>1, Laps

\* The Cap indices below t have all the slots between them.
LEMMA WindowCovers ==
  ASSUME NEW t \in Int, NEW s \in Slots
  PROVE  \E i \in (t - Cap) .. (t - 1) : Slot(i) = s
<1> DEFINE d == t - 1 - s
           n == d \div Cap
           i == s + Cap * n
<1>1. s \in Int /\ d \in Int
  BY CapAssumption DEF Slots
<1>2. n \in Int /\ d % Cap \in 0 .. (Cap - 1) /\ d = Cap * n + (d % Cap)
  BY <1>1, CapAssumption
<1>3. Cap * n \in Int
  BY <1>2, CapAssumption
<1>4. i \in (t - Cap) .. (t - 1)
  BY <1>1, <1>2, <1>3, CapAssumption
<1>5. Slot(i) = s
  BY <1>1, <1>2, Laps, FirstLap
<1> QED BY <1>4, <1>5

\* Two indices less than a lap apart that share a slot are equal.
LEMMA SameSlot == ASSUME NEW i \in Int, NEW j \in Int, Slot(i) = Slot(j),
                         i - j < Cap, j - i < Cap
                  PROVE  i = j
<1> DEFINE q == i \div Cap
           r == j \div Cap
<1>1. q \in Int /\ r \in Int /\ i = Cap * q + (i % Cap) /\ j = Cap * r + (j % Cap)
  BY CapAssumption
<1>2. i - j = Cap * (q - r)
  BY <1>1, CapAssumption DEF Slot
<1>3. CASE q - r >= 1
  BY <1>1, <1>2, <1>3, CapAssumption
<1>4. CASE r - q >= 1
  BY <1>1, <1>2, <1>4, CapAssumption
<1>5. CASE q = r
  BY <1>1, <1>2, <1>5, CapAssumption
<1> QED BY <1>1, <1>3, <1>4, <1>5

(* ------------------------------ Typing ---------------------------------- *)

LEMMA TypeStep == TypeOK /\ [Next]_vars => TypeOK'
<1> SUFFICES ASSUME TypeOK, [Next]_vars PROVE TypeOK'
  OBVIOUS
<1> USE CapAssumption, ValuesAssumption DEF TypeOK
<1>1. ASSUME NEW p \in Producers, NEW v \in Values, PushStart(p, v) PROVE TypeOK'
  BY <1>1 DEF PushStart, cvars, ovars
<1>2. ASSUME NEW p \in Producers, PushReload(p) PROVE TypeOK'
  BY <1>2 DEF PushReload, cvars, ovars
<1>3. ASSUME NEW p \in Producers, PushLoadSeq(p) PROVE TypeOK'
  BY <1>3 DEF PushLoadSeq, cvars, ovars
<1>4. ASSUME NEW p \in Producers, PushClaim(p) \/ PushLost(p) PROVE TypeOK'
  BY <1>4 DEF PushClaim, PushLost, cvars, ovars
<1>5. ASSUME NEW p \in Producers, PushWrite(p) PROVE TypeOK'
  BY <1>5 DEF PushWrite, cvars, ovars
<1>6. ASSUME NEW p \in Producers, PushPublish(p) PROVE TypeOK'
  <2>1. ptail[p] + 1 \in Nat
    OBVIOUS
  <2>2. seq' \in [Slots -> Nat]
    BY <1>6, <2>1 DEF PushPublish
  <2> QED BY <1>6, <2>2 DEF PushPublish, cvars, ovars
<1>7. ASSUME NEW c \in Consumers, PopStart(c) \/ PopReload(c) PROVE TypeOK'
  BY <1>7 DEF PopStart, PopReload, pvars, ovars
<1>8. ASSUME NEW c \in Consumers, PopLoadSeq(c) PROVE TypeOK'
  BY <1>8 DEF PopLoadSeq, pvars, ovars
<1>9. ASSUME NEW c \in Consumers, PopClaim(c) \/ PopLost(c) PROVE TypeOK'
  BY <1>9 DEF PopClaim, PopLost, pvars, ovars
<1>10. ASSUME NEW c \in Consumers, PopRead(c) PROVE TypeOK'
  <2>1. Slot(chead[c]) \in Slots
    BY SlotType
  <2> QED BY <1>10, <2>1 DEF PopRead, pvars, ovars
<1>11. ASSUME NEW c \in Consumers, PopRelease(c) PROVE TypeOK'
  <2>1. chead[c] + Cap \in Nat
    OBVIOUS
  <2>2. seq' \in [Slots -> Nat]
    BY <1>11, <2>1 DEF PopRelease
  <2> QED BY <1>11, <2>2 DEF PopRelease, pvars, ovars
<1>12. ASSUME NEW o \in Observers, LenLoadTail(o) \/ LenLoadHead(o) PROVE TypeOK'
  BY <1>12 DEF LenLoadTail, LenLoadHead, pvars, cvars
<1>13. CASE UNCHANGED vars
  BY <1>13 DEF vars, pvars, cvars, ovars
<1> QED
  BY <1>1, <1>2, <1>3, <1>4, <1>5, <1>6, <1>7, <1>8, <1>9, <1>10, <1>11, <1>12, <1>13
  DEF Next, PushOn, PopOn

\* Type correctness of the ring: no interleaving of Push, Pop and Len takes a
\* counter below zero, a sequence number out of the naturals or a goroutine out
\* of its loop.
THEOREM TypeCorrect == Spec => []TypeOK
<1>1. Init => TypeOK
  BY CapAssumption, ValuesAssumption DEF Init, TypeOK, Slots
<1> QED BY <1>1, TypeStep, PTL DEF Spec

(* ------------------------- The inductive invariant ----------------------- *)

\* The slot that tail points at belongs to index tail - Cap.  It carries tail
\* exactly when that index has been released; less than tail when it has not.
LEMMA TailSlot ==
  ASSUME IndInv, Cap > 1
  PROVE  /\ tail - Cap \in (tail - Cap) .. (tail - 1)
         /\ Slot(tail - Cap) = Slot(tail)
         /\ seq[Slot(tail)] = tail => Released(tail - Cap)
         /\ seq[Slot(tail)] < tail => BeingWritten(tail - Cap) \/ Published(tail - Cap)
         /\ seq[Slot(tail)] <= tail
<1> USE CapAssumption
<1>1. tail \in Nat
  BY DEF IndInv, TypeOK
<1>2. tail - Cap \in (tail - Cap) .. (tail - 1)
  BY <1>1
<1>3. Slot(tail - Cap) = Slot(tail)
  <2>1. tail - Cap \in Int /\ (tail - Cap) + Cap = tail
    BY <1>1
  <2> QED BY <2>1, NextLap
<1>4. BeingWritten(tail - Cap) \/ Published(tail - Cap) \/ Released(tail - Cap)
  BY <1>2 DEF IndInv, SlotInv
<1> QED BY <1>1, <1>2, <1>3, <1>4 DEF BeingWritten, Published, Released

\* The slot that head points at carries head + 1 exactly when head is published.
LEMMA HeadSlot ==
  ASSUME IndInv, Cap > 1
  PROVE  /\ seq[Slot(head)] = head + 1 => head < tail /\ Published(head)
         /\ seq[Slot(head)] <= head /\ head < tail => BeingWritten(head)
         /\ head < tail => seq[Slot(head)] <= head + 1
<1> USE CapAssumption
<1>1. head \in Nat /\ tail \in Nat /\ head <= tail /\ tail - Cap <= head
  BY DEF IndInv, TypeOK, CountersInv
<1>2. CASE head < tail
  <2>1. BeingWritten(head) \/ Published(head) \/ Released(head)
    BY <1>1, <1>2 DEF IndInv, SlotInv
  <2> QED BY <1>1, <1>2, <2>1 DEF BeingWritten, Published, Released
<1>3. CASE head = tail
  BY <1>1, <1>3, TailSlot
<1> QED BY <1>1, <1>2, <1>3

\* A step that moves neither counter, stores no sequence number and changes
\* nobody's ownership keeps the slots as they are.
LEMMA QuietSlots ==
  ASSUME SlotInv, OwnersInv, UNCHANGED <<head, tail, seq>>,
         \A p \in Producers : InPush(p)' = InPush(p) /\ (InPush(p) => ptail'[p] = ptail[p]),
         \A c \in Consumers : InPop(c)' = InPop(c) /\ (InPop(c) => chead'[c] = chead[c])
  PROVE  SlotInv' /\ OwnersInv'
<1>1. OwnersInv'
  BY DEF OwnersInv
<1>2. \A i : (Claimed(i)' <=> Claimed(i)) /\ (Held(i)' <=> Held(i))
  BY DEF Claimed, Held, Writing, Reading
<1>3. SlotInv'
  BY <1>2 DEF SlotInv, BeingWritten, Published, Released
<1> QED BY <1>1, <1>3

LEMMA PushQuietStep ==
  ASSUME IndInv, Cap > 1, NEW p \in Producers,
         \/ \E v \in Values : PushStart(p, v)
         \/ PushReload(p) \/ PushLoadSeq(p) \/ PushLost(p) \/ PushWrite(p)
  PROVE  CountersInv' /\ ProducerInv' /\ ConsumerInv' /\ OwnersInv' /\ ObserverInv' /\ SlotInv'
<1> USE CapAssumption DEF IndInv
<1>1. TypeOK /\ UNCHANGED <<head, tail, seq, cvars, ovars>>
  BY DEF PushStart, PushReload, PushLoadSeq, PushLost, PushWrite
<1>2. CountersInv' /\ ConsumerInv' /\ ObserverInv'
  BY <1>1 DEF CountersInv, ConsumerInv, ObserverInv, LenWithinCap, cvars, ovars
<1>3. ProducerInv'
  <2>1. CASE \E v \in Values : PushStart(p, v)
    BY <1>1, <2>1 DEF PushStart, ProducerInv, TypeOK
  <2>2. CASE PushReload(p)
    BY <1>1, <2>2 DEF PushReload, ProducerInv, TypeOK
  <2>3. CASE PushLoadSeq(p)
    <3>1. seq[Slot(ptail[p])] \in Nat
      BY <1>1, SlotType DEF TypeOK
    <3>2. ppc'[p] = "cas" => seq[Slot(ptail[p])] = ptail[p]
      BY <1>1, <2>3, <3>1 DEF PushLoadSeq, TypeOK
    <3> QED BY <1>1, <2>3, <3>2 DEF PushLoadSeq, ProducerInv, TypeOK
  <2>4. CASE PushLost(p)
    BY <1>1, <2>4 DEF PushLost, ProducerInv, TypeOK
  <2>5. CASE PushWrite(p)
    BY <1>1, <2>5 DEF PushWrite, ProducerInv, TypeOK
  <2> QED BY <2>1, <2>2, <2>3, <2>4, <2>5
<1>4. \A q \in Producers : InPush(q)' = InPush(q) /\ (InPush(q) => ptail'[q] = ptail[q])
  BY <1>1 DEF PushStart, PushReload, PushLoadSeq, PushLost, PushWrite, InPush, TypeOK
<1>5. \A c \in Consumers : InPop(c)' = InPop(c) /\ (InPop(c) => chead'[c] = chead[c])
  BY <1>1 DEF InPop, cvars
<1>6. SlotInv' /\ OwnersInv'
  BY <1>1, <1>4, <1>5, QuietSlots
<1> QED BY <1>2, <1>3, <1>6

LEMMA PopQuietStep ==
  ASSUME IndInv, Cap > 1, NEW c \in Consumers,
         PopStart(c) \/ PopReload(c) \/ PopLoadSeq(c) \/ PopLost(c) \/ PopRead(c)
  PROVE  CountersInv' /\ ProducerInv' /\ ConsumerInv' /\ OwnersInv' /\ ObserverInv' /\ SlotInv'
<1> USE CapAssumption DEF IndInv
<1>1. TypeOK /\ UNCHANGED <<head, tail, seq, pvars, ovars>>
  BY DEF PopStart, PopReload, PopLoadSeq, PopLost, PopRead
<1>2. CountersInv' /\ ProducerInv' /\ ObserverInv'
  BY <1>1 DEF CountersInv, ProducerInv, ObserverInv, LenWithinCap, pvars, ovars
<1>3. ConsumerInv'
  <2>1. CASE PopStart(c) \/ PopReload(c)
    BY <1>1, <2>1 DEF PopStart, PopReload, ConsumerInv, TypeOK
  <2>2. CASE PopLoadSeq(c)
    <3>1. seq[Slot(chead[c])] \in Nat
      BY <1>1, SlotType DEF TypeOK
    <3>2. cpc'[c] = "cas" => seq[Slot(chead[c])] = chead[c] + 1
      BY <1>1, <2>2, <3>1 DEF PopLoadSeq, TypeOK
    <3> QED BY <1>1, <2>2, <3>2, HeadSlot DEF PopLoadSeq, ConsumerInv, TypeOK
  <2>3. CASE PopLost(c)
    BY <1>1, <2>3 DEF PopLost, ConsumerInv, TypeOK
  <2>4. CASE PopRead(c)
    BY <1>1, <2>4 DEF PopRead, ConsumerInv, TypeOK
  <2> QED BY <2>1, <2>2, <2>3, <2>4
<1>4. \A d \in Consumers : InPop(d)' = InPop(d) /\ (InPop(d) => chead'[d] = chead[d])
  BY <1>1 DEF PopStart, PopReload, PopLoadSeq, PopLost, PopRead, InPop, TypeOK
<1>5. \A p \in Producers : InPush(p)' = InPush(p) /\ (InPush(p) => ptail'[p] = ptail[p])
  BY <1>1 DEF InPush, pvars
<1>6. SlotInv' /\ OwnersInv'
  BY <1>1, <1>4, <1>5, QuietSlots
<1> QED BY <1>2, <1>3, <1>6

LEMMA LenStep ==
  ASSUME IndInv, Cap > 1, NEW o \in Observers, LenLoadTail(o) \/ LenLoadHead(o)
  PROVE  CountersInv' /\ ProducerInv' /\ ConsumerInv' /\ OwnersInv' /\ ObserverInv' /\ SlotInv'
<1> USE CapAssumption DEF IndInv
<1>1. TypeOK /\ UNCHANGED <<head, tail, seq, pvars, cvars>>
  BY DEF LenLoadTail, LenLoadHead
<1>2. CountersInv' /\ ProducerInv' /\ ConsumerInv'
  BY <1>1 DEF CountersInv, ProducerInv, ConsumerInv, pvars, cvars
<1>3. ObserverInv'
  BY <1>1 DEF LenLoadTail, LenLoadHead, ObserverInv, LenWithinCap, CountersInv, TypeOK
<1>4. SlotInv' /\ OwnersInv'
  BY <1>1, QuietSlots DEF InPush, InPop, pvars, cvars
<1> QED BY <1>2, <1>3, <1>4

\* The CAS on tail: index tail becomes the producer's, tail - Cap leaves the
\* window.
LEMMA PushClaimStep ==
  ASSUME IndInv, Cap > 1, NEW p \in Producers, PushClaim(p)
  PROVE  CountersInv' /\ ProducerInv' /\ ConsumerInv' /\ OwnersInv' /\ ObserverInv' /\ SlotInv'
<1> USE CapAssumption DEF IndInv
<1>1. /\ TypeOK /\ UNCHANGED <<head, seq, ptail, cvars, ovars>>
      /\ ppc[p] = "cas" /\ ptail[p] = tail /\ tail' = tail + 1
      /\ ppc' = [ppc EXCEPT ![p] = "write"]
  BY DEF PushClaim
<1>2. Released(tail - Cap) /\ seq[Slot(tail)] = tail
  BY <1>1, TailSlot DEF ProducerInv
<1>3. tail - Cap < head /\ ~Held(tail - Cap)
  BY <1>2 DEF Released
<1>4. CountersInv' /\ ObserverInv'
  BY <1>1, <1>3 DEF CountersInv, ObserverInv, LenWithinCap, TypeOK, ovars
<1>5. ProducerInv'
  BY <1>1 DEF ProducerInv, CountersInv, TypeOK
<1>6. ConsumerInv'
  <2> SUFFICES ASSUME NEW c \in Consumers PROVE ConsumerInv!(c)'
    BY DEF ConsumerInv
  <2>1. cpc[c] \in {"read", "release"} => chead[c] # tail - Cap
    BY <1>3 DEF Held, Reading, InPop
  <2> QED BY <1>1, <2>1 DEF ConsumerInv, TypeOK, cvars
<1>7. OwnersInv'
  BY <1>1 DEF OwnersInv, ProducerInv, InPush, InPop, TypeOK, cvars
<1>8. SlotInv'
  <2> SUFFICES ASSUME NEW i \in (tail - Cap + 1) .. tail
               PROVE  (BeingWritten(i) \/ Published(i) \/ Released(i))'
    BY <1>1 DEF SlotInv, TypeOK
  <2>1. CASE i = tail
    <3>1. Writing(p, i)'
      BY <1>1, <2>1 DEF Writing, InPush, TypeOK
    <3> QED BY <1>1, <1>2, <2>1, <3>1 DEF BeingWritten, Claimed, CountersInv
  <2>2. CASE i # tail
    <3>1. Claimed(i)' <=> Claimed(i)
      BY <1>1, <2>2 DEF Claimed, Writing, InPush, TypeOK
    <3>2. Held(i)' <=> Held(i)
      BY <1>1 DEF Held, Reading, InPop, cvars
    <3>3. BeingWritten(i) \/ Published(i) \/ Released(i)
      BY <1>1, <2>2 DEF SlotInv, TypeOK
    <3> QED BY <1>1, <3>1, <3>2, <3>3 DEF BeingWritten, Published, Released
  <2> QED BY <2>1, <2>2
<1> QED BY <1>4, <1>5, <1>6, <1>7, <1>8

\* The store that publishes an index: its slot goes from BeingWritten to
\* Published, and no other index of the window has that slot.
LEMMA PushPublishStep ==
  ASSUME IndInv, Cap > 1, NEW p \in Producers, PushPublish(p)
  PROVE  CountersInv' /\ ProducerInv' /\ ConsumerInv' /\ OwnersInv' /\ ObserverInv' /\ SlotInv'
<1> USE CapAssumption DEF IndInv
<1> DEFINE k == ptail[p]
<1>1. /\ TypeOK /\ UNCHANGED <<head, tail, ptail, cvars, ovars>>
      /\ ppc[p] = "publish" /\ ppc' = [ppc EXCEPT ![p] = "idle"]
      /\ seq' = [seq EXCEPT ![Slot(k)] = k + 1]
  BY DEF PushPublish
<1>2. k \in Nat /\ head \in Nat /\ tail \in Nat /\ head <= k /\ k < tail /\ tail - Cap <= head
  BY <1>1 DEF ProducerInv, CountersInv, TypeOK
<1>3. Slot(k) \in Slots /\ seq'[Slot(k)] = k + 1
  BY <1>1, <1>2, SlotType DEF TypeOK
<1>4. \A i \in (tail - Cap) .. (tail - 1) : i # k => seq'[Slot(i)] = seq[Slot(i)]
  BY <1>1, <1>2, SameSlot DEF TypeOK
<1>5. CountersInv' /\ ObserverInv'
  BY <1>1 DEF CountersInv, ObserverInv, LenWithinCap, ovars
<1>6. Claimed(k)
  BY <1>1 DEF Claimed, Writing, InPush
<1>7. seq[Slot(k)] = k
  BY <1>2, <1>6 DEF SlotInv, BeingWritten, Published, Released
<1>8. ProducerInv'
  <2>1. seq[Slot(tail)] = tail => seq'[Slot(tail)] = tail
    <3>1. CASE Slot(tail) = Slot(k)
      BY <1>2, <1>7, <3>1
    <3>2. CASE Slot(tail) # Slot(k)
      BY <1>1, <1>2, <3>2, SlotType DEF TypeOK
    <3> QED BY <3>1, <3>2
  <2> QED BY <1>1, <2>1 DEF ProducerInv, TypeOK
<1>9. ConsumerInv'
  <2>1. seq[Slot(head)] = head + 1 /\ head < tail => seq'[Slot(head)] = head + 1
    BY <1>2, <1>4, <1>7
  <2> QED BY <1>1, <2>1 DEF ConsumerInv, TypeOK, cvars
<1>10. OwnersInv'
  BY <1>1 DEF OwnersInv, InPush, InPop, TypeOK, cvars
<1>11. SlotInv'
  <2> SUFFICES ASSUME NEW i \in (tail - Cap) .. (tail - 1)
               PROVE  (BeingWritten(i) \/ Published(i) \/ Released(i))'
    BY <1>1 DEF SlotInv
  <2>1. Held(i)' <=> Held(i)
    BY <1>1 DEF Held, Reading, InPop, cvars
  <2>2. CASE i = k
    <3>1. ~Claimed(k)'
      BY <1>1 DEF Claimed, Writing, InPush, OwnersInv, TypeOK
    <3> QED BY <1>1, <1>2, <1>3, <2>2, <3>1 DEF Published
  <2>3. CASE i # k
    <3>1. Claimed(i)' <=> Claimed(i)
      BY <1>1, <2>3 DEF Claimed, Writing, InPush, TypeOK
    <3>2. BeingWritten(i) \/ Published(i) \/ Released(i)
      BY DEF SlotInv
    <3> QED BY <1>1, <1>4, <2>1, <2>3, <3>1, <3>2 DEF BeingWritten, Published, Released
  <2> QED BY <2>2, <2>3
<1> QED BY <1>5, <1>8, <1>9, <1>10, <1>11

\* The CAS on head: index head goes from the queue to the consumer.
LEMMA PopClaimStep ==
  ASSUME IndInv, Cap > 1, NEW c \in Consumers, PopClaim(c)
  PROVE  CountersInv' /\ ProducerInv' /\ ConsumerInv' /\ OwnersInv' /\ ObserverInv' /\ SlotInv'
<1> USE CapAssumption DEF IndInv
<1>1. /\ TypeOK /\ UNCHANGED <<tail, seq, chead, pvars, ovars>>
      /\ cpc[c] = "cas" /\ chead[c] = head /\ head' = head + 1
      /\ cpc' = [cpc EXCEPT ![c] = "read"]
  BY DEF PopClaim
<1>2. head < tail /\ seq[Slot(head)] = head + 1 /\ Published(head)
  BY <1>1, HeadSlot DEF ConsumerInv
<1>3. CountersInv' /\ ObserverInv'
  BY <1>1, <1>2 DEF CountersInv, ObserverInv, LenWithinCap, TypeOK, ovars
<1>4. ProducerInv'
  <2> SUFFICES ASSUME NEW p \in Producers PROVE ProducerInv!(p)'
    BY DEF ProducerInv
  <2>1. ppc[p] \in {"write", "publish"} => ptail[p] # head
    BY <1>2 DEF Published, Claimed, Writing, InPush
  <2> QED BY <1>1, <2>1 DEF ProducerInv, TypeOK, pvars
<1>5. ConsumerInv'
  BY <1>1, <1>2 DEF ConsumerInv, CountersInv, TypeOK
<1>6. OwnersInv'
  BY <1>1 DEF OwnersInv, ConsumerInv, InPush, InPop, TypeOK, pvars
<1>7. SlotInv'
  <2> SUFFICES ASSUME NEW i \in (tail - Cap) .. (tail - 1)
               PROVE  (BeingWritten(i) \/ Published(i) \/ Released(i))'
    BY <1>1 DEF SlotInv
  <2>1. Claimed(i)' <=> Claimed(i)
    BY <1>1 DEF Claimed, Writing, InPush, pvars
  <2>2. CASE i = head
    <3>1. Reading(c, i)'
      BY <1>1, <2>2 DEF Reading, InPop, TypeOK
    <3> QED BY <1>1, <1>2, <2>1, <2>2, <3>1 DEF Published, Held
  <2>3. CASE i # head
    <3>1. Held(i)' <=> Held(i)
      BY <1>1, <2>3 DEF Held, Reading, InPop, TypeOK
    <3>2. BeingWritten(i) \/ Published(i) \/ Released(i)
      BY DEF SlotInv
    <3> QED BY <1>1, <2>1, <2>3, <3>1, <3>2 DEF BeingWritten, Published, Released, TypeOK
  <2> QED BY <2>2, <2>3
<1> QED BY <1>3, <1>4, <1>5, <1>6, <1>7

\* The store that releases an index: its slot goes from Published to Released.
LEMMA PopReleaseStep ==
  ASSUME IndInv, Cap > 1, NEW c \in Consumers, PopRelease(c)
  PROVE  CountersInv' /\ ProducerInv' /\ ConsumerInv' /\ OwnersInv' /\ ObserverInv' /\ SlotInv'
<1> USE CapAssumption DEF IndInv
<1> DEFINE k == chead[c]
<1>1. /\ TypeOK /\ UNCHANGED <<head, tail, chead, pvars, ovars>>
      /\ cpc[c] = "release" /\ cpc' = [cpc EXCEPT ![c] = "idle"]
      /\ seq' = [seq EXCEPT ![Slot(k)] = k + Cap]
  BY DEF PopRelease
<1>2. /\ k \in Nat /\ head \in Nat /\ tail \in Nat
      /\ tail - Cap <= k /\ k < head /\ head <= tail
  BY <1>1 DEF ConsumerInv, CountersInv, TypeOK
<1>3. Slot(k) \in Slots /\ seq'[Slot(k)] = k + Cap
  BY <1>1, <1>2, SlotType DEF TypeOK
<1>4. \A i \in (tail - Cap) .. (tail - 1) : i # k => seq'[Slot(i)] = seq[Slot(i)]
  BY <1>1, <1>2, SameSlot DEF TypeOK
<1>5. CountersInv' /\ ObserverInv'
  BY <1>1 DEF CountersInv, ObserverInv, LenWithinCap, ovars
<1>6. Held(k)
  BY <1>1 DEF Held, Reading, InPop
<1>7. ~Claimed(k) /\ seq[Slot(k)] = k + 1
  BY <1>2, <1>6 DEF SlotInv, BeingWritten, Published, Released
<1>8. ProducerInv'
  <2>1. seq[Slot(tail)] = tail => seq'[Slot(tail)] = tail
    <3>1. CASE Slot(tail) = Slot(k)
      <4>1. seq[Slot(tail)] = tail => k = tail - 1
        BY <1>2, <1>7, <3>1
      <4>2. k # tail - 1
        BY <1>2, <3>1, SameSlot
      <4> QED BY <4>1, <4>2
    <3>2. CASE Slot(tail) # Slot(k)
      BY <1>1, <1>2, <3>2, SlotType DEF TypeOK
    <3> QED BY <3>1, <3>2
  <2> QED BY <1>1, <2>1 DEF ProducerInv, TypeOK, pvars
<1>9. ConsumerInv'
  <2>1. seq[Slot(head)] = head + 1 /\ head < tail => seq'[Slot(head)] = head + 1
    BY <1>2, <1>4
  <2> QED BY <1>1, <2>1 DEF ConsumerInv, TypeOK
<1>10. OwnersInv'
  BY <1>1 DEF OwnersInv, InPush, InPop, TypeOK, pvars
<1>11. SlotInv'
  <2> SUFFICES ASSUME NEW i \in (tail - Cap) .. (tail - 1)
               PROVE  (BeingWritten(i) \/ Published(i) \/ Released(i))'
    BY <1>1 DEF SlotInv
  <2>1. Claimed(i)' <=> Claimed(i)
    BY <1>1 DEF Claimed, Writing, InPush, pvars
  <2>2. CASE i = k
    <3>1. ~Held(k)'
      BY <1>1 DEF Held, Reading, InPop, OwnersInv, TypeOK
    <3> QED BY <1>1, <1>2, <1>3, <1>7, <2>1, <2>2, <3>1 DEF Released
  <2>3. CASE i # k
    <3>1. Held(i)' <=> Held(i)
      BY <1>1, <2>3 DEF Held, Reading, InPop, TypeOK
    <3>2. BeingWritten(i) \/ Published(i) \/ Released(i)
      BY DEF SlotInv
    <3> QED BY <1>1, <1>4, <2>1, <2>3, <3>1, <3>2 DEF BeingWritten, Published, Released
  <2> QED BY <2>2, <2>3
<1> QED BY <1>5, <1>8, <1>9, <1>10, <1>11

LEMMA IndInit == ASSUME Cap > 1 PROVE Init => IndInv
<1> SUFFICES ASSUME Init PROVE IndInv
  OBVIOUS
<1> USE CapAssumption, ValuesAssumption DEF Init
<1>1. TypeOK
  BY DEF TypeOK, Slots
<1>2. CountersInv /\ ProducerInv /\ ConsumerInv /\ OwnersInv /\ ObserverInv
  BY DEF CountersInv, ProducerInv, ConsumerInv, OwnersInv, ObserverInv,
         LenWithinCap, InPush, InPop
<1>3. SlotInv
  <2> SUFFICES ASSUME NEW i \in (0 - Cap) .. (0 - 1) PROVE Released(i)
    BY DEF SlotInv
  <2>1. i + Cap \in Slots /\ Slot(i + Cap) = i + Cap
    BY FirstLap DEF Slots
  <2>2. seq[Slot(i)] = i + Cap
    BY <2>1, NextLap
  <2> QED BY <2>2 DEF Released, Claimed, Held, Writing, Reading, InPush, InPop
<1> QED BY <1>1, <1>2, <1>3 DEF IndInv

LEMMA IndStep == ASSUME Cap > 1 PROVE IndInv /\ [Next]_vars => IndInv'
<1> SUFFICES ASSUME IndInv, [Next]_vars PROVE IndInv'
  OBVIOUS
<1>1. TypeOK'
  BY TypeStep DEF IndInv
<1> DEFINE Rest == /\ CountersInv /\ ProducerInv /\ ConsumerInv
                   /\ OwnersInv /\ ObserverInv /\ SlotInv
<1>2. ASSUME NEW p \in Producers, PushOn(p) \/ \E v \in Values : PushStart(p, v)
      PROVE  Rest'
  BY <1>2, PushQuietStep, PushClaimStep, PushPublishStep DEF PushOn
<1>3. ASSUME NEW c \in Consumers, PopOn(c) \/ PopStart(c) PROVE Rest'
  BY <1>3, PopQuietStep, PopClaimStep, PopReleaseStep DEF PopOn
<1>4. ASSUME NEW o \in Observers, LenLoadTail(o) \/ LenLoadHead(o) PROVE Rest'
  BY <1>4, LenStep
<1>5. CASE UNCHANGED vars
  <2>1. UNCHANGED <<head, tail, seq, ppc, ptail, cpc, chead, opc, otail, len>>
    BY <1>5 DEF vars, pvars, cvars, ovars
  <2>2. SlotInv' /\ OwnersInv'
    BY <2>1, QuietSlots DEF IndInv, InPush, InPop
  <2> QED BY <1>1, <2>1, <2>2 DEF IndInv, CountersInv, ProducerInv, ConsumerInv, ObserverInv,
             LenWithinCap
<1> QED BY <1>1, <1>2, <1>3, <1>4, <1>5 DEF Next, IndInv

\* The sequence protocol of ringbuffer.go as an invariant: with at least two
\* slots, any number of producers, consumers and observers keep IndInv.
THEOREM Protocol == ASSUME Cap > 1 PROVE Spec => []IndInv
BY IndInit, IndStep, PTL DEF Spec

(* ---------------------------- Its consequences --------------------------- *)

LEMMA IndExclusive == ASSUME IndInv, Cap > 1 PROVE SlotExclusive
<1> USE CapAssumption DEF IndInv
<1>1. \A p \in Producers : InPush(p) =>
         /\ ptail[p] \in (tail - Cap) .. (tail - 1) /\ head <= ptail[p]
         /\ Claimed(ptail[p])
  BY DEF ProducerInv, CountersInv, TypeOK, InPush, Claimed, Writing
<1>2. \A c \in Consumers : InPop(c) =>
         chead[c] \in (tail - Cap) .. (tail - 1) /\ chead[c] < head
  BY DEF ConsumerInv, CountersInv, TypeOK, InPop
<1>3. \A i, j \in (tail - Cap) .. (tail - 1) : Slot(i) = Slot(j) => i = j
  BY SameSlot DEF TypeOK
<1>4. \A p, q \in Producers :
         InPush(p) /\ InPush(q) /\ Slot(ptail[p]) = Slot(ptail[q]) => p = q
  BY <1>1, <1>3 DEF OwnersInv
<1>5. \A c, d \in Consumers :
         InPop(c) /\ InPop(d) /\ Slot(chead[c]) = Slot(chead[d]) => c = d
  BY <1>2, <1>3 DEF OwnersInv
<1>6. \A p \in Producers, c \in Consumers :
         InPush(p) /\ InPop(c) => Slot(ptail[p]) # Slot(chead[c])
  BY <1>1, <1>2, <1>3 DEF TypeOK
<1> QED BY <1>4, <1>5, <1>6 DEF SlotExclusive

\* For any number of goroutines and any capacity above one, the plain accesses
\* of Push and Pop to slot.val never race.
THEOREM NoDataRace == ASSUME Cap > 1 PROVE Spec => []SlotExclusive
BY Protocol, IndExclusive, PTL

\* However tail and head move between the two loads of Len, it reports at most
\* Cap values.
THEOREM LenBounded == ASSUME Cap > 1 PROVE Spec => []LenWithinCap
<1>1. IndInv => LenWithinCap
  BY DEF IndInv, ObserverInv
<1> QED BY <1>1, Protocol, PTL

\* With at least two slots no Push succeeds on a full ring.
THEOREM NoOverflow == ASSUME Cap > 1 PROVE Spec => FullPushFails
<1>1. IndInv /\ [Next]_vars => [tail' > tail => tail - head < Cap]_vars
  <2> SUFFICES ASSUME IndInv, Next, tail' > tail PROVE tail - head < Cap
    OBVIOUS
  <2>1. PICK p \in Producers : PushClaim(p)
    <3>1. tail \in Nat
      BY DEF IndInv, TypeOK
    <3> QED BY <3>1 DEF Next, PushOn, PopOn, PushStart, PushReload, PushLoadSeq,
             PushLost, PushWrite, PushPublish, PopStart, PopReload, PopLoadSeq,
             PopClaim, PopLost, PopRead, PopRelease, LenLoadTail, LenLoadHead
  <2>2. seq[Slot(tail)] = tail
    BY <2>1 DEF IndInv, ProducerInv, PushClaim
  <2>3. Released(tail - Cap)
    BY <2>2, TailSlot
  <2> QED BY <2>3, CapAssumption DEF Released, IndInv, TypeOK
<1> QED BY <1>1, Protocol, PTL DEF Spec, FullPushFails

\* No slot is more than a lap behind: a stale index never sees a sequence
\* number that makes the ring look full or empty.
LEMMA NoSlotBehind ==
  ASSUME IndInv, Cap > 1, NEW s \in Slots
  PROVE  seq[s] >= tail - Cap
<1>1. PICK i \in (tail - Cap) .. (tail - 1) : Slot(i) = s
  BY WindowCovers DEF IndInv, TypeOK
<1>2. BeingWritten(i) \/ Published(i) \/ Released(i)
  BY DEF IndInv, SlotInv
<1> QED BY <1>1, <1>2, CapAssumption DEF BeingWritten, Published, Released, IndInv, TypeOK

LEMMA PushFailure ==
  ASSUME IndInv, Cap > 1, NEW p \in Producers,
         ppc[p] = "loadSeq", seq[Slot(ptail[p])] < ptail[p]
  PROVE  tail - head = Cap \/ \E c \in Consumers : Reading(c, tail - Cap)
<1> USE CapAssumption DEF IndInv
<1>1. ptail[p] \in Nat /\ tail \in Nat /\ head \in Nat /\ ptail[p] <= tail
  BY DEF ProducerInv, TypeOK
<1>2. Slot(ptail[p]) \in Slots /\ seq[Slot(ptail[p])] >= tail - Cap
  BY <1>1, SlotType, NoSlotBehind
<1>3. ptail[p] = tail
  <2> SUFFICES ASSUME ptail[p] < tail PROVE FALSE
    BY <1>1
  <2>1. ptail[p] \in (tail - Cap) .. (tail - 1)
    BY <1>1, <1>2 DEF TypeOK
  <2>2. seq[Slot(ptail[p])] >= ptail[p]
    BY <1>1, <2>1 DEF SlotInv, BeingWritten, Published, Released
  <2> QED BY <1>1, <1>2, <2>2 DEF TypeOK
<1>4. BeingWritten(tail - Cap) \/ Published(tail - Cap)
  BY <1>3, TailSlot
<1> QED BY <1>1, <1>4 DEF BeingWritten, Published, Held, CountersInv

LEMMA PopFailure ==
  ASSUME IndInv, Cap > 1, NEW c \in Consumers,
         cpc[c] = "loadSeq", seq[Slot(chead[c])] <= chead[c]
  PROVE  tail = head \/ \E p \in Producers : Writing(p, head)
<1> USE CapAssumption DEF IndInv
<1>1. /\ chead[c] \in Nat /\ tail \in Nat /\ head \in Nat
      /\ chead[c] <= head /\ head <= tail
  BY DEF ConsumerInv, CountersInv, TypeOK
<1>2. Slot(chead[c]) \in Slots /\ seq[Slot(chead[c])] >= tail - Cap
  BY <1>1, SlotType, NoSlotBehind
<1>3. chead[c] = head
  <2> SUFFICES ASSUME chead[c] < head PROVE FALSE
    BY <1>1
  <2>1. chead[c] \in (tail - Cap) .. (tail - 1)
    BY <1>1, <1>2 DEF TypeOK
  <2>2. seq[Slot(chead[c])] >= chead[c] + 1
    BY <1>1, <2>1 DEF SlotInv, BeingWritten, Published, Released
  <2> QED BY <1>1, <1>2, <2>2 DEF TypeOK
<1>4. head < tail => BeingWritten(head)
  BY <1>1, <1>3, HeadSlot
<1> QED BY <1>1, <1>4 DEF BeingWritten, Claimed

\* A Push that returns false has met a full ring or a consumer still inside the
\* slot; a Pop that returns false an empty ring or an unfinished Push.
THEOREM HonestFailures == ASSUME Cap > 1 PROVE Spec => FailuresJustified
<1> DEFINE PushOK(p) == ppc[p] = "loadSeq" /\ ppc'[p] = "idle" =>
                          tail - head = Cap \/ \E c \in Consumers : Reading(c, tail - Cap)
           PopOK(c) == cpc[c] = "loadSeq" /\ cpc'[c] = "idle" =>
                          tail = head \/ \E p \in Producers : Writing(p, head)
<1>1. ASSUME IndInv, Next, NEW p \in Producers PROVE PushOK(p)
  <2> SUFFICES ASSUME ppc[p] = "loadSeq", ppc'[p] = "idle"
               PROVE  seq[Slot(ptail[p])] < ptail[p]
    BY <1>1, PushFailure
  <2>1. PushLoadSeq(p)
    BY <1>1 DEF Next, PushOn, PopOn, PushStart, PushReload, PushLoadSeq, PushClaim,
        PushLost, PushWrite, PushPublish, PopStart, PopReload, PopLoadSeq, PopClaim,
        PopLost, PopRead, PopRelease, LenLoadTail, LenLoadHead, pvars, IndInv, TypeOK
  <2>2. seq[Slot(ptail[p])] \in Nat /\ ptail[p] \in Nat
    BY <1>1, SlotType DEF IndInv, TypeOK
  <2> QED BY <1>1, <2>1, <2>2 DEF PushLoadSeq, IndInv, TypeOK
<1>2. ASSUME IndInv, Next, NEW c \in Consumers PROVE PopOK(c)
  <2> SUFFICES ASSUME cpc[c] = "loadSeq", cpc'[c] = "idle"
               PROVE  seq[Slot(chead[c])] <= chead[c]
    BY <1>2, PopFailure
  <2>1. PopLoadSeq(c)
    BY <1>2 DEF Next, PushOn, PopOn, PushStart, PushReload, PushLoadSeq, PushClaim,
        PushLost, PushWrite, PushPublish, PopStart, PopReload, PopLoadSeq, PopClaim,
        PopLost, PopRead, PopRelease, LenLoadTail, LenLoadHead, cvars, IndInv, TypeOK
  <2>2. seq[Slot(chead[c])] \in Nat /\ chead[c] \in Nat
    BY <1>2, SlotType DEF IndInv, TypeOK
  <2> QED BY <1>2, <2>1, <2>2 DEF PopLoadSeq, IndInv, TypeOK
<1>3. IndInv /\ [Next]_vars =>
        [(\A p \in Producers : PushOK(p)) /\ (\A c \in Consumers : PopOK(c))]_vars
  BY <1>1, <1>2
<1> QED BY <1>3, Protocol, PTL DEF Spec, FailuresJustified

\* A goroutine that sees a sequence number ahead of its index has a stale index.
LEMMA PushRetry ==
  ASSUME IndInv, Cap > 1, NEW p \in Producers,
         ppc[p] = "loadSeq", seq[Slot(ptail[p])] > ptail[p]
  PROVE  ptail[p] < tail
<1>1. ptail[p] \in Nat /\ tail \in Nat /\ ptail[p] <= tail
  BY DEF IndInv, ProducerInv, TypeOK
<1>2. CASE ptail[p] = tail
  <2>1. seq[Slot(tail)] \in Nat /\ seq[Slot(tail)] <= tail
    BY <1>1, SlotType, TailSlot DEF IndInv, TypeOK
  <2> QED BY <1>1, <1>2, <2>1
<1> QED BY <1>1, <1>2

LEMMA PopRetry ==
  ASSUME IndInv, Cap > 1, NEW c \in Consumers,
         cpc[c] = "loadSeq", seq[Slot(chead[c])] > chead[c] + 1
  PROVE  chead[c] < head
<1>1. /\ chead[c] \in Nat /\ head \in Nat /\ tail \in Nat
      /\ chead[c] <= head /\ head <= tail
  BY DEF IndInv, ConsumerInv, CountersInv, TypeOK
<1>2. CASE chead[c] = head
  <2>1. seq[Slot(head)] \in Nat
    BY <1>1, SlotType DEF IndInv, TypeOK
  <2>2. CASE head < tail
    BY <1>1, <1>2, <2>1, <2>2, HeadSlot
  <2>3. CASE head = tail
    BY <1>1, <1>2, <2>1, <2>3, TailSlot
  <2> QED BY <1>1, <2>2, <2>3
<1> QED BY <1>1, <1>2

\* Lock-freedom of the ring: a Push or Pop that takes another turn of its loop
\* has been overtaken by a call that claimed an index.
THEOREM LockFree == ASSUME Cap > 1 PROVE Spec => RetriesJustified
<1> DEFINE PushOK(p) == ppc[p] \in {"loadSeq", "cas"} /\ ppc'[p] = "loadTail" => ptail[p] < tail
           PopOK(c) == cpc[c] \in {"loadSeq", "cas"} /\ cpc'[c] = "loadHead" => chead[c] < head
<1>1. ASSUME IndInv, Next, NEW p \in Producers PROVE PushOK(p)
  <2> SUFFICES ASSUME ppc[p] \in {"loadSeq", "cas"}, ppc'[p] = "loadTail"
               PROVE  ptail[p] < tail
    OBVIOUS
  <2>1. PushLoadSeq(p) \/ PushLost(p)
    BY <1>1 DEF Next, PushOn, PopOn, PushStart, PushReload, PushLoadSeq, PushClaim,
        PushLost, PushWrite, PushPublish, PopStart, PopReload, PopLoadSeq, PopClaim,
        PopLost, PopRead, PopRelease, LenLoadTail, LenLoadHead, pvars, IndInv, TypeOK
  <2>2. seq[Slot(ptail[p])] \in Nat /\ ptail[p] \in Nat /\ tail \in Nat
    BY <1>1, SlotType DEF IndInv, TypeOK
  <2>3. CASE PushLoadSeq(p)
    <3>1. ppc[p] = "loadSeq" /\ seq[Slot(ptail[p])] > ptail[p]
      BY <1>1, <2>2, <2>3 DEF PushLoadSeq, IndInv, TypeOK
    <3> QED BY <1>1, <3>1, PushRetry
  <2>4. CASE PushLost(p)
    BY <1>1, <2>2, <2>4 DEF PushLost, IndInv, ProducerInv
  <2> QED BY <2>1, <2>3, <2>4
<1>2. ASSUME IndInv, Next, NEW c \in Consumers PROVE PopOK(c)
  <2> SUFFICES ASSUME cpc[c] \in {"loadSeq", "cas"}, cpc'[c] = "loadHead"
               PROVE  chead[c] < head
    OBVIOUS
  <2>1. PopLoadSeq(c) \/ PopLost(c)
    BY <1>2 DEF Next, PushOn, PopOn, PushStart, PushReload, PushLoadSeq, PushClaim,
        PushLost, PushWrite, PushPublish, PopStart, PopReload, PopLoadSeq, PopClaim,
        PopLost, PopRead, PopRelease, LenLoadTail, LenLoadHead, cvars, IndInv, TypeOK
  <2>2. seq[Slot(chead[c])] \in Nat /\ chead[c] \in Nat /\ head \in Nat
    BY <1>2, SlotType DEF IndInv, TypeOK
  <2>3. CASE PopLoadSeq(c)
    <3>1. cpc[c] = "loadSeq" /\ seq[Slot(chead[c])] > chead[c] + 1
      BY <1>2, <2>2, <2>3 DEF PopLoadSeq, IndInv, TypeOK
    <3> QED BY <1>2, <3>1, PopRetry
  <2>4. CASE PopLost(c)
    BY <1>2, <2>2, <2>4 DEF PopLost, IndInv, ConsumerInv
  <2> QED BY <2>1, <2>3, <2>4
<1>3. IndInv /\ [Next]_vars =>
        [(\A p \in Producers : PushOK(p)) /\ (\A c \in Consumers : PopOK(c))]_vars
  BY <1>1, <1>2
<1> QED BY <1>3, Protocol, PTL DEF Spec, RetriesJustified

(* ------------------------------ Refinement ------------------------------- *)

\* The value of an index is in its producer's hands until the producer has
\* written it, and in the slot from then on.
LEMMA ItemInHand ==
  ASSUME IndInv, NEW p \in Producers, ppc[p] = "write"
  PROVE  ptail[p] \in head .. (tail - 1) /\ Items[ptail[p]] = arg[p]
<1> DEFINE P(q) == ppc[q] = "write" /\ ptail[q] = ptail[p]
           w == CHOOSE q \in Producers : P(q)
<1>1. w \in Producers /\ P(w)
  OBVIOUS
<1>2. w = p
  BY <1>1 DEF IndInv, OwnersInv, InPush
<1>3. ptail[p] \in head .. (tail - 1)
  BY DEF IndInv, ProducerInv, TypeOK
<1> QED BY <1>2, <1>3 DEF Items

\* The same for the value after a step.
LEMMA ItemInHandNext ==
  ASSUME IndInv', NEW p \in Producers, ppc'[p] = "write"
  PROVE  ptail'[p] \in head' .. (tail' - 1) /\ Items'[ptail'[p]] = arg'[p]
<1> DEFINE P(q) == ppc'[q] = "write" /\ ptail'[q] = ptail'[p]
           w == CHOOSE q \in Producers : P(q)
<1>1. w \in Producers /\ P(w)
  OBVIOUS
<1>2. w = p
  BY <1>1 DEF IndInv, OwnersInv, InPush
<1>3. ptail'[p] \in head' .. (tail' - 1)
  BY DEF IndInv, ProducerInv, TypeOK
<1> QED BY <1>2, <1>3 DEF Items

\* An index keeps its value over a step that leaves its slot and its producer
\* alone.
LEMMA ItemKept ==
  ASSUME IndInv, IndInv', NEW i \in head .. (tail - 1), i \in head' .. (tail' - 1),
         val'[Slot(i)] = val[Slot(i)],
         \A p \in Producers : ppc[p] = "write" /\ ptail[p] = i
                              <=> ppc'[p] = "write" /\ ptail'[p] = i,
         \A p \in Producers : ppc[p] = "write" => arg'[p] = arg[p]
  PROVE  Items'[i] = Items[i]
<1>1. CASE \E p \in Producers : ppc[p] = "write" /\ ptail[p] = i
  <2>1. PICK p \in Producers : ppc[p] = "write" /\ ptail[p] = i
    BY <1>1
  <2>2. Items[i] = arg[p]
    BY <2>1, ItemInHand
  <2>3. Items'[i] = arg'[p]
    BY <2>1, ItemInHandNext
  <2> QED BY <2>1, <2>2, <2>3
<1>2. CASE \A p \in Producers : ~(ppc[p] = "write" /\ ptail[p] = i)
  BY <1>2 DEF Items
<1> QED BY <1>1, <1>2

\* A step that moves neither counter and keeps every queued value is a stutter
\* of the queue; so are the steps of Push other than its CAS.
LEMMA PushStutters ==
  ASSUME IndInv, IndInv', Cap > 1, NEW p \in Producers,
         \/ \E v \in Values : PushStart(p, v)
         \/ PushReload(p) \/ PushLoadSeq(p) \/ PushLost(p) \/ PushPublish(p)
  PROVE  UNCHANGED <<AbsQueue, AbsPopped>>
<1>1. /\ UNCHANGED <<head, tail, val, cpc, chead, got>>
      /\ \A q \in Producers : (ppc'[q] = "write") <=> (ppc[q] = "write")
      /\ \A q \in Producers :
            ppc[q] = "write" => ptail'[q] = ptail[q] /\ arg'[q] = arg[q]
  <2>1. CASE \E v \in Values : PushStart(p, v)
    BY <2>1 DEF PushStart, cvars, IndInv, TypeOK
  <2>2. CASE PushReload(p)
    BY <2>2 DEF PushReload, cvars, IndInv, TypeOK
  <2>3. CASE PushLoadSeq(p)
    BY <2>3 DEF PushLoadSeq, cvars, IndInv, TypeOK
  <2>4. CASE PushLost(p)
    BY <2>4 DEF PushLost, cvars, IndInv, TypeOK
  <2>5. CASE PushPublish(p)
    BY <2>5 DEF PushPublish, cvars, IndInv, TypeOK
  <2> QED BY <2>1, <2>2, <2>3, <2>4, <2>5
<1>2. ASSUME NEW i \in head .. (tail - 1) PROVE Items'[i] = Items[i]
  <2>1. \A q \in Producers : ppc[q] = "write" /\ ptail[q] = i
                            <=> ppc'[q] = "write" /\ ptail'[q] = i
    BY <1>1
  <2> QED BY <1>1, <2>1, ItemKept
<1>3. \A k \in 1 .. (tail - head) : head + k - 1 \in head .. (tail - 1)
  BY DEF IndInv, TypeOK
<1> QED BY <1>1, <1>2, <1>3 DEF AbsQueue, AbsPopped

LEMMA PushWriteStutters ==
  ASSUME IndInv, IndInv', Cap > 1, NEW p \in Producers, PushWrite(p)
  PROVE  UNCHANGED <<AbsQueue, AbsPopped>>
<1> USE CapAssumption
<1>1. /\ UNCHANGED <<head, tail, ptail, arg, cpc, chead, got>>
      /\ ppc[p] = "write" /\ ppc' = [ppc EXCEPT ![p] = "publish"]
      /\ val' = [val EXCEPT ![Slot(ptail[p])] = arg[p]]
  BY DEF PushWrite, cvars
<1>2. /\ ptail[p] \in Nat /\ head \in Nat /\ tail \in Nat
      /\ head <= ptail[p] /\ ptail[p] < tail /\ tail - Cap <= head
      /\ Slot(ptail[p]) \in Slots
  BY <1>1, SlotType DEF IndInv, ProducerInv, CountersInv, TypeOK
<1>3. ASSUME NEW i \in head .. (tail - 1) PROVE Items'[i] = Items[i]
  <2>1. CASE i = ptail[p]
    <3>1. Items[i] = arg[p]
      BY <1>1, <2>1, ItemInHand
    <3>2. \A q \in Producers : ~(ppc'[q] = "write" /\ ptail'[q] = i)
      BY <1>1, <2>1 DEF IndInv, OwnersInv, InPush, TypeOK
    <3>3. Items'[i] = val'[Slot(i)]
      BY <1>1, <3>2 DEF Items
    <3> QED BY <1>1, <1>2, <2>1, <3>1, <3>3 DEF IndInv, TypeOK
  <2>2. CASE i # ptail[p]
    <3>1. Slot(i) # Slot(ptail[p])
      BY <1>2, <2>2, SameSlot
    <3>2. val'[Slot(i)] = val[Slot(i)]
      BY <1>1, <1>2, <3>1, SlotType DEF IndInv, TypeOK
    <3>3. \A q \in Producers : ppc[q] = "write" /\ ptail[q] = i
                              <=> ppc'[q] = "write" /\ ptail'[q] = i
      BY <1>1, <2>2 DEF IndInv, TypeOK
    <3> QED BY <1>1, <3>2, <3>3, ItemKept
  <2> QED BY <2>1, <2>2
<1>4. AbsQueue' = AbsQueue
  <2>1. \A k \in 1 .. (tail - head) : head + k - 1 \in head .. (tail - 1)
    BY <1>2
  <2> QED BY <1>1, <1>3, <2>1 DEF AbsQueue
<1>5. ASSUME NEW c \in Consumers, cpc[c] = "read"
      PROVE  val'[Slot(chead[c])] = val[Slot(chead[c])]
  <2>1. Slot(chead[c]) # Slot(ptail[p])
    BY <1>1, <1>5, IndExclusive DEF SlotExclusive, InPush, InPop
  <2>2. Slot(chead[c]) \in Slots
    BY SlotType DEF IndInv, TypeOK
  <2> QED BY <1>1, <2>1, <2>2 DEF IndInv, TypeOK
<1>6. AbsPopped' = AbsPopped
  BY <1>1, <1>5 DEF AbsPopped
<1> QED BY <1>4, <1>6

\* The CAS on tail is the queue's Enqueue of the argument of Push.
LEMMA PushClaimEnqueues ==
  ASSUME IndInv, IndInv', Cap > 1, NEW p \in Producers, PushClaim(p)
  PROVE  \E v \in Values : Queue!Enqueue(v)
<1> USE CapAssumption
<1>1. /\ UNCHANGED <<head, val, ptail, arg, cpc, chead, got>>
      /\ ppc[p] = "cas" /\ ptail[p] = tail /\ tail' = tail + 1
      /\ ppc' = [ppc EXCEPT ![p] = "write"]
  BY DEF PushClaim, cvars
<1>2. head \in Nat /\ tail \in Nat /\ head <= tail /\ tail + 1 - Cap <= head /\ arg[p] \in Values
  BY <1>1 DEF IndInv, TypeOK, CountersInv
<1>3. ASSUME NEW i \in head .. (tail - 1) PROVE Items'[i] = Items[i]
  <2>1. \A q \in Producers : ppc[q] = "write" /\ ptail[q] = i
                            <=> ppc'[q] = "write" /\ ptail'[q] = i
    BY <1>1, <1>2 DEF IndInv, TypeOK
  <2>2. i \in head' .. (tail' - 1)
    BY <1>1, <1>2
  <2> QED BY <1>1, <2>1, <2>2, ItemKept
<1>4. Items'[tail] = arg[p]
  <2>1. ppc'[p] = "write"
    BY <1>1 DEF IndInv, TypeOK
  <2> QED BY <1>1, <2>1, ItemInHandNext
<1>5. /\ AbsQueue = [k \in 1 .. (tail - head) |-> Items[head + k - 1]]
      /\ AbsQueue' = [k \in 1 .. (tail + 1 - head) |-> Items'[head + k - 1]]
  BY <1>1, <1>2 DEF AbsQueue
<1>6. AbsQueue' = [k \in 1 .. (tail + 1 - head) |->
                     IF k = tail + 1 - head THEN arg[p] ELSE AbsQueue[k]]
  <2>1. ASSUME NEW k \in 1 .. (tail + 1 - head)
        PROVE  Items'[head + k - 1] = IF k = tail + 1 - head THEN arg[p] ELSE AbsQueue[k]
    <3>1. CASE k = tail + 1 - head
      <4>1. head + k - 1 = tail
        BY <1>2, <3>1
      <4> QED BY <1>4, <3>1, <4>1
    <3>2. CASE k # tail + 1 - head
      <4>1. k \in 1 .. (tail - head) /\ head + k - 1 \in head .. (tail - 1)
        BY <1>2, <3>2
      <4> QED BY <1>3, <1>5, <3>2, <4>1
    <3> QED BY <3>1, <3>2
  <2> QED BY <1>5, <2>1
<1>7. tail - head \in Nat
  BY <1>2
<1>8. Len(AbsQueue) = tail - head
  BY <1>5, <1>7
<1>9. AbsQueue' = Append(AbsQueue, arg[p])
  <2> DEFINE n == tail - head
             a == arg[p]
             Q == AbsQueue
  <2>1. tail + 1 - head = n + 1
    BY <1>2
  <2>2. Append(Q, a) = [k \in 1 .. (n + 1) |-> IF k = n + 1 THEN a ELSE Q[k]]
    <3>1. n \in Nat /\ Q = [k \in 1 .. n |-> Items[head + k - 1]] /\ Len(Q) = n
      BY <1>5, <1>7, <1>8
    <3> HIDE DEF n, a, Q
    <3> QED BY <3>1
  <2> QED BY <1>6, <2>1, <2>2
<1>10. AbsPopped' = AbsPopped
  BY <1>1 DEF AbsPopped
<1> QED BY <1>2, <1>8, <1>9, <1>10 DEF Queue!Enqueue

\* The steps of Pop other than its CAS, and those of Len, leave the queue and
\* what the consumers have taken alone.
LEMMA PopStutters ==
  ASSUME IndInv, IndInv', NEW c \in Consumers,
         \/ PopStart(c) \/ PopReload(c) \/ PopLoadSeq(c) \/ PopLost(c)
         \/ PopRead(c) \/ PopRelease(c)
  PROVE  UNCHANGED <<AbsQueue, AbsPopped>>
<1>1. UNCHANGED <<head, tail, val, ppc, ptail, arg>>
  BY DEF PopStart, PopReload, PopLoadSeq, PopLost, PopRead, PopRelease, pvars
<1>2. AbsQueue' = AbsQueue
  BY <1>1 DEF AbsQueue, Items
<1>3. ASSUME NEW d \in Consumers
      PROVE  (IF cpc'[d] = "read" THEN val[Slot(chead'[d])] ELSE got'[d])
               = (IF cpc[d] = "read" THEN val[Slot(chead[d])] ELSE got[d])
  <2>1. CASE PopStart(c)
    BY <2>1 DEF PopStart, IndInv, TypeOK
  <2>2. CASE PopReload(c)
    BY <2>2 DEF PopReload, IndInv, TypeOK
  <2>3. CASE PopLoadSeq(c)
    BY <2>3 DEF PopLoadSeq, IndInv, TypeOK
  <2>4. CASE PopLost(c)
    BY <2>4 DEF PopLost, IndInv, TypeOK
  <2>5. CASE PopRead(c)
    BY <2>5 DEF PopRead, IndInv, TypeOK
  <2>6. CASE PopRelease(c)
    BY <2>6 DEF PopRelease, IndInv, TypeOK
  <2> QED BY <2>1, <2>2, <2>3, <2>4, <2>5, <2>6
<1>4. AbsPopped' = AbsPopped
  BY <1>1, <1>3 DEF AbsPopped
<1> QED BY <1>2, <1>4

LEMMA OthersStutter ==
  ASSUME UNCHANGED <<head, tail, val, pvars, cvars>>
  PROVE  UNCHANGED <<AbsQueue, AbsPopped>>
BY DEF AbsQueue, AbsPopped, Items, pvars, cvars

\* The CAS on head is the queue's Dequeue: the slot of the oldest index is
\* published, so what Pop goes on to read is the queue's first value.
LEMMA PopClaimDequeues ==
  ASSUME IndInv, IndInv', Cap > 1, NEW c \in Consumers, PopClaim(c)
  PROVE  Queue!Dequeue(c)
<1> USE CapAssumption
<1>1. /\ UNCHANGED <<tail, val, ppc, ptail, arg, chead, got>>
      /\ cpc[c] = "cas" /\ chead[c] = head /\ head' = head + 1
      /\ cpc' = [cpc EXCEPT ![c] = "read"]
  BY DEF PopClaim, pvars
<1>2. head \in Nat /\ tail \in Nat /\ head < tail /\ seq[Slot(head)] = head + 1
  BY <1>1 DEF IndInv, TypeOK, ConsumerInv
<1>3. Items[head] = val[Slot(head)]
  <2>1. ~BeingWritten(head) /\ ~Released(head) /\ head \in (tail - Cap) .. (tail - 1)
    BY <1>2 DEF BeingWritten, Released, IndInv, CountersInv
  <2>2. ~Claimed(head)
    BY <2>1 DEF IndInv, SlotInv, Published
  <2>3. \A p \in Producers : ~(ppc[p] = "write" /\ ptail[p] = head)
    BY <2>2 DEF Claimed, Writing, InPush
  <2> QED BY <1>2, <2>3 DEF Items
<1>4. ASSUME NEW i \in (head + 1) .. (tail - 1) PROVE Items'[i] = Items[i]
  <2>1. i \in head .. (tail - 1) /\ i \in head' .. (tail' - 1)
    BY <1>1, <1>2
  <2>2. \A q \in Producers : ppc[q] = "write" /\ ptail[q] = i
                            <=> ppc'[q] = "write" /\ ptail'[q] = i
    BY <1>1
  <2> QED BY <1>1, <2>1, <2>2, ItemKept
<1>5. /\ AbsQueue = [k \in 1 .. (tail - head) |-> Items[head + k - 1]]
      /\ AbsQueue' = [k \in 1 .. (tail - head - 1) |-> AbsQueue[k + 1]]
  <2>1. tail' - head' = tail - head - 1
    BY <1>1, <1>2
  <2>2. ASSUME NEW k \in 1 .. (tail - head - 1)
        PROVE  Items'[head' + k - 1] = AbsQueue[k + 1]
    <3>1. k + 1 \in 1 .. (tail - head) /\ head + k \in (head + 1) .. (tail - 1)
      BY <1>2
    <3>2. head' + k - 1 = head + k /\ head + (k + 1) - 1 = head + k
      BY <1>1, <1>2
    <3>3. Items'[head + k] = Items[head + k]
      BY <1>4, <3>1
    <3> QED BY <3>1, <3>2, <3>3 DEF AbsQueue
  <2> QED BY <2>1, <2>2 DEF AbsQueue
<1>6. /\ AbsQueue # <<>> /\ AbsQueue' = Tail(AbsQueue)
      /\ Head(AbsQueue) = val[Slot(head)]
  <2> DEFINE n == tail - head
             Q == AbsQueue
             Q2 == AbsQueue'
             it == Items
  <2>1. n \in Nat /\ 1 <= n /\ n - 1 = tail - head - 1
    BY <1>2
  <2>2. Q = [k \in 1 .. n |-> it[head + k - 1]] /\ Q2 = [k \in 1 .. (n - 1) |-> Q[k + 1]]
    BY <1>5, <2>1
  <2>3. Q # <<>> /\ Q2 = Tail(Q) /\ Head(Q) = Q[1]
    <3> HIDE DEF n, Q, Q2, it
    <3> QED BY <2>1, <2>2
  <2>4. Q[1] = it[head]
    BY <1>2, <1>5
  <2> QED BY <1>3, <2>3, <2>4
<1>7. AbsPopped' = [AbsPopped EXCEPT ![c] = Head(AbsQueue)]
  BY <1>1, <1>6 DEF AbsPopped, IndInv, TypeOK
<1> QED BY <1>6, <1>7 DEF Queue!Dequeue

LEMMA QueueInit == Init => Queue!QInit
<1> SUFFICES ASSUME Init PROVE Queue!QInit
  OBVIOUS
<1>1. AbsQueue = <<>>
  BY DEF AbsQueue, Init
<1>2. AbsPopped \in [Consumers -> Values]
  BY ValuesAssumption DEF AbsPopped, Init
<1> QED BY <1>1, <1>2 DEF Queue!QInit

\* The ring of mrp/ringbuffer.go, with a capacity of at least two, implements
\* the bounded queue: a Push takes effect at its CAS on tail and a Pop at its
\* CAS on head, and no other step of Push, Pop or Len is visible.
THEOREM Implements == ASSUME Cap > 1 PROVE Spec => ImplementsQueue
<1>1. ASSUME IndInv, IndInv', [Next]_vars
      PROVE  [Queue!QNext]_(Queue!qvars)
  <2> SUFFICES \/ \E v \in Values : Queue!Enqueue(v)
               \/ \E c \in Consumers : Queue!Dequeue(c)
               \/ UNCHANGED <<AbsQueue, AbsPopped>>
    BY DEF Queue!QNext, Queue!qvars
  <2>1. ASSUME NEW p \in Producers, NEW v \in Values, PushStart(p, v)
        PROVE  UNCHANGED <<AbsQueue, AbsPopped>>
    BY <1>1, <2>1, PushStutters
  <2>2. ASSUME NEW p \in Producers, PushOn(p)
        PROVE  \/ \E v \in Values : Queue!Enqueue(v)
               \/ UNCHANGED <<AbsQueue, AbsPopped>>
    BY <1>1, <2>2, PushStutters, PushWriteStutters, PushClaimEnqueues DEF PushOn
  <2>3. ASSUME NEW c \in Consumers, PopStart(c)
        PROVE  UNCHANGED <<AbsQueue, AbsPopped>>
    BY <1>1, <2>3, PopStutters
  <2>4. ASSUME NEW c \in Consumers, PopOn(c)
        PROVE  Queue!Dequeue(c) \/ UNCHANGED <<AbsQueue, AbsPopped>>
    BY <1>1, <2>4, PopStutters, PopClaimDequeues DEF PopOn
  <2>5. ASSUME NEW o \in Observers, LenLoadTail(o) \/ LenLoadHead(o)
        PROVE  UNCHANGED <<AbsQueue, AbsPopped>>
    BY <2>5, OthersStutter DEF LenLoadTail, LenLoadHead
  <2>6. CASE UNCHANGED vars
    BY <2>6, OthersStutter DEF vars
  <2> QED BY <1>1, <2>1, <2>2, <2>3, <2>4, <2>5, <2>6 DEF Next
<1> QED BY <1>1, QueueInit, Protocol, PTL DEF Spec, ImplementsQueue, Queue!QSpec
===============================================================================
