------------------------------ MODULE RingBuffer ------------------------------
(***************************************************************************)
(* mrp/ringbuffer.go: the lock-free multi-producer multi-consumer ring.    *)
(* One action per atomic memory access of Push, Pop and Len, so that every *)
(* interleaving of the goroutines that the Go memory model allows for      *)
(* sync/atomic (sequentially consistent) accesses is a behaviour.          *)
(*                                                                         *)
(* head and tail are the monotonic uint64 counters; a slot is addressed by *)
(* counter & (capacity-1), which is counter % Cap because NewRingBuffer    *)
(* rounds the capacity up to a power of two.  The counters would need 2^64 *)
(* pushes to wrap, so they are natural numbers here.                       *)
(***************************************************************************)
EXTENDS Integers, Sequences

CONSTANTS Producers,   \* goroutines that call Push
          Consumers,   \* goroutines that call Pop
          Observers,   \* goroutines that call Len, IsFull or IsEmpty
          Values,      \* the values that may be pushed
          Zero,        \* the zero value of the element type, in a fresh slot
          Cap,         \* rb.capacity
          MaxTail      \* bound: no Push starts once tail has reached it

ASSUME CapAssumption == Cap \in Nat \ {0}
ASSUME ValuesAssumption == Zero \in Values
ASSUME MaxTailAssumption == MaxTail \in Nat

VARIABLES head, tail,  \* rb.head, rb.tail
          seq, val,    \* slots[s].sequence and slots[s].val
          ppc,         \* where each producer is inside Push
          ptail,       \* Push's local copy of tail
          arg,         \* Push's argument
          cpc,         \* where each consumer is inside Pop
          chead,       \* Pop's local copy of head
          got,         \* the value c's last successful Pop read
          opc,         \* where each observer is inside Len
          otail,       \* Len's local copy of tail
          len          \* what o's last call of Len returned

pvars == <<ppc, ptail, arg>>
cvars == <<cpc, chead, got>>
ovars == <<opc, otail, len>>
vars == <<head, tail, seq, val, pvars, cvars, ovars>>

Slot(i) == i % Cap
Slots == 0 .. (Cap - 1)

(* ------------------------------ NewRingBuffer --------------------------- *)

Init == /\ head = 0
        /\ tail = 0
        /\ seq = [s \in Slots |-> s]
        /\ val = [s \in Slots |-> Zero]
        /\ ppc = [p \in Producers |-> "idle"]
        /\ ptail = [p \in Producers |-> 0]
        /\ arg = [p \in Producers |-> Zero]
        /\ cpc = [c \in Consumers |-> "idle"]
        /\ chead = [c \in Consumers |-> 0]
        /\ got = [c \in Consumers |-> Zero]
        /\ opc = [o \in Observers |-> "idle"]
        /\ otail = [o \in Observers |-> 0]
        /\ len = [o \in Observers |-> 0]

(* --------------------------------- Push --------------------------------- *)

\* The call of Push(v), up to the first rb.tail.Load().
PushStart(p, v) ==
    /\ ppc[p] = "idle"
    /\ tail < MaxTail
    /\ arg' = [arg EXCEPT ![p] = v]
    /\ ptail' = [ptail EXCEPT ![p] = tail]
    /\ ppc' = [ppc EXCEPT ![p] = "loadSeq"]
    /\ UNCHANGED <<head, tail, seq, val, cvars, ovars>>

\* rb.tail.Load() of a later turn of the loop.
PushReload(p) ==
    /\ ppc[p] = "loadTail"
    /\ ptail' = [ptail EXCEPT ![p] = tail]
    /\ ppc' = [ppc EXCEPT ![p] = "loadSeq"]
    /\ UNCHANGED <<head, tail, seq, val, arg, cvars, ovars>>

\* Mutations of PushLoadSeq: a slot of the previous lap is taken for a free one;
\* a stale copy of tail is taken for a full ring; a full ring is waited for.
PushIgnoresFull(p) ==
    LET difference == seq[Slot(ptail[p])] - ptail[p]
    IN  /\ ppc[p] = "loadSeq"
        /\ ppc' = [ppc EXCEPT ![p] = IF difference <= 0 THEN "cas" ELSE "loadTail"]
        /\ UNCHANGED <<head, tail, seq, val, ptail, arg, cvars, ovars>>
PushGivesUp(p) ==
    LET difference == seq[Slot(ptail[p])] - ptail[p]
    IN  /\ ppc[p] = "loadSeq"
        /\ ppc' = [ppc EXCEPT ![p] = IF difference = 0 THEN "cas" ELSE "idle"]
        /\ UNCHANGED <<head, tail, seq, val, ptail, arg, cvars, ovars>>
PushSpinsWhenFull(p) ==
    LET difference == seq[Slot(ptail[p])] - ptail[p]
    IN  /\ ppc[p] = "loadSeq"
        /\ ppc' = [ppc EXCEPT ![p] = IF difference = 0 THEN "cas" ELSE "loadTail"]
        /\ UNCHANGED <<head, tail, seq, val, ptail, arg, cvars, ovars>>

\* slot.sequence.Load() and the switch on sequence - tail: 0 goes on to the
\* CAS, negative returns false, positive yields and takes another turn.
PushLoadSeq(p) ==
    LET difference == seq[Slot(ptail[p])] - ptail[p]
    IN  /\ ppc[p] = "loadSeq"
        /\ \/ /\ difference = 0
              /\ ppc' = [ppc EXCEPT ![p] = "cas"]
           \/ /\ difference < 0
              /\ ppc' = [ppc EXCEPT ![p] = "idle"]
           \/ /\ difference > 0
              /\ ppc' = [ppc EXCEPT ![p] = "loadTail"]
        /\ UNCHANGED <<head, tail, seq, val, ptail, arg, cvars, ovars>>

\* Mutation of PushClaim: a store instead of a compare-and-swap.
PushStoresTail(p) ==
    /\ ppc[p] = "cas"
    /\ tail' = ptail[p] + 1
    /\ ppc' = [ppc EXCEPT ![p] = "write"]
    /\ UNCHANGED <<head, seq, val, ptail, arg, cvars, ovars>>

\* rb.tail.CompareAndSwap(tail, tail+1).
PushClaim(p) ==
    /\ ppc[p] = "cas"
    /\ tail = ptail[p]
    /\ tail' = tail + 1
    /\ ppc' = [ppc EXCEPT ![p] = "write"]
    /\ UNCHANGED <<head, seq, val, ptail, arg, cvars, ovars>>

PushLost(p) ==
    /\ ppc[p] = "cas"
    /\ tail # ptail[p]
    /\ ppc' = [ppc EXCEPT ![p] = "loadTail"]
    /\ UNCHANGED <<head, tail, seq, val, ptail, arg, cvars, ovars>>

\* slot.val = val, a plain write.
PushWrite(p) ==
    /\ ppc[p] = "write"
    /\ val' = [val EXCEPT ![Slot(ptail[p])] = arg[p]]
    /\ ppc' = [ppc EXCEPT ![p] = "publish"]
    /\ UNCHANGED <<head, tail, seq, ptail, arg, cvars, ovars>>

\* slot.sequence.Store(tail + 1); return true.
PushPublish(p) ==
    /\ ppc[p] = "publish"
    /\ seq' = [seq EXCEPT ![Slot(ptail[p])] = ptail[p] + 1]
    /\ ppc' = [ppc EXCEPT ![p] = "idle"]
    /\ UNCHANGED <<head, tail, val, ptail, arg, cvars, ovars>>

(* ---------------------------------- Pop --------------------------------- *)

\* The call of Pop(), up to the first rb.head.Load(); Drain is a loop of calls.
PopStart(c) ==
    /\ cpc[c] = "idle"
    /\ chead' = [chead EXCEPT ![c] = head]
    /\ cpc' = [cpc EXCEPT ![c] = "loadSeq"]
    /\ UNCHANGED <<head, tail, seq, val, got, pvars, ovars>>

\* rb.head.Load() of a later turn of the loop.
PopReload(c) ==
    /\ cpc[c] = "loadHead"
    /\ chead' = [chead EXCEPT ![c] = head]
    /\ cpc' = [cpc EXCEPT ![c] = "loadSeq"]
    /\ UNCHANGED <<head, tail, seq, val, got, pvars, ovars>>

\* slot.sequence.Load() and the switch on sequence - (head+1).
PopLoadSeq(c) ==
    LET difference == seq[Slot(chead[c])] - (chead[c] + 1)
    IN  /\ cpc[c] = "loadSeq"
        /\ \/ /\ difference = 0
              /\ cpc' = [cpc EXCEPT ![c] = "cas"]
           \/ /\ difference < 0
              /\ cpc' = [cpc EXCEPT ![c] = "idle"]
           \/ /\ difference > 0
              /\ cpc' = [cpc EXCEPT ![c] = "loadHead"]
        /\ UNCHANGED <<head, tail, seq, val, chead, got, pvars, ovars>>

\* rb.head.CompareAndSwap(head, head+1).
PopClaim(c) ==
    /\ cpc[c] = "cas"
    /\ head = chead[c]
    /\ head' = head + 1
    /\ cpc' = [cpc EXCEPT ![c] = "read"]
    /\ UNCHANGED <<tail, seq, val, chead, got, pvars, ovars>>

PopLost(c) ==
    /\ cpc[c] = "cas"
    /\ head # chead[c]
    /\ cpc' = [cpc EXCEPT ![c] = "loadHead"]
    /\ UNCHANGED <<head, tail, seq, val, chead, got, pvars, ovars>>

\* Mutation of PopRead: the slot of the counter, not of the claimed index.
PopReadsHead(c) ==
    /\ cpc[c] = "read"
    /\ got' = [got EXCEPT ![c] = val[Slot(head)]]
    /\ cpc' = [cpc EXCEPT ![c] = "release"]
    /\ UNCHANGED <<head, tail, seq, val, chead, pvars, ovars>>

\* val := slot.val, a plain read.
PopRead(c) ==
    /\ cpc[c] = "read"
    /\ got' = [got EXCEPT ![c] = val[Slot(chead[c])]]
    /\ cpc' = [cpc EXCEPT ![c] = "release"]
    /\ UNCHANGED <<head, tail, seq, val, chead, pvars, ovars>>

\* slot.sequence.Store(head + capacity); return val, true.
PopRelease(c) ==
    /\ cpc[c] = "release"
    /\ seq' = [seq EXCEPT ![Slot(chead[c])] = chead[c] + Cap]
    /\ cpc' = [cpc EXCEPT ![c] = "idle"]
    /\ UNCHANGED <<head, tail, val, chead, got, pvars, ovars>>

(* ---------------------------------- Len --------------------------------- *)

\* Mutation of LenLoadTail: tail is taken for the last index in use.
LenCountsNext(o) ==
    /\ opc[o] = "idle"
    /\ otail' = [otail EXCEPT ![o] = tail + 1]
    /\ opc' = [opc EXCEPT ![o] = "loadHead"]
    /\ UNCHANGED <<head, tail, seq, val, len, pvars, cvars>>

\* Len loads tail first, head second.
LenLoadTail(o) ==
    /\ opc[o] = "idle"
    /\ otail' = [otail EXCEPT ![o] = tail]
    /\ opc' = [opc EXCEPT ![o] = "loadHead"]
    /\ UNCHANGED <<head, tail, seq, val, len, pvars, cvars>>

\* Mutation of LenLoadHead: no test for a head that has passed the old tail.
LenUnderflows(o) ==
    /\ opc[o] = "loadHead"
    /\ len' = [len EXCEPT ![o] = otail[o] - head]
    /\ opc' = [opc EXCEPT ![o] = "idle"]
    /\ UNCHANGED <<head, tail, seq, val, otail, pvars, cvars>>

LenLoadHead(o) ==
    /\ opc[o] = "loadHead"
    /\ len' = [len EXCEPT ![o] = IF otail[o] > head THEN otail[o] - head ELSE 0]
    /\ opc' = [opc EXCEPT ![o] = "idle"]
    /\ UNCHANGED <<head, tail, seq, val, otail, pvars, cvars>>

(* ------------------------------------------------------------------------ *)

\* The rest of a call of Push, Pop or Len that has started.
PushOn(p) == \/ PushReload(p) \/ PushLoadSeq(p) \/ PushClaim(p) \/ PushLost(p)
             \/ PushWrite(p) \/ PushPublish(p)

PopOn(c) == \/ PopReload(c) \/ PopLoadSeq(c) \/ PopClaim(c) \/ PopLost(c)
            \/ PopRead(c) \/ PopRelease(c)

Next == \/ \E p \in Producers : PushOn(p) \/ \E v \in Values : PushStart(p, v)
        \/ \E c \in Consumers : PopOn(c) \/ PopStart(c)
        \/ \E o \in Observers : LenLoadTail(o) \/ LenLoadHead(o)

Spec == Init /\ [][Next]_vars

(* ------------------------------ Properties ------------------------------ *)

\* Type invariant: the counters are naturals, every slot has a sequence
\* number and a value, every goroutine is at a step of its loop.
TypeOK == /\ head \in Nat /\ tail \in Nat
          /\ seq \in [Slots -> Nat] /\ val \in [Slots -> Values]
          /\ ppc \in [Producers -> {"idle", "loadTail", "loadSeq", "cas", "write", "publish"}]
          /\ ptail \in [Producers -> Nat] /\ arg \in [Producers -> Values]
          /\ cpc \in [Consumers -> {"idle", "loadHead", "loadSeq", "cas", "read", "release"}]
          /\ chead \in [Consumers -> Nat] /\ got \in [Consumers -> Values]
          /\ opc \in [Observers -> {"idle", "loadHead"}]
          /\ otail \in [Observers -> Nat] /\ len \in [Observers -> Nat]

\* Between its CAS and its store to slot.sequence a goroutine owns a slot, the
\* one of the index it has claimed.
InPush(p) == ppc[p] \in {"write", "publish"}
InPop(c) == cpc[c] \in {"read", "release"}
Writing(p, i) == InPush(p) /\ ptail[p] = i
Reading(c, i) == InPop(c) /\ chead[c] = i

\* The plain accesses to slot.val never race: whoever has won a CAS is alone in
\* its slot until it hands the slot on (Push and Pop, the ownership protocol of
\* the comment on type slot).
SlotExclusive ==
    /\ \A p, q \in Producers :
          InPush(p) /\ InPush(q) /\ Slot(ptail[p]) = Slot(ptail[q]) => p = q
    /\ \A c, d \in Consumers :
          InPop(c) /\ InPop(d) /\ Slot(chead[c]) = Slot(chead[d]) => c = d
    /\ \A p \in Producers, c \in Consumers :
          InPush(p) /\ InPop(c) => Slot(ptail[p]) # Slot(chead[c])

\* Push: "If the buffer is full at the moment of the attempt, it returns
\* false": no CAS on tail succeeds while Cap values are queued.
FullPushFails == [][tail' > tail => tail - head < Cap]_vars

\* A call that returns false says something true of the ring: Push only when
\* it is full or a consumer has not yet handed its slot back, Pop only when it
\* is empty or the oldest value is still being written.  In particular no call
\* fails because of a stale copy of tail or head.
FailuresJustified ==
    [][/\ \A p \in Producers :
            ppc[p] = "loadSeq" /\ ppc'[p] = "idle" =>
               tail - head = Cap \/ \E c \in Consumers : Reading(c, tail - Cap)
       /\ \A c \in Consumers :
            cpc[c] = "loadSeq" /\ cpc'[c] = "idle" =>
               tail = head \/ \E p \in Producers : Writing(p, head)]_vars

\* Len loads tail before head, so however the ring moves between the two
\* loads it never reports more than Cap (IsFull compares it with Cap).
LenWithinCap == \A o \in Observers : len[o] <= Cap

\* Push and Pop are lock-free: a goroutine goes round its loop only because
\* another one has claimed an index since it loaded the counter, by then beyond
\* its copy.  Nobody waits for a goroutine that is stopped inside its slot.
RetriesJustified ==
    [][/\ \A p \in Producers : ppc[p] \in {"loadSeq", "cas"} /\ ppc'[p] = "loadTail" =>
                                  ptail[p] < tail
       /\ \A c \in Consumers : cpc[c] \in {"loadSeq", "cas"} /\ cpc'[c] = "loadHead" =>
                                  chead[c] < head]_vars

(* -------------------------- Inductive invariant ------------------------- *)

Claimed(i) == \E p \in Producers : Writing(p, i)
Held(i) == \E c \in Consumers : Reading(c, i)

\* At most Cap indices lie between the counters.
CountersInv == head <= tail /\ tail - Cap <= head

\* A producer owns an index between the counters.  Its copy of tail is never
\* ahead, and when it is current the sequence number it saw is still there.
ProducerInv ==
    \A p \in Producers :
       /\ ppc[p] \in {"write", "publish"} => head <= ptail[p] /\ ptail[p] < tail
       /\ ppc[p] \in {"loadSeq", "cas"} => ptail[p] <= tail
       /\ ppc[p] = "cas" /\ ptail[p] = tail => seq[Slot(tail)] = tail

\* A consumer owns an index below head that no producer has reclaimed.
ConsumerInv ==
    \A c \in Consumers :
       /\ cpc[c] \in {"read", "release"} => tail - Cap <= chead[c] /\ chead[c] < head
       /\ cpc[c] \in {"loadSeq", "cas"} => chead[c] <= head
       /\ cpc[c] = "cas" /\ chead[c] = head => head < tail /\ seq[Slot(head)] = head + 1

\* No two producers own one index, no two consumers own one index.
OwnersInv ==
    /\ \A p, q \in Producers : InPush(p) /\ InPush(q) /\ ptail[p] = ptail[q] => p = q
    /\ \A c, d \in Consumers : InPop(c) /\ InPop(d) /\ chead[c] = chead[d] => c = d

\* An observer's copy of tail is at most Cap ahead of head.
ObserverInv == /\ \A o \in Observers : opc[o] = "loadHead" => otail[o] - Cap <= head
               /\ LenWithinCap

\* The sequence protocol, for the Cap indices that currently own the slots.
BeingWritten(i) == Claimed(i) /\ head <= i /\ seq[Slot(i)] = i
Published(i) == ~Claimed(i) /\ 0 <= i /\ (head <= i \/ Held(i)) /\ seq[Slot(i)] = i + 1
Released(i) == ~Claimed(i) /\ i < head /\ ~Held(i) /\ seq[Slot(i)] = i + Cap

SlotInv == \A i \in (tail - Cap) .. (tail - 1) :
               BeingWritten(i) \/ Published(i) \/ Released(i)

IndInv == /\ TypeOK /\ CountersInv /\ ProducerInv /\ ConsumerInv
          /\ OwnersInv /\ ObserverInv /\ SlotInv

(* ------------------------- Refinement of BoundedQueue ------------------- *)

\* The value of each queued index: still in its producer's hands, or in the slot.
Items == [i \in head .. (tail - 1) |->
            IF \E p \in Producers : ppc[p] = "write" /\ ptail[p] = i
            THEN arg[CHOOSE p \in Producers : ppc[p] = "write" /\ ptail[p] = i]
            ELSE val[Slot(i)]]

\* A Push takes effect at its CAS on tail, a Pop at its CAS on head.
AbsQueue == [k \in 1 .. (tail - head) |-> Items[head + k - 1]]
AbsPopped == [c \in Consumers |-> IF cpc[c] = "read" THEN val[Slot(chead[c])] ELSE got[c]]

Queue == INSTANCE BoundedQueue WITH queue <- AbsQueue, popped <- AbsPopped

\* The ring implements the queue: values come out once, in the order in which
\* their producers won the CAS, and never more than Cap are queued.
ImplementsQueue == Queue!QSpec
===============================================================================
