----------------------------- MODULE BoundedQueue -----------------------------
(***************************************************************************)
(* What mrp/ringbuffer.go promises to its callers: a first-in first-out    *)
(* queue of at most Cap values shared by producers and consumers.  A Push  *)
(* and a Pop that succeed take effect in one step; a call that returns     *)
(* false has no effect at all.                                             *)
(***************************************************************************)
EXTENDS Naturals, Sequences

CONSTANTS Consumers,   \* goroutines that call Pop
          Values,      \* values that may be pushed
          Cap          \* the capacity

VARIABLES queue,       \* the values pushed and not yet popped, oldest first
          popped       \* popped[c]: the value c's last successful Pop took

qvars == <<queue, popped>>

QInit == /\ queue = <<>>
         /\ popped \in [Consumers -> Values]

\* Push(v) returned true.
Enqueue(v) == /\ Len(queue) < Cap
              /\ queue' = Append(queue, v)
              /\ UNCHANGED popped

\* Pop() by c returned (Head(queue), true).
Dequeue(c) == /\ queue # <<>>
              /\ popped' = [popped EXCEPT ![c] = Head(queue)]
              /\ queue' = Tail(queue)

QNext == \/ \E v \in Values : Enqueue(v)
         \/ \E c \in Consumers : Dequeue(c)

QSpec == QInit /\ [][QNext]_qvars
===============================================================================
