----------------------------- MODULE ShutdownProofs -----------------------------
(***************************************************************************)
(* Proofs about Shutdown, for any finite number of clients: type           *)
(* correctness, that RPCListener.Close joins every handler, and that a     *)
(* write which was answered is on disk when the process exits.             *)
(***************************************************************************)
EXTENDS Shutdown, FiniteSetTheorems, TLAPS

(* ------------------------- The waitGroup and the types ------------------------- *)

Serving == {c \in Clients : hand[c] = "serving"}

\* The waitGroup counts the accept loop and the connections being served, and a
\* connection is served after it was accepted.
WgInv ==
    /\ wg = Cardinality(Serving) + IF loop = "accept" THEN 1 ELSE 0
    /\ \A c \in Clients : hand[c] # "none" => conn[c] \in {"open", "closed"}

\* There is an accept loop once Start has succeeded; when Close has waited for
\* the waitGroup it has ended, and nothing is being served.
JoinInv ==
    /\ main \in {"start", "failed"} =>
          ~lclosed /\ loop = "none" /\ \A c \in Clients : hand[c] # "serving"
    /\ main \notin {"start", "failed"} => loop # "none"
    /\ HandlersJoined

ListenerInv == TypeOK /\ WgInv /\ JoinInv

(* ------------------------------ What is on disk ------------------------------ *)

\* Who is inside a flush or an upload pass.
PassInv ==
    /\ main = "start" => tick = "none"
    /\ step["monitor"] # "idle" => mon \in {"select", "last"}
    /\ step["ticker"] # "idle" => tick = "pass"
    /\ step["closer"] # "idle" => main = "upload"
    /\ \A c \in Clients : step[c] # "idle" => call[c] = "passing" /\ hand[c] = "serving"

\* No chunk is lost between the ring and the files.
NoneLost ==
    /\ \A c \in acked \cup early : c \in ring \/ c \in disk \/ \E f \in Flusher : c \in batch[f]
    /\ \A f \in Flusher : step[f] # "store" => batch[f] = {}
    /\ \A c \in early : call[c] = "answered" /\ conn[c] # "none"

\* A server has no log.  A coordinator goes through the steps of Close in order,
\* and "left" and "first" say what it has closed.
CloseInv ==
    /\ role = "server" => /\ acked = {} /\ left = {} /\ first = "none"
                          /\ \A c \in Clients : call[c] # "write"
                          /\ main \notin {"join", "upload", "pick", "close_log", "close_log_wait"}
    /\ role = "coordinator" =>
          /\ main # "server_join"
          /\ main \notin {"start", "failed", "running", "join"} => tick = "done"
          /\ main \in {"pick", "close_log", "close_log_wait", "closed"} =>
                "listener" \in left \/ lclosed
          /\ first = "none" => main \in {"start", "failed", "running", "join", "upload", "pick"}
    /\ main \in {"start", "failed", "running", "join", "upload"} =>
          first = "none" /\ left = {} /\ ~lclosed /\ ~logClosed
    /\ main \in {"close_flag", "close_socket", "close_wait"} => "listener" \notin left
    /\ main \in {"close_socket", "close_wait"} => lclosed
    /\ main \in {"close_log", "close_log_wait"} => "log" \notin left
    /\ main = "pick" => left # {} /\ (first = "none" => left = {"listener", "log"})
    /\ main = "closed" => left = {}
    /\ first = "listener" =>
          /\ "listener" \notin left
          /\ main \in {"close_flag", "close_socket", "close_wait"} => "log" \in left
    /\ first = "log" => "log" \notin left

\* DurableBuffer.Close waits for the monitor, whose last cleanup empties the ring
\* of what was there before: of everything, when no handler is left to write.
LogInv ==
    /\ "log" \in left => ~logClosed
    /\ "log" \notin left /\ first # "none" /\ main # "close_log" =>
          logClosed /\ (main # "close_log_wait" => mon = "done")
    /\ mon \in {"last", "done"} => logClosed /\ ring \cap early = {}
    /\ mon \in {"last", "done"} /\ first = "listener" => ring = {}

DiskInv == ListenerInv /\ PassInv /\ NoneLost /\ CloseInv /\ LogInv

(* -------------------- The listener: types and HandlersJoined -------------------- *)

LEMMA ServingSize ==
  /\ IsFiniteSet(Serving) /\ Cardinality(Serving) \in 0 .. Cardinality(Clients)
  /\ Cardinality(Clients) \in Nat
<1>1. Serving \in SUBSET Clients
  BY DEF Serving
<1>2. IsFiniteSet(Serving) /\ Cardinality(Serving) <= Cardinality(Clients)
  BY <1>1, ClientsAssumption, FS_Subset
<1> QED BY <1>2, ClientsAssumption, FS_CardinalityType

LEMMA ServingBegins ==
  ASSUME TypeOK, NEW c \in Clients, hand[c] # "serving", hand' = [hand EXCEPT ![c] = "serving"]
  PROVE  Cardinality(Serving') = Cardinality(Serving) + 1
<1>1. Serving' = Serving \cup {c} /\ c \notin Serving
  BY DEF Serving, TypeOK
<1> QED BY <1>1, ServingSize, FS_AddElement

LEMMA ServingEnds ==
  ASSUME TypeOK, NEW c \in Clients, hand[c] = "serving", hand' = [hand EXCEPT ![c] = "ended"]
  PROVE  Cardinality(Serving') = Cardinality(Serving) - 1
<1>1. Serving' = Serving \ {c} /\ c \in Serving
  BY DEF Serving, TypeOK
<1> QED BY <1>1, ServingSize, FS_RemoveElement

LEMMA NoneServing == Cardinality(Serving) = 0 <=> \A c \in Clients : hand[c] # "serving"
<1>1. Cardinality(Serving) = 0 <=> Serving = {}
  BY ServingSize, FS_EmptySet
<1> QED BY <1>1 DEF Serving

\* The waitGroup stays within its bounds.
LEMMA WgType == TypeOK /\ WgInv' => wg' \in 0 .. Cardinality(Clients) + 1
<1>1. /\ Cardinality(Serving') \in 0 .. Cardinality(Clients) /\ Cardinality(Clients) \in Nat
  <2>1. Serving' \in SUBSET Clients
    BY DEF Serving
  <2>2. IsFiniteSet(Serving') /\ Cardinality(Serving') <= Cardinality(Clients)
    BY <2>1, ClientsAssumption, FS_Subset
  <2> QED BY <2>2, ClientsAssumption, FS_CardinalityType
<1> QED BY <1>1 DEF WgInv

LEMMA ListenerInit == Init => ListenerInv
<1> SUFFICES ASSUME Init PROVE ListenerInv
  OBVIOUS
<1>1. TypeOK
  <2>1. mon \in {"none", "replay"}
    BY DEF Init
  <2>2. wg \in 0 .. Cardinality(Clients) + 1 /\ errs \in 0 .. ErrCap
    BY ServingSize, ShutdownAssumption DEF Init
  <2> QED BY <2>1, <2>2 DEF Init, TypeOK
<1>2. Cardinality(Serving) = 0
  BY NoneServing DEF Init
<1>3. WgInv /\ JoinInv
  BY <1>2 DEF Init, WgInv, JoinInv, HandlersJoined, ListenerReturned
<1> QED BY <1>1, <1>3 DEF ListenerInv

\* Every step keeps the types, the waitGroup apart.
LEMMA TypeStep ==
  ASSUME TypeOK, Next, wg' \in 0 .. Cardinality(Clients) + 1
  PROVE  TypeOK'
<1> USE ShutdownAssumption DEF TypeOK, closing, listener, clients, flush, log
<1>1. CASE Start
  BY <1>1 DEF Start
<1>2. CASE Signal
  BY <1>2 DEF Signal
<1>3. CASE AcceptFails
  BY <1>3 DEF AcceptFails, Uses
<1>4. CASE Accept
  BY <1>4 DEF Accept
<1>5. CASE AcceptClosed
  BY <1>5 DEF AcceptClosed
<1>6. CASE DrainErrors
  BY <1>6 DEF DrainErrors
<1>7. CASE Tick
  BY <1>7 DEF Tick, Uses, Flusher
<1>8. CASE TickerStops
  BY <1>8 DEF TickerStops
<1>9. CASE Replayed
  BY <1>9 DEF Replayed
<1>10. CASE Cleanup
  BY <1>10 DEF Cleanup, Uses, Drain, Flusher
<1>11. CASE LastCleanup
  BY <1>11 DEF LastCleanup, Drain, Flusher
<1>12. CASE MonitorReturns
  BY <1>12 DEF MonitorReturns
<1>13. CASE Join
  BY <1>13 DEF Join, Flusher
<1>14. CASE LastUpload
  BY <1>14 DEF LastUpload
<1>15. CASE Pick
  BY <1>15 DEF Pick
<1>16. CASE CloseFlag
  BY <1>16 DEF CloseFlag
<1>17. CASE CloseSocket
  BY <1>17 DEF CloseSocket
<1>18. CASE CloseWait
  BY <1>18 DEF CloseWait, After
<1>19. CASE ServerJoin
  BY <1>19 DEF ServerJoin
<1>20. CASE CloseLog
  BY <1>20 DEF CloseLog
<1>21. CASE CloseLogWait
  BY <1>21 DEF CloseLogWait, After
<1>22. ASSUME NEW c \in Clients, Dial(c) PROVE TypeOK'
  BY <1>22 DEF Dial
<1>23. ASSUME NEW c \in Clients, HangUp(c) PROVE TypeOK'
  BY <1>23 DEF HangUp
<1>24. ASSUME NEW c \in Clients, Write(c) PROVE TypeOK'
  BY <1>24 DEF Write
<1>25. ASSUME NEW c \in Clients, Trigger(c) PROVE TypeOK'
  BY <1>25 DEF Trigger, Flusher
<1>26. ASSUME NEW c \in Clients, Reply(c) PROVE TypeOK'
  BY <1>26 DEF Reply
<1>27. ASSUME NEW c \in Clients, EndServe(c) PROVE TypeOK'
  BY <1>27 DEF EndServe
<1>28. ASSUME NEW f \in Flusher, Lock(f) PROVE TypeOK'
  BY <1>28 DEF Lock, Drain
<1>29. ASSUME NEW f \in Flusher, Store(f) PROVE TypeOK'
  BY <1>29 DEF Store
<1> QED
  BY <1>1, <1>2, <1>3, <1>4, <1>5, <1>6, <1>7, <1>8, <1>9, <1>10, <1>11, <1>12, <1>13, <1>14,
     <1>15, <1>16, <1>17, <1>18, <1>19, <1>20, <1>21, <1>22, <1>23, <1>24, <1>25, <1>26, <1>27,
     <1>28, <1>29
  DEF Next, Goroutines, Close, CoordinatorClose, AcceptLoop, UploadLoop, Monitor, Flush, Handler

\* What leaves the accept loop and the handlers alone leaves the count alone.
LEMMA WgQuiet ==
  ASSUME WgInv, UNCHANGED <<wg, loop, hand>>,
         \A c \in Clients : hand[c] # "none" => conn'[c] = conn[c]
  PROVE  WgInv'
BY DEF WgInv, Serving

\* The waitGroup goes up and down with the handlers and the accept loop.
LEMMA WgStep ==
  ASSUME ListenerInv, Next
  PROVE  WgInv'
<1> USE DEF ListenerInv, closing, listener, clients
<1>0. Cardinality(Serving) \in Nat
  BY ServingSize
<1>1. CASE Start
  <2>1. CASE main' = "failed"
    BY <1>1, <2>1, WgQuiet DEF Start
  <2>2. CASE main' = "running"
    <3>1. loop = "none" /\ \A c \in Clients : hand[c] # "serving"
      BY <1>1 DEF Start, JoinInv
    <3>2. Cardinality(Serving) = 0 /\ Serving' = Serving
      BY <1>1, <3>1, NoneServing DEF Start, Serving
    <3> QED BY <1>1, <2>2, <3>2 DEF Start, WgInv
  <2> QED BY <1>1, <2>1, <2>2 DEF Start
<1>2. CASE Accept
  <2>1. PICK c \in Clients : /\ conn[c] = "queued" /\ conn' = [conn EXCEPT ![c] = "open"]
                             /\ hand' = [hand EXCEPT ![c] = "serving"]
    BY <1>2 DEF Accept
  <2>2. hand[c] = "none"
    BY <2>1 DEF WgInv, TypeOK
  <2>3. Cardinality(Serving') = Cardinality(Serving) + 1
    BY <2>1, <2>2, ServingBegins
  <2>4. wg' = wg + 1 /\ loop' = loop
    BY <1>2 DEF Accept
  <2> QED BY <1>0, <2>1, <2>3, <2>4 DEF WgInv, TypeOK
<1>3. CASE AcceptFails \/ AcceptClosed
  <2>1. CASE UNCHANGED <<wg, loop>>
    BY <1>3, <2>1, WgQuiet DEF AcceptFails, AcceptClosed
  <2>2. CASE wg' = wg - 1 /\ loop = "accept" /\ loop' = "done"
    <3>1. Serving' = Serving /\ UNCHANGED <<hand, conn>>
      BY <1>3 DEF AcceptFails, AcceptClosed, Serving
    <3> QED BY <1>0, <2>2, <3>1 DEF WgInv
  <2> QED BY <1>3, <2>1, <2>2 DEF AcceptFails, AcceptClosed
<1>4. ASSUME NEW c \in Clients, EndServe(c) PROVE WgInv'
  <2>1. /\ hand[c] = "serving" /\ hand' = [hand EXCEPT ![c] = "ended"]
        /\ conn' = [conn EXCEPT ![c] = "closed"] /\ wg' = wg - 1 /\ loop' = loop
    BY <1>4 DEF EndServe
  <2>2. Cardinality(Serving') = Cardinality(Serving) - 1
    BY <2>1, ServingEnds
  <2> QED BY <1>0, <2>1, <2>2 DEF WgInv, TypeOK
<1>5. ASSUME NEW c \in Clients, Dial(c) PROVE WgInv'
  <2>1. UNCHANGED <<wg, loop, hand>> /\ conn[c] = "none" /\ conn' = [conn EXCEPT ![c] = "queued"]
    BY <1>5 DEF Dial
  <2>2. \A e \in Clients : hand[e] # "none" => conn'[e] = conn[e]
    BY <2>1 DEF WgInv, TypeOK
  <2> QED BY <2>1, <2>2, WgQuiet
<1>6. ASSUME NEW c \in Clients, HangUp(c) \/ Write(c) \/ Trigger(c) \/ Reply(c) PROVE WgInv'
  BY <1>6, WgQuiet DEF HangUp, Write, Trigger, Reply
<1>7. ASSUME NEW f \in Flusher, Lock(f) \/ Store(f) PROVE WgInv'
  BY <1>7, WgQuiet DEF Lock, Store
<1>8. CASE CloseSocket
  <2>1. \A c \in Clients : hand[c] # "none" => conn'[c] = conn[c]
    BY <1>8 DEF CloseSocket, WgInv
  <2> QED BY <1>8, <2>1, WgQuiet DEF CloseSocket
<1>9. CASE \/ Signal \/ DrainErrors \/ UploadLoop \/ Monitor \/ CoordinatorClose
           \/ CloseFlag \/ CloseWait \/ ServerJoin
  <2>1. UNCHANGED <<wg, loop, hand, conn>>
    BY <1>9 DEF Signal, DrainErrors, UploadLoop, Tick, TickerStops, Monitor, Replayed, Cleanup,
                LastCleanup, MonitorReturns, CoordinatorClose, Join, LastUpload, Pick, CloseLog,
                CloseLogWait, CloseFlag, CloseWait, ServerJoin
  <2> QED BY <2>1, WgQuiet
<1> QED
  BY <1>1, <1>2, <1>3, <1>4, <1>5, <1>6, <1>7, <1>8, <1>9
  DEF Next, Goroutines, Close, AcceptLoop, Flush, Handler

\* Only Accept begins to serve, and Accept needs the accept loop.
LEMMA JoinStep ==
  ASSUME ListenerInv, Next
  PROVE  JoinInv'
<1> USE DEF ListenerInv, closing, listener, clients, JoinInv, HandlersJoined, ListenerReturned
<1>1. CASE Start
  BY <1>1 DEF Start
<1>2. CASE Accept
  BY <1>2 DEF Accept, Next, Alive
<1>3. CASE AcceptFails \/ AcceptClosed
  BY <1>3 DEF AcceptFails, AcceptClosed
<1>4. ASSUME NEW c \in Clients, EndServe(c) PROVE JoinInv'
  BY <1>4 DEF EndServe, TypeOK
<1>5. ASSUME NEW c \in Clients,
             Dial(c) \/ HangUp(c) \/ Write(c) \/ Trigger(c) \/ Reply(c)
      PROVE  JoinInv'
  BY <1>5 DEF Dial, HangUp, Write, Trigger, Reply
<1>6. ASSUME NEW f \in Flusher, Lock(f) \/ Store(f) PROVE JoinInv'
  BY <1>6 DEF Lock, Store
<1>7. CASE DrainErrors \/ UploadLoop \/ Monitor
  BY <1>7 DEF DrainErrors, UploadLoop, Tick, TickerStops, Monitor, Replayed, Cleanup,
              LastCleanup, MonitorReturns
<1>8. CASE Signal \/ CoordinatorClose \/ ServerJoin
  BY <1>8 DEF Signal, CoordinatorClose, Join, LastUpload, Pick, CloseLog, CloseLogWait, After,
              ServerJoin
<1>9. CASE CloseFlag \/ CloseSocket
  BY <1>9 DEF CloseFlag, CloseSocket
<1>10. CASE CloseWait
  <2>1. wg = 0 /\ main = "close_wait" /\ UNCHANGED <<loop, hand, lclosed>>
        /\ main' \notin {"start", "failed"}
    BY <1>10 DEF CloseWait, After
  <2>2. Cardinality(Serving) = 0 /\ loop # "accept"
    BY <2>1, ServingSize DEF WgInv
  <2>3. loop = "done" /\ \A c \in Clients : hand[c] # "serving"
    BY <2>1, <2>2, NoneServing DEF TypeOK
  <2> QED BY <2>1, <2>3
<1> QED
  BY <1>1, <1>2, <1>3, <1>4, <1>5, <1>6, <1>7, <1>8, <1>9, <1>10
  DEF Next, Goroutines, Close, AcceptLoop, Flush, Handler

LEMMA ListenerStep == ListenerInv /\ [Next]_vars => ListenerInv'
<1> SUFFICES ASSUME ListenerInv, [Next]_vars PROVE ListenerInv'
  OBVIOUS
<1>1. CASE UNCHANGED vars
  BY <1>1 DEF vars, closing, listener, clients, flush, log, ListenerInv, TypeOK, WgInv, Serving,
              JoinInv, HandlersJoined, ListenerReturned
<1>2. CASE Next
  BY <1>2, WgStep, WgType, TypeStep, JoinStep DEF ListenerInv
<1> QED BY <1>1, <1>2

\* Type correctness of a server's life, from Start to the exit: among others the
\* waitGroup never goes below zero, which would panic, and errChan never holds
\* more than its capacity.
THEOREM TypeCorrect == Spec => []TypeOK
<1>1. ListenerInv => TypeOK
  BY DEF ListenerInv
<1> QED BY <1>1, ListenerInit, ListenerStep, PTL DEF Spec

\* When RPCListener.Close returns, the accept loop and all the handlers have
\* ended, however many clients there are and whatever they do.
THEOREM CloseJoins == Spec => []HandlersJoined
<1>1. ListenerInv => HandlersJoined
  BY DEF ListenerInv, JoinInv
<1> QED BY <1>1, ListenerInit, ListenerStep, PTL DEF Spec

(* ----------------------- The disk: AckedOnDisk ----------------------- *)

LEMMA DiskInit == Init => DiskInv
<1> SUFFICES ASSUME Init PROVE DiskInv
  OBVIOUS
<1>1. ListenerInv
  BY ListenerInit
<1>2. PassInv /\ NoneLost
  BY DEF Init, PassInv, NoneLost, Flusher
<1>3. CloseInv /\ LogInv
  BY DEF Init, CloseInv, LogInv, Role
<1> QED BY <1>1, <1>2, <1>3 DEF DiskInv

LEMMA Flushers == /\ {"monitor", "ticker", "closer"} \subseteq Flusher /\ Clients \subseteq Flusher
                  /\ \A c \in Clients : c # "monitor" /\ c # "ticker" /\ c # "closer"
BY ClientsAssumption DEF Flusher

\* A flush is begun and ended by the one who makes it.
LEMMA PassStep ==
  ASSUME DiskInv, ListenerInv', Next
  PROVE  PassInv'
<1> USE Flushers DEF DiskInv, ListenerInv, closing, listener, clients, flush, log, TypeOK, PassInv
<1>1. CASE Start
  BY <1>1 DEF Start
<1>2. CASE Signal
  BY <1>2 DEF Signal
<1>3. CASE AcceptFails
  BY <1>3 DEF AcceptFails, Uses
<1>4. CASE Accept
  <2>1. /\ UNCHANGED <<step, mon, tick, main, call>>
        /\ \A c \in Clients : hand[c] = "serving" => hand'[c] = "serving"
    BY <1>4 DEF Accept
  <2> QED BY <2>1
<1>5. CASE AcceptClosed
  BY <1>5 DEF AcceptClosed
<1>6. CASE DrainErrors
  BY <1>6 DEF DrainErrors
<1>7. CASE Tick
  BY <1>7 DEF Tick, Uses
<1>8. CASE TickerStops
  BY <1>8 DEF TickerStops
<1>9. CASE Replayed
  BY <1>9 DEF Replayed
<1>10. CASE Cleanup
  BY <1>10 DEF Cleanup, Uses, Drain
<1>11. CASE LastCleanup
  BY <1>11 DEF LastCleanup, Drain
<1>12. CASE MonitorReturns
  BY <1>12 DEF MonitorReturns
<1>13. CASE Join
  BY <1>13 DEF Join
<1>14. CASE LastUpload
  BY <1>14 DEF LastUpload
<1>15. CASE Pick
  BY <1>15 DEF Pick
<1>16. CASE CloseFlag
  BY <1>16 DEF CloseFlag
<1>17. CASE CloseSocket
  BY <1>17 DEF CloseSocket
<1>18. CASE CloseWait
  BY <1>18 DEF CloseWait, After
<1>19. CASE ServerJoin
  BY <1>19 DEF ServerJoin
<1>20. CASE CloseLog
  BY <1>20 DEF CloseLog
<1>21. CASE CloseLogWait
  BY <1>21 DEF CloseLogWait, After
<1>22. ASSUME NEW c \in Clients, Dial(c) PROVE PassInv'
  <2>1. /\ UNCHANGED <<step, mon, tick, main, hand>> /\ conn[c] = "none"
        /\ \A e \in Clients \ {c} : call'[e] = call[e]
    BY <1>22 DEF Dial
  <2>2. step[c] = "idle"
    BY <2>1 DEF WgInv
  <2> QED BY <2>1, <2>2
<1>23. ASSUME NEW c \in Clients, HangUp(c) PROVE PassInv'
  BY <1>23 DEF HangUp
<1>24. ASSUME NEW c \in Clients, Write(c) PROVE PassInv'
  BY <1>24 DEF Write
<1>25. ASSUME NEW c \in Clients, Trigger(c) PROVE PassInv'
  BY <1>25 DEF Trigger
<1>26. ASSUME NEW c \in Clients, Reply(c) PROVE PassInv'
  BY <1>26 DEF Reply
<1>27. ASSUME NEW c \in Clients, EndServe(c) PROVE PassInv'
  BY <1>27 DEF EndServe
<1>28. ASSUME NEW f \in Flusher, Lock(f) PROVE PassInv'
  BY <1>28 DEF Lock, Drain
<1>29. ASSUME NEW f \in Flusher, Store(f) PROVE PassInv'
  BY <1>29 DEF Store
<1> QED
  BY <1>1, <1>2, <1>3, <1>4, <1>5, <1>6, <1>7, <1>8, <1>9, <1>10, <1>11, <1>12, <1>13, <1>14,
     <1>15, <1>16, <1>17, <1>18, <1>19, <1>20, <1>21, <1>22, <1>23, <1>24, <1>25, <1>26, <1>27,
     <1>28, <1>29
  DEF Next, Goroutines, Close, CoordinatorClose, AcceptLoop, UploadLoop, Monitor, Flush, Handler

\* What is drained is stored, and only then forgotten.
LEMMA LostStep ==
  ASSUME DiskInv, ListenerInv', Next
  PROVE  NoneLost'
<1> USE Flushers DEF DiskInv, ListenerInv, closing, listener, clients, flush, log, TypeOK, NoneLost
<1>1. CASE Start
  BY <1>1 DEF Start
<1>2. CASE Signal
  BY <1>2 DEF Signal
<1>3. CASE AcceptFails
  BY <1>3 DEF AcceptFails, Uses
<1>4. CASE Accept
  BY <1>4 DEF Accept
<1>5. CASE AcceptClosed
  BY <1>5 DEF AcceptClosed
<1>6. CASE DrainErrors
  BY <1>6 DEF DrainErrors
<1>7. CASE Tick
  BY <1>7 DEF Tick, PassInv
<1>8. CASE TickerStops
  BY <1>8 DEF TickerStops
<1>9. CASE Replayed
  BY <1>9 DEF Replayed
<1>10. CASE Cleanup
  BY <1>10 DEF Cleanup, Uses, Drain
<1>11. CASE LastCleanup
  BY <1>11 DEF LastCleanup, Drain
<1>12. CASE MonitorReturns
  BY <1>12 DEF MonitorReturns
<1>13. CASE Join
  BY <1>13 DEF Join, PassInv
<1>14. CASE LastUpload
  BY <1>14 DEF LastUpload
<1>15. CASE Pick
  BY <1>15 DEF Pick
<1>16. CASE CloseFlag
  BY <1>16 DEF CloseFlag
<1>17. CASE CloseSocket
  BY <1>17 DEF CloseSocket
<1>18. CASE CloseWait
  BY <1>18 DEF CloseWait, After
<1>19. CASE ServerJoin
  BY <1>19 DEF ServerJoin
<1>20. CASE CloseLog
  BY <1>20 DEF CloseLog
<1>21. CASE CloseLogWait
  BY <1>21 DEF CloseLogWait, After
<1>22. ASSUME NEW c \in Clients, Dial(c) PROVE NoneLost'
  BY <1>22 DEF Dial
<1>23. ASSUME NEW c \in Clients, HangUp(c) PROVE NoneLost'
  BY <1>23 DEF HangUp
<1>24. ASSUME NEW c \in Clients, Write(c) PROVE NoneLost'
  <2>1. /\ ring' = ring \cup {c} /\ UNCHANGED <<step, batch, disk, conn>>
        /\ call' = [call EXCEPT ![c] = "answered"]
        /\ early' \subseteq early \cup {c} /\ acked' \subseteq acked \cup {c}
    BY <1>24 DEF Write
  <2>2. conn[c] # "none"
    BY <1>24 DEF Write, WgInv
  <2> QED BY <2>1, <2>2
<1>25. ASSUME NEW c \in Clients, Trigger(c) PROVE NoneLost'
  BY <1>25 DEF Trigger, PassInv
<1>26. ASSUME NEW c \in Clients, Reply(c) PROVE NoneLost'
  BY <1>26 DEF Reply
<1>27. ASSUME NEW c \in Clients, EndServe(c) PROVE NoneLost'
  BY <1>27 DEF EndServe
<1>28. ASSUME NEW f \in Flusher, Lock(f) PROVE NoneLost'
  BY <1>28 DEF Lock, Drain
<1>29. ASSUME NEW f \in Flusher, Store(f) PROVE NoneLost'
  BY <1>29 DEF Store
<1> QED
  BY <1>1, <1>2, <1>3, <1>4, <1>5, <1>6, <1>7, <1>8, <1>9, <1>10, <1>11, <1>12, <1>13, <1>14,
     <1>15, <1>16, <1>17, <1>18, <1>19, <1>20, <1>21, <1>22, <1>23, <1>24, <1>25, <1>26, <1>27,
     <1>28, <1>29
  DEF Next, Goroutines, Close, CoordinatorClose, AcceptLoop, UploadLoop, Monitor, Flush, Handler

\* The order of Close.
LEMMA CloseStep ==
  ASSUME DiskInv, ListenerInv', Next
  PROVE  CloseInv'
<1> USE Flushers DEF DiskInv, ListenerInv, closing, listener, clients, flush, log, TypeOK, Role, CloseInv
<1>1. CASE Start
  BY <1>1 DEF Start
<1>2. CASE Signal
  BY <1>2 DEF Signal
<1>3. CASE AcceptFails
  BY <1>3 DEF AcceptFails, Uses
<1>4. CASE Accept
  BY <1>4 DEF Accept
<1>5. CASE AcceptClosed
  BY <1>5 DEF AcceptClosed
<1>6. CASE DrainErrors
  BY <1>6 DEF DrainErrors
<1>7. CASE Tick
  BY <1>7 DEF Tick, Uses
<1>8. CASE TickerStops
  BY <1>8 DEF TickerStops
<1>9. CASE Replayed
  BY <1>9 DEF Replayed
<1>10. CASE Cleanup
  BY <1>10 DEF Cleanup, Uses, Drain
<1>11. CASE LastCleanup
  BY <1>11 DEF LastCleanup, Drain
<1>12. CASE MonitorReturns
  BY <1>12 DEF MonitorReturns
<1>13. CASE Join
  BY <1>13 DEF Join
<1>14. CASE LastUpload
  BY <1>14 DEF LastUpload
<1>15. CASE Pick
  BY <1>15 DEF Pick
<1>16. CASE CloseFlag
  BY <1>16 DEF CloseFlag
<1>17. CASE CloseSocket
  BY <1>17 DEF CloseSocket
<1>18. CASE CloseWait
  BY <1>18 DEF CloseWait, After
<1>19. CASE ServerJoin
  BY <1>19 DEF ServerJoin
<1>20. CASE CloseLog
  BY <1>20 DEF CloseLog
<1>21. CASE CloseLogWait
  BY <1>21 DEF CloseLogWait, After
<1>22. ASSUME NEW c \in Clients, Dial(c) PROVE CloseInv'
  BY <1>22 DEF Dial
<1>23. ASSUME NEW c \in Clients, HangUp(c) PROVE CloseInv'
  BY <1>23 DEF HangUp
<1>24. ASSUME NEW c \in Clients, Write(c) PROVE CloseInv'
  BY <1>24 DEF Write
<1>25. ASSUME NEW c \in Clients, Trigger(c) PROVE CloseInv'
  BY <1>25 DEF Trigger
<1>26. ASSUME NEW c \in Clients, Reply(c) PROVE CloseInv'
  BY <1>26 DEF Reply
<1>27. ASSUME NEW c \in Clients, EndServe(c) PROVE CloseInv'
  BY <1>27 DEF EndServe
<1>28. ASSUME NEW f \in Flusher, Lock(f) PROVE CloseInv'
  BY <1>28 DEF Lock, Drain
<1>29. ASSUME NEW f \in Flusher, Store(f) PROVE CloseInv'
  BY <1>29 DEF Store, PassInv
<1> QED
  BY <1>1, <1>2, <1>3, <1>4, <1>5, <1>6, <1>7, <1>8, <1>9, <1>10, <1>11, <1>12, <1>13, <1>14,
     <1>15, <1>16, <1>17, <1>18, <1>19, <1>20, <1>21, <1>22, <1>23, <1>24, <1>25, <1>26, <1>27,
     <1>28, <1>29
  DEF Next, Goroutines, Close, CoordinatorClose, AcceptLoop, UploadLoop, Monitor, Flush, Handler

\* The log is closed once, and the monitor's last cleanup comes after that.
LEMMA LogStep ==
  ASSUME DiskInv, ListenerInv', Next
  PROVE  LogInv'
<1> USE Flushers DEF DiskInv, ListenerInv, closing, listener, clients, flush, log, TypeOK, CloseInv, LogInv
<1>1. CASE Start
  BY <1>1 DEF Start
<1>2. CASE Signal
  BY <1>2 DEF Signal
<1>3. CASE AcceptFails
  BY <1>3 DEF AcceptFails, Uses
<1>4. CASE Accept
  BY <1>4 DEF Accept
<1>5. CASE AcceptClosed
  BY <1>5 DEF AcceptClosed
<1>6. CASE DrainErrors
  BY <1>6 DEF DrainErrors
<1>7. CASE Tick
  BY <1>7 DEF Tick, Uses
<1>8. CASE TickerStops
  BY <1>8 DEF TickerStops
<1>9. CASE Replayed
  BY <1>9 DEF Replayed
<1>10. CASE Cleanup
  BY <1>10 DEF Cleanup, Uses, Drain
<1>11. CASE LastCleanup
  BY <1>11 DEF LastCleanup, Drain
<1>12. CASE MonitorReturns
  BY <1>12 DEF MonitorReturns
<1>13. CASE Join
  BY <1>13 DEF Join
<1>14. CASE LastUpload
  BY <1>14 DEF LastUpload
<1>15. CASE Pick
  BY <1>15 DEF Pick
<1>16. CASE CloseFlag
  BY <1>16 DEF CloseFlag
<1>17. CASE CloseSocket
  BY <1>17 DEF CloseSocket
<1>18. CASE CloseWait
  BY <1>18 DEF CloseWait, After
<1>19. CASE ServerJoin
  BY <1>19 DEF ServerJoin
<1>20. CASE CloseLog
  BY <1>20 DEF CloseLog
<1>21. CASE CloseLogWait
  BY <1>21 DEF CloseLogWait, After
<1>22. ASSUME NEW c \in Clients, Dial(c) PROVE LogInv'
  BY <1>22 DEF Dial
<1>23. ASSUME NEW c \in Clients, HangUp(c) PROVE LogInv'
  BY <1>23 DEF HangUp
<1>24. ASSUME NEW c \in Clients, Write(c) PROVE LogInv'
  <2>1. /\ ring' = ring \cup {c} /\ UNCHANGED <<main, left, first, logClosed, mon>>
        /\ early' = IF logClosed THEN early ELSE early \cup {c}
        /\ hand[c] = "serving" /\ call[c] = "write"
    BY <1>24 DEF Write
  <2>2. c \notin early
    BY <2>1 DEF NoneLost
  <2>3. ~ListenerReturned
    BY <2>1 DEF JoinInv, HandlersJoined
  <2>4. ASSUME mon \in {"last", "done"} PROVE first # "listener"
    <3>1. SUFFICES ASSUME first = "listener" PROVE FALSE
      OBVIOUS
    <3>2. logClosed /\ "log" \notin left /\ "listener" \notin left /\ role = "coordinator"
      BY <2>4, <3>1 DEF Role
    <3>3. main \in {"pick", "close_log", "close_log_wait", "closed"}
      BY <3>1, <3>2
    <3> QED BY <2>3, <3>2, <3>3 DEF ListenerReturned
  <2> QED BY <2>1, <2>2, <2>4
<1>25. ASSUME NEW c \in Clients, Trigger(c) PROVE LogInv'
  BY <1>25 DEF Trigger
<1>26. ASSUME NEW c \in Clients, Reply(c) PROVE LogInv'
  BY <1>26 DEF Reply
<1>27. ASSUME NEW c \in Clients, EndServe(c) PROVE LogInv'
  BY <1>27 DEF EndServe
<1>28. ASSUME NEW f \in Flusher, Lock(f) PROVE LogInv'
  BY <1>28 DEF Lock, Drain
<1>29. ASSUME NEW f \in Flusher, Store(f) PROVE LogInv'
  BY <1>29 DEF Store
<1> QED
  BY <1>1, <1>2, <1>3, <1>4, <1>5, <1>6, <1>7, <1>8, <1>9, <1>10, <1>11, <1>12, <1>13, <1>14,
     <1>15, <1>16, <1>17, <1>18, <1>19, <1>20, <1>21, <1>22, <1>23, <1>24, <1>25, <1>26, <1>27,
     <1>28, <1>29
  DEF Next, Goroutines, Close, CoordinatorClose, AcceptLoop, UploadLoop, Monitor, Flush, Handler

LEMMA DiskStep == DiskInv /\ [Next]_vars => DiskInv'
<1> SUFFICES ASSUME DiskInv, [Next]_vars PROVE DiskInv'
  OBVIOUS
<1>0. ListenerInv'
  BY ListenerStep DEF DiskInv
<1>1. CASE UNCHANGED vars
  BY <1>0, <1>1 DEF vars, closing, listener, clients, flush, log, DiskInv, PassInv, NoneLost,
                    CloseInv, LogInv
<1>2. CASE Next
  BY <1>0, <1>2, PassStep, LostStep, CloseStep, LogStep DEF DiskInv
<1> QED BY <1>1, <1>2

\* At the exit every write that was answered with success is in a file, however
\* the handlers, the ticker, the monitor and the last upload have interleaved;
\* the one exception is a write that came in after the log had been closed,
\* because Close took the log before the listener.
THEOREM AckedSurvives == Spec => []AckedOnDisk
<1>1. DiskInv => AckedOnDisk
  <2> SUFFICES ASSUME DiskInv, main = "closed", NEW c \in acked
               PROVE  c \in disk \/ (first = "log" /\ c \notin early)
    BY DEF AckedOnDisk
  <2>1. role = "coordinator"
    BY DEF DiskInv, ListenerInv, TypeOK, Role, CloseInv
  <2>2. left = {} /\ first # "none" /\ lclosed /\ tick = "done"
    BY <2>1 DEF DiskInv, CloseInv
  <2>3. \A e \in Clients : hand[e] # "serving"
    BY <2>2 DEF DiskInv, ListenerInv, JoinInv, HandlersJoined, ListenerReturned
  <2>4. mon = "done"
    BY <2>2 DEF DiskInv, LogInv
  <2>5. \A f \in Flusher : step[f] = "idle"
    BY <2>2, <2>3, <2>4 DEF DiskInv, PassInv, Flusher
  <2>6. c \in ring \/ c \in disk
    BY <2>5 DEF DiskInv, NoneLost
  <2>7. c \in ring => c \notin early /\ first # "listener"
    BY <2>4 DEF DiskInv, LogInv
  <2> QED BY <2>2, <2>6, <2>7 DEF DiskInv, ListenerInv, TypeOK
<1> QED BY <1>1, DiskInit, DiskStep, PTL DEF Spec
================================================================================
