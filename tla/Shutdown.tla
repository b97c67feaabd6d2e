-------------------------------- MODULE Shutdown --------------------------------
(***************************************************************************)
(* The life of one server process: mrp/rpc_listener.go (Listen, the accept *)
(* loop, one goroutine per connection, Close), Start and Close of the      *)
(* coordinator (mrp/coordinator.go), the master and the worker, and the    *)
(* DurableBuffer's monitor and Close, as main.go calls them: Start, wait   *)
(* for a signal, Close, exit.  What is only in memory at the exit is lost. *)
(* A client dials, makes one call and hangs up when it likes.  A write     *)
(* puts the client's chunk in the ring; a trigger runs an upload pass.     *)
(* Here a flush always succeeds and the ring never overflows: see          *)
(* DurableBuffer for both, and for what an upload pass does in the DFS.    *)
(***************************************************************************)
EXTENDS Integers, FiniteSets

CONSTANTS Clients,
          ErrCap,       \* capacity of errChan: 16 in the code
          MaxErrs,      \* bound: failures of Accept
          MaxTicks      \* bound: ticks of each ticker

ASSUME ShutdownAssumption == ErrCap \in Nat /\ MaxErrs \in Nat /\ MaxTicks \in Nat
ASSUME ClientsAssumption == /\ IsFiniteSet(Clients)
                            /\ Clients \cap {"monitor", "ticker", "closer"} = {}

Role == {"coordinator", "server"}              \* "server": a master or a worker
Flusher == {"monitor", "ticker", "closer"} \cup Clients
Uploader == Flusher \ {"monitor"}

VARIABLES
  role,       \* what this process is
  main,       \* where main() and the Close it calls are
  left,       \* the parts that Coordinator.Close has still to close
  first,      \* history: the part it closed first
  sock,       \* the listening socket
  lclosed,    \* RPCListener.closed
  loop,       \* the accept loop
  wg,         \* RPCListener.waitGroup
  errs,       \* number of errors in errChan
  conn,       \* the connection of each client
  hung,       \* clients that have hung up
  hand,       \* the goroutine that serves it
  call,       \* its call: the request, then how far it is
  tick,       \* the upload goroutine that Start spawned
  drain,      \* the goroutine that reads errChan
  step,       \* how far each flusher is in its flush or upload pass
  batch,      \* the chunks it has drained
  mon,        \* the monitor of the DurableBuffer
  logClosed,  \* DurableBuffer.closed, set as manualShutdown is closed
  ring, disk, \* chunks in the ring buffer, chunks in .dlog files
  acked,      \* chunks whose write was answered with success
  early,      \* history: chunks that were in the log before it was closed
  count       \* how much of each bound is used

closing == <<main, left, first>>
listener == <<sock, lclosed, loop, wg, errs>>
clients == <<conn, hung, hand, call>>
flush == <<step, batch, ring, disk>>
log == <<mon, logClosed, acked, early>>
vars == <<role, closing, listener, clients, tick, drain, flush, log, count>>

Uses(bound, limit) == /\ count[bound] < limit
                      /\ count' = [count EXCEPT ![bound] = @ + 1]

Init == /\ role \in Role
        /\ main = "start" /\ left = {} /\ first = "none"
        /\ sock = "none" /\ lclosed = FALSE /\ loop = "none"
        /\ wg = 0 /\ errs = 0
        /\ conn = [c \in Clients |-> "none"]
        /\ hung = {}
        /\ hand = [c \in Clients |-> "none"]
        /\ call = [c \in Clients |-> "none"]
        /\ tick = "none" /\ drain = "none"
        /\ step = [f \in Flusher |-> "idle"] /\ batch = [f \in Flusher |-> {}]
        /\ mon = IF role = "coordinator" THEN "replay" ELSE "none"
        /\ logClosed = FALSE /\ ring = {} /\ disk = {} /\ acked = {} /\ early = {}
        /\ count = [b \in {"errs", "ticks", "cleanups"} |-> 0]

(* ---------------------------- Start and the signal -------------------------- *)

\* Start: Listen, which spawns the accept loop, then the other goroutines.  If
\* the address cannot be bound, main exits at once.
Start ==
    /\ main = "start"
    /\ \/ /\ main' = "running" /\ sock' = "open" /\ loop' = "accept" /\ wg' = 1
          /\ drain' = "running"
          /\ tick' = IF role = "coordinator" THEN "select" ELSE "none"
       \/ /\ main' = "failed"
          /\ UNCHANGED <<sock, loop, wg, drain, tick>>
    /\ UNCHANGED <<role, left, first, lclosed, errs, clients, flush, log, count>>

\* The signal arrives, main calls Close, and Close closes stopCh.
Signal ==
    /\ main = "running"
    /\ main' = IF role = "coordinator" THEN "join" ELSE "close_flag"
    /\ UNCHANGED <<role, left, first, listener, clients, tick, drain, flush, log, count>>

Stopping == main \notin {"start", "failed", "running"}

(* ------------------------------- The accept loop ---------------------------- *)

\* Mutation of Accept: nothing is added to the waitGroup.
AcceptUncounted ==
    /\ loop = "accept" /\ sock = "open"
    /\ \E c \in Clients : /\ conn[c] = "queued"
                          /\ conn' = [conn EXCEPT ![c] = "open"]
                          /\ hand' = [hand EXCEPT ![c] = "serving"]
    /\ UNCHANGED <<role, closing, listener, hung, call, tick, drain, flush, log, count>>

\* Listener.Accept returns a connection: waitGroup.Add(1), then its goroutine.
Accept ==
    /\ loop = "accept" /\ sock = "open"
    /\ \E c \in Clients : /\ conn[c] = "queued"
                          /\ conn' = [conn EXCEPT ![c] = "open"]
                          /\ hand' = [hand EXCEPT ![c] = "serving"]
    /\ wg' = wg + 1
    /\ UNCHANGED <<role, closing, sock, lclosed, loop, errs, hung, call, tick, drain, flush,
                   log, count>>

\* Mutation of AcceptFails: reportErr waits for room in errChan.
AcceptFailsBlocks ==
    /\ loop = "accept" /\ sock = "open" /\ Uses("errs", MaxErrs)
    /\ \/ lclosed /\ loop' = "done" /\ wg' = wg - 1 /\ sock' = "closed" /\ UNCHANGED errs
       \/ ~lclosed /\ errs < ErrCap /\ errs' = errs + 1 /\ UNCHANGED <<loop, wg, sock>>
       \/ ~lclosed /\ errs = ErrCap /\ loop' = "none" /\ UNCHANGED <<errs, wg, sock>>
    /\ UNCHANGED <<role, closing, lclosed, clients, tick, drain, flush, log>>

\* Mutation of AcceptFails: errChan has no bound.
AcceptFailsPiles ==
    /\ loop = "accept" /\ sock = "open" /\ Uses("errs", MaxErrs)
    /\ errs' = errs + 1
    /\ UNCHANGED <<role, closing, sock, lclosed, loop, wg, clients, tick, drain, flush, log>>

\* Accept fails for another reason than a closed socket.  The loop goes on;
\* reportErr drops the error if errChan is full.
AcceptFails ==
    /\ loop = "accept" /\ sock = "open" /\ Uses("errs", MaxErrs)
    /\ \/ lclosed /\ loop' = "done" /\ wg' = wg - 1 /\ sock' = "closed" /\ UNCHANGED errs
       \/ /\ ~lclosed /\ errs' = IF errs < ErrCap THEN errs + 1 ELSE errs
          /\ UNCHANGED <<loop, wg, sock>>
    /\ UNCHANGED <<role, closing, lclosed, clients, tick, drain, flush, log>>

\* Accept returns net.ErrClosed: the loop ends.
AcceptClosed ==
    /\ loop = "accept" /\ sock = "closed"
    /\ loop' = "done" /\ wg' = wg - 1
    /\ UNCHANGED <<role, closing, sock, lclosed, errs, clients, tick, drain, flush,
                   log, count>>

\* The goroutine that reads errChan: an error is logged, or stopCh is closed.
DrainErrors ==
    /\ drain = "running"
    /\ \/ errs > 0 /\ errs' = errs - 1 /\ UNCHANGED drain
       \/ Stopping /\ drain' = "done" /\ UNCHANGED errs
    /\ UNCHANGED <<role, closing, sock, lclosed, loop, wg, clients, tick, flush, log,
                   count>>

(* --------------------------- Clients and handlers --------------------------- *)

\* A client dials for one call, and sends the request.
Dial(c) ==
    /\ conn[c] = "none" /\ sock = "open"
    /\ conn' = [conn EXCEPT ![c] = "queued"]
    /\ \E op \in IF role = "coordinator" THEN {"write", "trigger"} ELSE {"plain"} :
          call' = [call EXCEPT ![c] = op]
    /\ UNCHANGED <<role, closing, listener, hung, hand, tick, drain, flush, log, count>>

HangUp(c) ==
    /\ conn[c] \in {"queued", "open"} /\ c \notin hung
    /\ hung' = hung \cup {c}
    /\ UNCHANGED <<role, closing, listener, conn, hand, call, tick, drain, flush, log, count>>

\* RPCForwardDownload.  Write does not look at DurableBuffer.closed.  A client
\* that has hung up does not see the reply.
Write(c) ==
    /\ hand[c] = "serving" /\ call[c] = "write"
    /\ ring' = ring \cup {c}
    /\ early' = IF logClosed THEN early ELSE early \cup {c}
    /\ acked' = IF c \in hung THEN acked ELSE acked \cup {c}
    /\ call' = [call EXCEPT ![c] = "answered"]
    /\ UNCHANGED <<role, closing, listener, conn, hung, hand, tick, drain, step, batch, disk,
                   mon, logClosed, count>>

\* RPCTriggerProcessing starts an upload pass.
Trigger(c) ==
    /\ hand[c] = "serving" /\ call[c] = "trigger"
    /\ step' = [step EXCEPT ![c] = "lock"]
    /\ call' = [call EXCEPT ![c] = "passing"]
    /\ UNCHANGED <<role, closing, listener, conn, hung, hand, tick, drain, batch, ring, disk,
                   log, count>>

\* Its reply, and the one of a handler that is not modelled here.
Reply(c) ==
    /\ hand[c] = "serving"
    /\ \/ call[c] = "plain"
       \/ call[c] = "passing" /\ step[c] = "idle"
    /\ call' = [call EXCEPT ![c] = "answered"]
    /\ UNCHANGED <<role, closing, listener, conn, hung, hand, tick, drain, flush, log, count>>

\* ServeConn returns once the client has hung up and its call has been answered;
\* a call that was not read is lost.
EndServe(c) ==
    /\ hand[c] = "serving" /\ c \in hung /\ call[c] # "passing"
    /\ hand' = [hand EXCEPT ![c] = "ended"]
    /\ conn' = [conn EXCEPT ![c] = "closed"]
    /\ wg' = wg - 1
    /\ UNCHANGED <<role, closing, sock, lclosed, loop, errs, hung, call, tick, drain,
                   flush, log, count>>

(* ------------------------- Flushes and upload passes ------------------------ *)

\* syncLogToFile drains the ring ...
Drain(f) ==
    /\ batch' = [batch EXCEPT ![f] = ring]
    /\ ring' = {}
    /\ step' = [step EXCEPT ![f] = "store"]

\* uploadFileToStorage takes uploadMu and flushes the log.
Lock(f) ==
    /\ step[f] = "lock"
    /\ \A g \in Uploader : step[g] # "store"
    /\ Drain(f)
    /\ UNCHANGED <<role, closing, listener, clients, tick, drain, disk, log, count>>

\* ... and appends what it has drained to the files, with Sync.  An upload pass
\* then goes to the DFS, and ends in one way or the other; the ticker's pass ends
\* with the dispatch of the uploaded handles (JobDispatch).
Store(f) ==
    /\ step[f] = "store"
    /\ disk' = disk \cup batch[f]
    /\ batch' = [batch EXCEPT ![f] = {}]
    /\ step' = [step EXCEPT ![f] = "idle"]
    /\ tick' = IF f = "ticker" THEN "select" ELSE tick
    /\ UNCHANGED <<role, closing, listener, clients, drain, ring, log, count>>

Flush(f) == Lock(f) \/ Store(f)

(* --------------------- The ticker goroutine and the monitor ------------------ *)

\* A pass of the upload goroutine; select may choose it though stopCh is closed.
Tick ==
    /\ tick = "select" /\ Uses("ticks", MaxTicks)
    /\ tick' = "pass" /\ step' = [step EXCEPT !["ticker"] = "lock"]
    /\ UNCHANGED <<role, closing, listener, clients, drain, batch, ring, disk, log>>

\* stopCh is closed.
TickerStops ==
    /\ tick = "select" /\ Stopping
    /\ tick' = "done"
    /\ UNCHANGED <<role, closing, listener, clients, drain, flush, log, count>>

\* The monitor's replay ends.
Replayed ==
    /\ mon = "replay"
    /\ mon' = "select"
    /\ UNCHANGED <<role, closing, listener, clients, tick, drain, flush, logClosed, acked,
                   early, count>>

Cleanup ==
    /\ mon = "select" /\ step["monitor"] = "idle" /\ Uses("cleanups", MaxTicks)
    /\ Drain("monitor")
    /\ UNCHANGED <<role, closing, listener, clients, tick, drain, disk, log>>

\* manualShutdown is closed: one more cleanup.
LastCleanup ==
    /\ mon = "select" /\ step["monitor"] = "idle" /\ logClosed
    /\ mon' = "last" /\ Drain("monitor")
    /\ UNCHANGED <<role, closing, listener, clients, tick, drain, disk, logClosed, acked,
                   early, count>>

MonitorReturns ==
    /\ mon = "last" /\ step["monitor"] = "idle"
    /\ mon' = "done"
    /\ UNCHANGED <<role, closing, listener, clients, tick, drain, flush, logClosed, acked,
                   early, count>>

(* ------------------------------------ Close --------------------------------- *)

\* Coordinator.Close: wg.Wait, then the last upload pass.
Join ==
    /\ main = "join" /\ tick = "done" /\ drain = "done"
    /\ main' = "upload" /\ step' = [step EXCEPT !["closer"] = "lock"]
    /\ UNCHANGED <<role, left, first, listener, clients, tick, drain, batch, ring, disk, log,
                   count>>

\* The pass has ended: the listener and the log are to be closed.
LastUpload ==
    /\ main = "upload" /\ step["closer"] = "idle"
    /\ main' = "pick" /\ left' = {"listener", "log"}
    /\ UNCHANGED <<role, first, listener, clients, tick, drain, flush, log, count>>

\* Close ranges over a map: the order is any.
Pick ==
    /\ main = "pick"
    /\ \E part \in left :
          /\ left' = left \ {part}
          /\ first' = IF first = "none" THEN part ELSE first
          /\ main' = IF part = "listener" THEN "close_flag" ELSE "close_log"
    /\ UNCHANGED <<role, listener, clients, tick, drain, flush, log, count>>

\* Where Close goes on when a part is closed.
After == IF left # {} THEN "pick" ELSE "closed"

\* RPCListener.Close: the flag,
CloseFlag ==
    /\ main = "close_flag"
    /\ lclosed' = TRUE /\ main' = "close_socket"
    /\ UNCHANGED <<role, left, first, sock, loop, wg, errs, clients, tick, drain,
                   flush, log, count>>

\* the socket, which resets the connections that were not accepted,
CloseSocket ==
    /\ main = "close_socket"
    /\ sock' = "closed" /\ main' = "close_wait"
    /\ conn' = [c \in Clients |-> IF conn[c] = "queued" THEN "closed" ELSE conn[c]]
    /\ UNCHANGED <<role, left, first, lclosed, loop, wg, errs, hung, hand, call,
                   tick, drain, flush, log, count>>

\* and waitGroup.Wait.
CloseWait ==
    /\ main = "close_wait" /\ wg = 0
    /\ main' = IF role = "coordinator" THEN After ELSE "server_join"
    /\ UNCHANGED <<role, left, first, listener, clients, tick, drain, flush, log, count>>

\* Master.Close and Worker.Close: wg.Wait comes last.
ServerJoin ==
    /\ main = "server_join" /\ drain = "done"
    /\ main' = "closed"
    /\ UNCHANGED <<role, left, first, listener, clients, tick, drain, flush, log, count>>

\* DurableBuffer.Close: manualShutdown,
CloseLog ==
    /\ main = "close_log"
    /\ logClosed' = TRUE /\ main' = "close_log_wait"
    /\ UNCHANGED <<role, left, first, listener, clients, tick, drain, flush, mon, acked,
                   early, count>>

\* Mutation of CloseLogWait: Close does not wait for the monitor.
CloseLogNoWait ==
    /\ main = "close_log_wait"
    /\ main' = After
    /\ UNCHANGED <<role, left, first, listener, clients, tick, drain, flush, log, count>>

\* and the monitor's return.
CloseLogWait ==
    /\ main = "close_log_wait" /\ mon = "done"
    /\ main' = After
    /\ UNCHANGED <<role, left, first, listener, clients, tick, drain, flush, log, count>>

(* ------------------------------------------------------------------------ *)

AcceptLoop == Accept \/ AcceptClosed
Handler(c) == Write(c) \/ Trigger(c) \/ Reply(c) \/ EndServe(c)
UploadLoop == Tick \/ TickerStops
Monitor == Replayed \/ Cleanup \/ LastCleanup \/ MonitorReturns
CoordinatorClose == Join \/ LastUpload \/ Pick \/ CloseLog \/ CloseLogWait
Close == CoordinatorClose \/ CloseFlag \/ CloseSocket \/ CloseWait \/ ServerJoin

Goroutines == \/ Close \/ AcceptLoop \/ DrainErrors \/ UploadLoop \/ Monitor
              \/ \E f \in Flusher : Flush(f)
              \/ \E c \in Clients : Handler(c)

\* The process exits as Close returns: nothing takes a step after that.
Alive == main \notin {"closed", "failed"}
Next == /\ Alive
        /\ \/ Start \/ Signal \/ AcceptFails \/ Goroutines
           \/ \E c \in Clients : Dial(c) \/ HangUp(c)

Spec == Init /\ [][Next]_vars

\* Some goroutine goes on when one can: ticks are far apart (here bounded), so
\* none keeps the others from running.  A client hangs up in the end: the ones
\* in the repository dial for a call, or for the calls of one file, and close.
\* Nothing is said of the signal, of dials and of failures.
FairSpec == /\ Spec
            /\ WF_vars(Alive /\ Goroutines)
            /\ \A c \in Clients : WF_vars(Alive /\ HangUp(c))

(* ------------------------------ Properties ------------------------------ *)

\* Type invariant.
TypeOK ==
    /\ role \in Role
    /\ main \in {"start", "failed", "running", "join", "upload", "pick", "close_flag",
                 "close_socket", "close_wait", "server_join", "close_log",
                 "close_log_wait", "closed"}
    /\ left \subseteq {"listener", "log"} /\ first \in {"none", "listener", "log"}
    /\ sock \in {"none", "open", "closed"} /\ lclosed \in BOOLEAN
    /\ loop \in {"none", "accept", "done"}
    /\ wg \in 0 .. Cardinality(Clients) + 1 /\ errs \in 0 .. ErrCap
    /\ conn \in [Clients -> {"none", "queued", "open", "closed"}] /\ hung \subseteq Clients
    /\ hand \in [Clients -> {"none", "serving", "ended"}]
    /\ call \in [Clients -> {"none", "write", "trigger", "plain", "passing", "answered"}]
    /\ tick \in {"none", "select", "pass", "done"} /\ drain \in {"none", "running", "done"}
    /\ step \in [Flusher -> {"idle", "lock", "store"}]
    /\ batch \in [Flusher -> SUBSET Clients]
    /\ mon \in {"none", "replay", "select", "last", "done"} /\ logClosed \in BOOLEAN
    /\ ring \subseteq Clients /\ disk \subseteq Clients
    /\ acked \subseteq Clients /\ early \subseteq Clients

\* RPCListener.Close has returned.
ListenerReturned == lclosed /\ main \notin {"close_socket", "close_wait"}

\* When RPCListener.Close has returned, the accept loop has ended and no
\* connection is being served: nothing but the log's monitor still runs.
HandlersJoined ==
    ListenerReturned => loop = "done" /\ \A c \in Clients : hand[c] # "serving"

\* At the exit every chunk whose write was answered with success is in a file,
\* though handlers, the ticker, the monitor and the last upload all flush.  The
\* exception: the log was closed before the listener, and the chunk came after.
AckedOnDisk ==
    main = "closed" => \A c \in acked : c \in disk \/ (first = "log" /\ c \notin early)

\* Close returns, whatever the ticker, the monitor and the handlers are doing
\* when the signal comes and however many errors the accept loop has reported.
CloseReturns == Stopping ~> main = "closed"
===============================================================================
