------------------------------- MODULE UdpMux -------------------------------
(***************************************************************************)
(* The goroutines of udptoy and how they start, serve and stop connection  *)
(* workers:                                                                *)
(*   - the reader, ListenMux.Run, which finds or creates the worker of the *)
(*     peer a datagram came from and dispatches the datagram to it;        *)
(*   - the collector, GCLoop/gcOnce, which shuts idle workers down;        *)
(*   - the signal handler, which runs ListenMux.Shutdown and ends main;    *)
(*   - three goroutines per worker: the pump from client to destination,   *)
(*     the response reader (DestToClientLoop) and the pump of responses.   *)
(* What a pump does with a datagram is the subject of UdpPump; here it     *)
(* only counts it.                                                         *)
(***************************************************************************)
EXTENDS Naturals, FiniteSets

CONSTANTS
  Peers,         \* addresses datagrams come from
  MaxWorkers,    \* bound on the workers created
  MaxPackets,    \* bound on the datagrams read from the listen socket
  MaxResponses,  \* bound on the datagrams read back from the destination
  MaxGC,         \* bound on the passes of the collector
  ChanCap        \* IncomingChanCap

ASSUME MuxAssumption ==
  /\ MaxWorkers \in Nat /\ MaxPackets \in Nat /\ MaxResponses \in Nat
  /\ MaxGC \in Nat /\ ChanCap \in Nat \ {0}

\* Workers are numbered as they are created; 0 stands for no worker.
Workers == 1..MaxWorkers
NoWorker == 0
NoPeer == "none"

\* The two goroutines that shut workers down.
Stoppers == {"gc", "handler"}

VARIABLES
  \* ListenMux
  workers,     \* the map from peers to workers
  lock,        \* the holder of mapLock between steps, "free" if none
  muxDone,     \* m.doneChan and the listen socket are closed
  totals,      \* the byte totals of the mux, per direction
  \* the reader
  reader,      \* where Run is
  at,          \* the worker the reader has in hand
  from,        \* the peer of the datagram in hand
  packets,     \* datagrams read so far
  \* the collector and the signal handler
  pc,          \* where each stopper is
  target,      \* the worker each stopper is shutting down
  taken,       \* the channel value each stopper took from w.incoming
  loaded,      \* the totals each stopper loaded before adding to them
  cleanup,     \* the collector's list of workers to shut down
  gcRuns,      \* passes of the collector so far
  reported,    \* the totals the last LogStats printed
  \* UDPConnWorker, per worker
  created,     \* workers created so far
  incoming,    \* the field w.incoming: "chan" or "nil"
  chanClosed,  \* that channel has been closed
  queue,       \* datagrams in that channel
  wg,          \* the counter of w.wg
  c2d,         \* the pump from the client
  d2c,         \* the response reader
  resp,        \* the pump of responses
  responses,   \* datagrams read back from the destination so far
  counted,     \* bytes (datagrams) counted by the two pumps of each worker
  stale,       \* lastActivity is more than GCDelay ago
  harvested,   \* history: how often the worker's counters went into the totals
  late,        \* history: workers a Wait let pass before their pump had joined
  overlapped,  \* history: a stopper stored totals while the other had loaded them
  panic        \* what brought the process down

muxVars == <<workers, lock, muxDone, totals>>
readerVars == <<reader, at, from, packets>>
stopVars == <<pc, target, taken, loaded, cleanup, gcRuns, reported>>
chanVars == <<incoming, chanClosed, queue>>
goVars == <<wg, c2d, d2c, resp, responses, counted, stale>>
historyVars == <<harvested, late, overlapped>>
workerVars == <<created, chanVars, goVars, historyVars, panic>>
outside == <<muxVars, readerVars, stopVars, created, historyVars, panic>>
vars == <<muxVars, readerVars, stopVars, workerVars>>

Zero == [client |-> 0, dest |-> 0]
Plus(a, b) == [client |-> a.client + b.client, dest |-> a.dest + b.dest]

InMap(w) == \E p \in Peers : workers[p] = w

Init ==
  /\ workers = [p \in Peers |-> NoWorker] /\ lock = "free" /\ muxDone = FALSE
  /\ totals = Zero
  /\ reader = "read" /\ at = NoWorker /\ from = NoPeer /\ packets = 0
  /\ pc = [s \in Stoppers |-> "idle"]
  /\ target = [s \in Stoppers |-> NoWorker]
  /\ taken = [s \in Stoppers |-> "nil"]
  /\ loaded = [s \in Stoppers |-> Zero]
  /\ cleanup = {} /\ gcRuns = 0 /\ reported = Zero
  /\ created = 0
  /\ incoming = [w \in Workers |-> "nil"]
  /\ chanClosed = [w \in Workers |-> FALSE]
  /\ queue = [w \in Workers |-> 0]
  /\ wg = [w \in Workers |-> 0]
  /\ c2d = [w \in Workers |-> "none"]
  /\ d2c = [w \in Workers |-> "none"]
  /\ resp = [w \in Workers |-> "none"]
  /\ responses = 0
  /\ counted = [w \in Workers |-> Zero]
  /\ stale = [w \in Workers |-> FALSE]
  /\ harvested = [w \in Workers |-> 0]
  /\ late = {} /\ overlapped = FALSE
  /\ panic = "none"

-----------------------------------------------------------------------------
(* ListenMux.Run *)

\* A step of the reader that only moves it.
ReaderMove(l1, l2) ==
  /\ reader = l1 /\ reader' = l2
  /\ UNCHANGED <<muxVars, at, from, packets, stopVars, workerVars>>

\* A datagram arrives from p.
Read(p) ==
  /\ reader = "read" /\ ~muxDone /\ packets < MaxPackets
  /\ packets' = packets + 1
  /\ from' = p
  /\ reader' = "get"
  /\ UNCHANGED <<muxVars, at, stopVars, workerVars>>

\* ReadFromUDP fails, for good once the socket is closed.
ReadError == muxDone /\ ReaderMove("read", "check")

\* GetWorker finds the worker of the peer in the map.
GetExisting ==
  /\ reader = "get" /\ lock = "free" /\ workers[from] # NoWorker
  /\ at' = workers[from]
  /\ reader' = "dispatch"
  /\ UNCHANGED <<muxVars, from, packets, stopVars, workerVars>>

\* GetWorker creates a worker, starts its goroutines and enters it in the map.
GetNew ==
  LET w == created + 1 IN
  /\ reader = "get" /\ lock = "free" /\ workers[from] = NoWorker
  /\ created < MaxWorkers
  /\ created' = w
  /\ incoming' = [incoming EXCEPT ![w] = "chan"]
  /\ c2d' = [c2d EXCEPT ![w] = "spawned"]
  /\ d2c' = [d2c EXCEPT ![w] = "spawned"]
  /\ workers' = [workers EXCEPT ![from] = w]
  /\ at' = w
  /\ reader' = "dispatch"
  /\ UNCHANGED <<lock, muxDone, totals, from, packets, stopVars, chanClosed, queue, wg,
                 resp, responses, counted, stale, historyVars, panic>>

\* GetWorker fails because the destination cannot be dialled.
GetError == ReaderMove("get", "check") /\ lock = "free" /\ workers[from] = NoWorker

\* DispatchIncoming tests w.incoming ...
DispatchTest == ReaderMove("dispatch", IF incoming[at] = "nil" THEN "bug" ELSE "send")

\* ... logs "BUG: attempt to write on nil channel!" if it is nil ...
DispatchNil == ReaderMove("bug", "check")

\* ... and otherwise reads it again for the send.  Nothing orders this with
\* Shutdown, so the value is the one tested or nil if Shutdown has begun.  A
\* send on a nil channel blocks forever, one on a closed channel panics, also
\* when it was waiting for room as the channel was closed.
DispatchReload == ReaderMove("send", "stuck") /\ incoming[at] = "nil"

DispatchSend ==
  /\ reader = "send"
  /\ IF chanClosed[at]
       THEN /\ panic' = "send_on_closed_channel"
            /\ UNCHANGED <<reader, queue>>
       ELSE /\ queue[at] < ChanCap
            /\ queue' = [queue EXCEPT ![at] = @ + 1]
            /\ reader' = "check"
            /\ UNCHANGED panic
  /\ UNCHANGED <<muxVars, at, from, packets, stopVars, created, incoming, chanClosed,
                 goVars, historyVars>>

\* The end of an iteration, and of its local variables: return once the mux is
\* shut down.
CheckDone ==
  /\ reader = "check"
  /\ reader' = IF muxDone THEN "exited" ELSE "read"
  /\ at' = NoWorker /\ from' = NoPeer
  /\ UNCHANGED <<muxVars, packets, stopVars, workerVars>>

Reader ==
  \/ \E p \in Peers : Read(p)
  \/ ReadError \/ GetExisting \/ GetNew \/ GetError
  \/ DispatchTest \/ DispatchNil \/ DispatchReload \/ DispatchSend \/ CheckDone

-----------------------------------------------------------------------------
(* Shutting a worker down: UDPConnWorker.Shutdown and the addition of its    *)
(* counters to the totals, by either stopper s.                              *)

Goto(s, l) == pc' = [pc EXCEPT ![s] = l]

\* gcOnce: take every idle worker out of the map while holding the lock.
Collect(deleted) ==
  /\ pc["gc"] = "idle" /\ lock = "free" /\ gcRuns < MaxGC
  /\ gcRuns' = gcRuns + 1
  /\ cleanup' = {w \in Workers : InMap(w) /\ stale[w]}
  /\ workers' = [p \in Peers |-> IF workers[p] \in deleted THEN NoWorker ELSE workers[p]]
  /\ Goto("gc", "next")
  /\ UNCHANGED <<lock, muxDone, totals, readerVars, target, taken, loaded, reported, workerVars>>

\* Faulty variant: the idle workers stay in the map.
GcCollect_NoDelete == Collect({})
GcCollect == Collect({w \in Workers : stale[w]})

\* ListenMux.Shutdown: take the lock, close doneChan and the listen socket.
BeginShutdown(holder, stopped) ==
  /\ pc["handler"] = "idle" /\ lock = "free"
  /\ lock' = holder /\ muxDone' = stopped
  /\ Goto("handler", "next")
  /\ UNCHANGED <<workers, totals, readerVars, target, taken, loaded, cleanup, gcRuns,
                 reported, workerVars>>

\* Faulty variants: Shutdown without the lock, and one that does not tell Run.
ShutdownMux_NoLock == BeginShutdown("free", TRUE)
ShutdownMux_RunGoesOn == BeginShutdown("handler", FALSE)
ShutdownMux == BeginShutdown("handler", TRUE)

\* The workers a stopper still has to shut down.
Remaining(s) == IF s = "gc" THEN cleanup ELSE {w \in Workers : InMap(w)}

\* The next worker: its Shutdown reads w.incoming and sets it to nil.
TakeChannel(s, w) ==
  /\ pc[s] = "next" /\ w \in Remaining(s)
  /\ target' = [target EXCEPT ![s] = w]
  /\ taken' = [taken EXCEPT ![s] = incoming[w]]
  /\ incoming' = [incoming EXCEPT ![w] = "nil"]
  /\ cleanup' = IF s = "gc" THEN cleanup \ {w} ELSE cleanup
  /\ Goto(s, "close")
  /\ UNCHANGED <<muxVars, readerVars, loaded, gcRuns, reported, created, chanClosed,
                 queue, goVars, historyVars, panic>>

\* close(incomingChan) panics on a nil or a closed channel.
CloseChannel(s) ==
  LET w == target[s] IN
  /\ pc[s] = "close"
  /\ IF taken[s] = "nil" \/ chanClosed[w]
       THEN /\ panic' = "bad_close"
            /\ UNCHANGED <<pc, chanClosed>>
       ELSE /\ chanClosed' = [chanClosed EXCEPT ![w] = TRUE]
            /\ Goto(s, "signal")
            /\ UNCHANGED panic
  /\ UNCHANGED <<muxVars, readerVars, target, taken, loaded, cleanup, gcRuns, reported,
                 created, incoming, queue, goVars, historyVars>>

\* The unbuffered send on shutdownChan meets the response reader at its poll;
\* the stopper then closes shutdownChan, which nobody reads again.
Signal(s) ==
  LET w == target[s] IN
  /\ pc[s] = "signal" /\ d2c[w] = "poll"
  /\ d2c' = [d2c EXCEPT ![w] = "leaving"]
  /\ Goto(s, "wait")
  /\ UNCHANGED <<muxVars, readerVars, target, taken, loaded, cleanup, gcRuns, reported,
                 created, chanVars, wg, c2d, resp, responses, counted, stale, historyVars,
                 panic>>

\* w.wg.Wait()
Wait(s) ==
  /\ pc[s] = "wait" /\ wg[target[s]] = 0
  /\ late' = late \cup {w \in {target[s]} : c2d[w] \in {"spawned", "entered", "entered_nil"}}
  /\ Goto(s, "load")
  /\ UNCHANGED <<muxVars, readerVars, target, taken, loaded, cleanup, gcRuns, reported,
                 created, chanVars, goVars, harvested, overlapped, panic>>

\* m.clientBytesIn += v.clientBytesIn and the like: a load and a store, which
\* the collector makes without the lock.
LoadTotals(s) ==
  /\ pc[s] = "load"
  /\ loaded' = [loaded EXCEPT ![s] = totals]
  /\ Goto(s, "store")
  /\ UNCHANGED <<muxVars, readerVars, target, taken, cleanup, gcRuns, reported,
                 workerVars>>

\* Shutdown also deletes the worker from the map, gcOnce has done so before.
AddTotals(s, sum) ==
  LET w == target[s] IN
  /\ pc[s] = "store"
  /\ totals' = sum
  /\ harvested' = [harvested EXCEPT ![w] = @ + 1]
  /\ overlapped' = (overlapped \/ \E o \in Stoppers \ {s} : pc[o] = "store")
  /\ workers' = IF s = "handler"
                  THEN [p \in Peers |-> IF workers[p] = w THEN NoWorker ELSE workers[p]]
                  ELSE workers
  /\ target' = [target EXCEPT ![s] = NoWorker]
  /\ taken' = [taken EXCEPT ![s] = "nil"] /\ loaded' = [loaded EXCEPT ![s] = Zero]
  /\ Goto(s, "next")
  /\ UNCHANGED <<lock, muxDone, readerVars, cleanup, gcRuns, reported, created, chanVars,
                 goVars, late, panic>>

\* Faulty variants: the counters of the two directions are crossed, and the
\* totals are assigned to instead of added to.
StoreTotals_Crossed(s) ==
  LET n == counted[target[s]] IN
  AddTotals(s, Plus(loaded[s], [client |-> n.dest, dest |-> n.client]))
StoreTotals_Assigned(s) == AddTotals(s, counted[target[s]])
StoreTotals(s) == AddTotals(s, Plus(loaded[s], counted[target[s]]))

\* The collector waits for the next tick; Shutdown unlocks.
StopperDone(s) ==
  /\ pc[s] = "next" /\ Remaining(s) = {}
  /\ IF s = "gc" THEN Goto(s, "idle") /\ UNCHANGED lock
                 ELSE Goto(s, "report") /\ lock' = "free"
  /\ UNCHANGED <<workers, muxDone, totals, readerVars, target, taken, loaded, cleanup,
                 gcRuns, reported, workerVars>>

\* The handler's LogStats, and the close of main's doneChan.
Report ==
  /\ pc["handler"] = "report" /\ lock = "free"
  /\ reported' = totals
  /\ Goto("handler", "done")
  /\ UNCHANGED <<muxVars, readerVars, target, taken, loaded, cleanup, gcRuns, workerVars>>

Stopper(s) ==
  \/ \E w \in Workers : TakeChannel(s, w)
  \/ CloseChannel(s) \/ Signal(s) \/ Wait(s) \/ LoadTotals(s) \/ StoreTotals(s)
  \/ StopperDone(s)

-----------------------------------------------------------------------------
(* The goroutines of a worker.                                               *)

\* ClientToDestLoop starts: it reads w.incoming as an argument ...
C2dEnter(w) ==
  /\ c2d[w] = "spawned"
  /\ c2d' = [c2d EXCEPT ![w] = IF incoming[w] = "nil" THEN "entered_nil" ELSE "entered"]
  /\ UNCHANGED <<outside, chanVars, wg, d2c, resp, responses, counted, stale>>

\* ... and only dgramsToSocket joins the wait group.  On a nil channel it
\* serves its ticker forever.
C2dRuns(w, joined) ==
  /\ c2d[w] \in {"entered", "entered_nil"}
  /\ c2d' = [c2d EXCEPT ![w] = IF @ = "entered" THEN "running" ELSE "deaf"]
  /\ wg' = [wg EXCEPT ![w] = @ + joined]
  /\ UNCHANGED <<outside, chanVars, d2c, resp, responses, counted, stale>>

\* Faulty variant: the pump does not join the wait group.
C2dJoin_NoAdd(w) == C2dRuns(w, 0)
C2dJoin(w) == C2dRuns(w, 1)

\* A datagram is taken and counted; if it is sent the worker is active again.
C2dReceive(w, sent) ==
  /\ c2d[w] = "running" /\ queue[w] > 0
  /\ queue' = [queue EXCEPT ![w] = @ - 1]
  /\ counted' = [counted EXCEPT ![w].client = @ + 1]
  /\ stale' = [stale EXCEPT ![w] = @ /\ ~sent]
  /\ UNCHANGED <<outside, incoming, chanClosed, wg, c2d, d2c, resp, responses>>

\* The channel is closed and drained.
C2dReturns(w, left) ==
  /\ c2d[w] = "running" /\ queue[w] = 0 /\ chanClosed[w]
  /\ c2d' = [c2d EXCEPT ![w] = "done"]
  /\ wg' = [wg EXCEPT ![w] = @ - left]
  /\ UNCHANGED <<outside, chanVars, d2c, resp, responses, counted, stale>>

\* Faulty variant: a return path without wg.Done.
C2dLeave_NoDone(w) == C2dReturns(w, 0)
C2dLeave(w) == C2dReturns(w, 1)

\* DestToClientLoop starts and spawns the pump of responses.
D2cStart(w) ==
  /\ d2c[w] = "spawned"
  /\ d2c' = [d2c EXCEPT ![w] = "read"]
  /\ resp' = [resp EXCEPT ![w] = "spawned"]
  /\ wg' = [wg EXCEPT ![w] = @ + 1]
  /\ UNCHANGED <<outside, chanVars, c2d, responses, counted, stale>>

\* It reads a response, or its one second deadline expires.
D2cResponse(w) ==
  /\ d2c[w] = "read" /\ responses < MaxResponses
  /\ responses' = responses + 1
  /\ d2c' = [d2c EXCEPT ![w] = "handoff"]
  /\ UNCHANGED <<outside, chanVars, wg, c2d, resp, counted, stale>>

D2cDeadline(w) ==
  /\ d2c[w] = "read"
  /\ d2c' = [d2c EXCEPT ![w] = "poll"]
  /\ UNCHANGED <<outside, chanVars, wg, c2d, resp, responses, counted, stale>>

\* Faulty variant: no read deadline.
D2cRead_NoDeadline(w) == D2cResponse(w)
D2cRead(w) == D2cResponse(w) \/ D2cDeadline(w)

\* w.responses is unbuffered: the send meets the running pump of responses.
Handoff(w) ==
  /\ d2c[w] = "handoff" /\ resp[w] = "running"
  /\ d2c' = [d2c EXCEPT ![w] = "poll"]
  /\ counted' = [counted EXCEPT ![w].dest = @ + 1]
  /\ stale' = [stale EXCEPT ![w] = FALSE]
  /\ UNCHANGED <<outside, chanVars, wg, c2d, resp, responses>>

\* The poll of shutdownChan finds nobody sending.
D2cPoll(w) ==
  /\ d2c[w] = "poll"
  /\ ~\E s \in Stoppers : pc[s] = "signal" /\ target[s] = w
  /\ d2c' = [d2c EXCEPT ![w] = "read"]
  /\ UNCHANGED <<outside, chanVars, wg, c2d, resp, responses, counted, stale>>

\* It closes w.responses and leaves the wait group.
D2cLeave(w) ==
  /\ d2c[w] = "leaving"
  /\ d2c' = [d2c EXCEPT ![w] = "done"]
  /\ wg' = [wg EXCEPT ![w] = @ - 1]
  /\ UNCHANGED <<outside, chanVars, c2d, resp, responses, counted, stale>>

RespStart(w) ==
  /\ resp[w] = "spawned"
  /\ resp' = [resp EXCEPT ![w] = "running"]
  /\ wg' = [wg EXCEPT ![w] = @ + 1]
  /\ UNCHANGED <<outside, chanVars, c2d, d2c, responses, counted, stale>>

\* w.responses is closed when DestToClientLoop is done.
RespLeave(w) ==
  /\ resp[w] = "running" /\ d2c[w] = "done"
  /\ resp' = [resp EXCEPT ![w] = "done"]
  /\ wg' = [wg EXCEPT ![w] = @ - 1]
  /\ UNCHANGED <<outside, chanVars, c2d, d2c, responses, counted, stale>>

C2d(w) == C2dEnter(w) \/ C2dJoin(w) \/ C2dLeave(w) \/ \E sent \in BOOLEAN : C2dReceive(w, sent)
D2c(w) == D2cStart(w) \/ D2cRead(w) \/ Handoff(w) \/ D2cPoll(w) \/ D2cLeave(w)
Resp(w) == RespStart(w) \/ RespLeave(w)

\* GCDelay passes without a full write or a response.
Expire(w) ==
  /\ InMap(w) /\ ~stale[w]
  /\ stale' = [stale EXCEPT ![w] = TRUE]
  /\ UNCHANGED <<outside, chanVars, wg, c2d, d2c, resp, responses, counted>>

-----------------------------------------------------------------------------
\* main returns once Run has and the handler has closed doneChan.
Finished == reader = "exited" /\ pc["handler"] = "done"

\* A panic or the return of main ends every goroutine.
Alive == panic = "none" /\ ~Finished

Next ==
  /\ Alive
  /\ \/ Reader
     \/ GcCollect \/ ShutdownMux \/ Report
     \/ \E s \in Stoppers : Stopper(s)
     \/ \E w \in Workers : C2d(w) \/ D2c(w) \/ Resp(w) \/ Expire(w)

\* A goroutine that can run is eventually run; the signal, the ticks of the
\* collector and the passing of GCDelay are not assumed to happen.
Fairness ==
  /\ WF_vars(Alive /\ Reader)
  /\ \A s \in Stoppers : WF_vars(Alive /\ Stopper(s))
  /\ WF_vars(Alive /\ Report)
  /\ \A w \in Workers : /\ WF_vars(Alive /\ C2d(w))
                        /\ WF_vars(Alive /\ D2c(w))
                        /\ WF_vars(Alive /\ Resp(w))

Spec == Init /\ [][Next]_vars /\ Fairness

-----------------------------------------------------------------------------
(* Properties. *)

StopperLabels == {"idle", "next", "close", "signal", "wait", "load", "store", "report", "done"}
Counts == [client : Nat, dest : Nat]

TypeOK ==
  /\ workers \in [Peers -> Workers \cup {NoWorker}]
  /\ lock \in {"free", "handler"} /\ muxDone \in BOOLEAN /\ totals \in Counts
  /\ reader \in {"read", "get", "dispatch", "bug", "send", "stuck", "check", "exited"}
  /\ at \in Workers \cup {NoWorker} /\ from \in Peers \cup {NoPeer} /\ packets \in 0..MaxPackets
  /\ pc \in [Stoppers -> StopperLabels]
  /\ target \in [Stoppers -> Workers \cup {NoWorker}]
  /\ taken \in [Stoppers -> {"chan", "nil"}]
  /\ loaded \in [Stoppers -> Counts]
  /\ cleanup \subseteq Workers /\ gcRuns \in 0..MaxGC /\ reported \in Counts
  /\ created \in 0..MaxWorkers
  /\ incoming \in [Workers -> {"chan", "nil"}] /\ chanClosed \in [Workers -> BOOLEAN]
  /\ queue \in [Workers -> 0..ChanCap]
  /\ wg \in [Workers -> 0..3]
  /\ c2d \in [Workers -> {"none", "spawned", "entered", "entered_nil", "running", "deaf", "done"}]
  /\ d2c \in [Workers -> {"none", "spawned", "read", "handoff", "poll", "leaving", "done"}]
  /\ resp \in [Workers -> {"none", "spawned", "running", "done"}]
  /\ responses \in 0..MaxResponses
  /\ counted \in [Workers -> Counts]
  /\ stale \in [Workers -> BOOLEAN]
  /\ harvested \in [Workers -> Nat] /\ late \subseteq Workers /\ overlapped \in BOOLEAN
  /\ panic \in {"none", "send_on_closed_channel", "bad_close"}

\* No worker is shut down twice, although the collector and the signal handler
\* both shut workers down and the collector does so without the lock: no channel
\* is closed twice or closed when nil, and no counters are added twice.
ShutDownOnce == panic # "bad_close" /\ \A w \in Workers : harvested[w] <= 1

\* A worker in the map that nobody is shutting down is open for business: the
\* reader can only be caught by a shutdown that overlaps its own dispatch.
MapIsLive ==
  \A w \in Workers :
    InMap(w) /\ target["handler"] # w => incoming[w] = "chan" /\ ~chanClosed[w]

\* The wait group counts exactly the goroutines that joined and have not left.
WaitGroupExact ==
  \A w \in Workers :
    wg[w] = Cardinality({g \in 1..3 : <<c2d[w] \in {"running", "deaf"},
                                        d2c[w] \in {"read", "handoff", "poll", "leaving"},
                                        resp[w] = "running">>[g]})

\* wg.Wait returns only when the datagrams dispatched to the worker have been
\* drained and counted, except those of a pump that had not even joined yet.
WaitDrains ==
  [][\A s \in Stoppers : Wait(s) =>
       LET w == target[s] IN
       /\ c2d[w] = "done" => queue[w] = 0
       /\ c2d[w] \in {"done", "spawned", "entered", "entered_nil"}
       /\ d2c[w] = "done" /\ resp[w] \in {"done", "spawned"}]_vars

\* What the workers hold that has not gone into the totals: datagrams waiting in
\* their channels, and datagrams counted but not yet harvested.
ClientHeld == [w \in Workers |-> queue[w] + IF harvested[w] = 0 THEN counted[w].client ELSE 0]
DestHeld == [w \in Workers |-> IF harvested[w] = 0 THEN counted[w].dest ELSE 0]

\* n[w] datagrams of each worker w, on one pile.
Pile(n) == UNION {{w} \X (1..n[w]) : w \in Workers}

\* The totals never count a datagram twice or out of nothing, though the two
\* stoppers add to them at once (gcOnce without the lock) and may overwrite
\* each other's additions.
NoOvercount ==
  /\ totals.client + Cardinality(Pile(ClientHeld)) <= packets
  /\ totals.dest + Cardinality(Pile(DestHeld)) <= responses

\* The counters that have gone into the totals; those of a pump that had not
\* joined when Wait returned could still grow afterwards.
ClientHarvested ==
  [w \in Workers |-> IF harvested[w] # 0 /\ w \notin late THEN counted[w].client ELSE 0]
DestHarvested == [w \in Workers |-> IF harvested[w] # 0 THEN counted[w].dest ELSE 0]

\* The totals miss nothing that was counted, with two exceptions the code has:
\* the two stoppers' additions overlapped and one overwrote the other (gcOnce
\* has no lock for its "+="), or the pump joined only after wg.Wait.
TotalsComplete ==
  ~overlapped => /\ Cardinality(Pile(ClientHarvested)) <= totals.client
                 /\ Cardinality(Pile(DestHarvested)) <= totals.dest

\* After Shutdown has returned at most one worker is left in the map, the one
\* the reader was creating for the datagram in hand.  Nobody will stop it.
AtMostOneOrphan ==
  pc["handler"] \in {"report", "done"} => Cardinality({w \in Workers : InMap(w)}) <= 1

\* "Not a perfect pattern, but this should work": a dispatch neither panics,
\* nor blocks forever, nor finds the nil channel it calls a bug.
DispatchWorks == reader \notin {"bug", "stuck"} /\ panic # "send_on_closed_channel"

\* After the signal the program ends, unless the reader was hurt by a dispatch
\* or a pump started too late and waits on a nil channel, which keeps
\* wg.Wait from returning.
ShutdownEnds ==
  pc["handler"] = "next" ~>
     Finished \/ panic # "none" \/ reader = "stuck" \/ \E w \in Workers : c2d[w] = "deaf"
=============================================================================
