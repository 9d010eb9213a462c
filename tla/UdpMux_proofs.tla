----------------------------- MODULE UdpMux_proofs -----------------------------
(***************************************************************************)
(* What starting, serving and stopping connection workers guarantees, for  *)
(* every number of peers, workers, datagrams and passes of the collector.  *)
(* IInv is the invariant of the life of workers; CountInv, for the totals, *)
(* and PartnerInv, for the meetings on channels, rest on it.               *)
(***************************************************************************)
EXTENDS UdpMux, FiniteSetTheorems, TLAPS

\* The places of a goroutine in the wait group.
C2dIn(w) == c2d[w] \in {"running", "deaf"}
D2cIn(w) == d2c[w] \in {"read", "handoff", "poll", "leaving"}
RespIn(w) == resp[w] = "running"
One(joined) == IF joined THEN 1 ELSE 0

\* The wait group counts who is in it, a worker's goroutines exist as soon as it
\* does, and the pump is done only when its channel is closed and drained.
Go(w) ==
  /\ wg[w] = One(C2dIn(w)) + One(D2cIn(w)) + One(RespIn(w))
  /\ c2d[w] = "none" <=> w > created
  /\ d2c[w] = "none" <=> w > created
  /\ resp[w] = "none" <=> d2c[w] \in {"none", "spawned"}
  /\ c2d[w] = "done" => queue[w] = 0 /\ chanClosed[w]

GoInv == \A w \in Workers : Go(w)

\* The reader holds a peer, and then an existing worker; what hurts it is a
\* channel that somebody has taken away.
ReaderInv ==
  /\ reader = "get" => from \in Peers
  /\ reader \in {"dispatch", "bug", "send", "stuck"} => at \in 1..created
  /\ reader \in {"bug", "stuck"} => incoming[at] = "nil"
  /\ panic = "send_on_closed_channel" => reader = "send" /\ chanClosed[at]

\* Nobody has begun to shut the worker down.
Untouched(w) == incoming[w] = "chan" /\ ~chanClosed[w] /\ harvested[w] = 0

Stopping == {"close", "signal", "wait", "load", "store"}

\* The handler holds the lock while it shuts workers down.
LockInv ==
  /\ lock = "handler" <=> pc["handler"] \in {"next"} \cup Stopping
  /\ pc["gc"] \notin {"report", "done"} /\ (pc["gc"] = "idle" => cleanup = {})
  /\ pc["handler"] # "idle" <=> muxDone
  /\ panic # "bad_close"

\* A stopper with a worker in its hands took that worker's open channel.
TargetInv(s) ==
  /\ target[s] # NoWorker <=> pc[s] \in Stopping
  /\ pc[s] \in Stopping => target[s] \in 1..created /\ harvested[target[s]] = 0
                            /\ incoming[target[s]] = "nil"
  /\ pc[s] = "close" => taken[s] = "chan" /\ ~chanClosed[target[s]]
  /\ pc[s] \in {"wait", "load", "store"} => d2c[target[s]] \in {"leaving", "done"}

\* A worker is in one place at most: in the map, on the collector's list, in the
\* hands of the collector, or past that; the handler has the one in its hands
\* still in the map.
PlaceInv(w) ==
  /\ w > created => ~chanClosed[w] /\ harvested[w] = 0
  /\ harvested[w] <= 1
  /\ w \in cleanup => w <= created /\ ~InMap(w) /\ Untouched(w)
  /\ InMap(w) => w <= created /\ (target["handler"] # w => Untouched(w))
  /\ target["gc"] = w => ~InMap(w)
  /\ target["handler"] = w => InMap(w)

StopInv == LockInv /\ (\A s \in Stoppers : TargetInv(s)) /\ (\A w \in Workers : PlaceInv(w))

\* Once Shutdown has emptied the map the reader puts at most one worker there.
OrphanInv ==
  pc["handler"] \in {"report", "done"} =>
    /\ reader \in {"read", "get"} => \A w \in Workers : ~InMap(w)
    /\ \A v, w \in Workers : InMap(v) /\ InMap(w) => v = w

IInv == TypeOK /\ GoInv /\ ReaderInv /\ StopInv /\ OrphanInv

-----------------------------------------------------------------------------
(* The wait group. *)

\* A goroutine that is in the wait group can leave it, one that is not can join.
LEMMA Room ==
  ASSUME GoInv, NEW w \in Workers
  PROVE  /\ wg[w] \in 0..3
         /\ C2dIn(w) \/ D2cIn(w) \/ RespIn(w) => wg[w] - 1 \in 0..3
         /\ ~C2dIn(w) \/ ~D2cIn(w) \/ ~RespIn(w) => wg[w] + 1 \in 0..3
<1>1. wg[w] = One(C2dIn(w)) + One(D2cIn(w)) + One(RespIn(w))
  BY DEF GoInv, Go
<1>2. One(TRUE) = 1 /\ One(FALSE) = 0
  BY DEF One
<1>3. C2dIn(w) \in BOOLEAN /\ D2cIn(w) \in BOOLEAN /\ RespIn(w) \in BOOLEAN
  BY DEF C2dIn, D2cIn, RespIn
<1> QED
  BY <1>1, <1>2, <1>3 DEF One

\* When the count is zero nobody is in it.
LEMMA NobodyIn ==
  ASSUME GoInv, NEW w \in Workers, wg[w] = 0
  PROVE  ~C2dIn(w) /\ ~D2cIn(w) /\ ~RespIn(w)
BY DEF GoInv, Go, One

\* Workers that exist are workers.
LEMMA Existing ==
  ASSUME TypeOK
  PROVE  1..created \subseteq Workers /\ NoWorker \notin Workers
BY MuxAssumption DEF TypeOK, Workers, NoWorker

-----------------------------------------------------------------------------
(* The goroutines of a worker. *)

WorkerStep(w) == C2d(w) \/ D2c(w) \/ Resp(w) \/ Expire(w)

\* They leave the mux, the reader, the stoppers and the channel's end alone; the
\* response reader does not come back from its last poll.
LEMMA WorkerFrame ==
  ASSUME TypeOK, NEW w \in Workers, WorkerStep(w)
  PROVE  /\ UNCHANGED <<outside, incoming, chanClosed>>
         /\ \A v \in Workers : d2c[v] \in {"leaving", "done"} => d2c'[v] \in {"leaving", "done"}
<1>1. CASE C2d(w)
  BY <1>1 DEF C2d, C2dEnter, C2dJoin, C2dRuns, C2dLeave, C2dReturns, C2dReceive, chanVars
<1>2. CASE D2c(w)
  BY <1>2 DEF D2c, D2cStart, D2cRead, D2cResponse, D2cDeadline, Handoff, D2cPoll, D2cLeave,
              chanVars, TypeOK
<1>3. CASE Resp(w)
  BY <1>3 DEF Resp, RespStart, RespLeave, chanVars
<1>4. CASE Expire(w)
  BY <1>4 DEF Expire, chanVars
<1> QED
  BY <1>1, <1>2, <1>3, <1>4 DEF WorkerStep

\* What a step of a worker may change.
WorkerTyped ==
  /\ queue \in [Workers -> 0..ChanCap] /\ wg \in [Workers -> 0..3]
  /\ c2d \in [Workers -> {"none", "spawned", "entered", "entered_nil", "running", "deaf", "done"}]
  /\ d2c \in [Workers -> {"none", "spawned", "read", "handoff", "poll", "leaving", "done"}]
  /\ resp \in [Workers -> {"none", "spawned", "running", "done"}]
  /\ responses \in 0..MaxResponses
  /\ counted \in [Workers -> Counts]
  /\ stale \in [Workers -> BOOLEAN]

LEMMA CountedOK ==
  ASSUME TypeOK, NEW w \in Workers
  PROVE  /\ [counted EXCEPT ![w].client = @ + 1] \in [Workers -> Counts]
         /\ [counted EXCEPT ![w].dest = @ + 1] \in [Workers -> Counts]
<1>1. counted[w] \in [client : Nat, dest : Nat]
  BY DEF TypeOK, Counts
<1>2. /\ [counted[w] EXCEPT !.client = @ + 1] \in Counts
      /\ [counted[w] EXCEPT !.dest = @ + 1] \in Counts
  BY <1>1 DEF Counts
<1> QED
  BY <1>2 DEF TypeOK

LEMMA WorkerTypes ==
  ASSUME TypeOK, GoInv, NEW w \in Workers, WorkerStep(w)
  PROVE  WorkerTyped'
<1> USE MuxAssumption DEF WorkerTyped
<1>0. /\ WorkerTyped
      /\ C2dIn(w) \/ D2cIn(w) \/ RespIn(w) => wg[w] - 1 \in 0..3
      /\ ~C2dIn(w) \/ ~D2cIn(w) \/ ~RespIn(w) => wg[w] + 1 \in 0..3
  BY Room DEF TypeOK
<1>1. CASE C2dEnter(w)
  BY <1>0, <1>1 DEF C2dEnter, chanVars
<1>2. CASE C2dJoin(w)
  BY <1>0, <1>2 DEF C2dJoin, C2dRuns, C2dIn, chanVars
<1>3. CASE C2dLeave(w)
  BY <1>0, <1>3 DEF C2dLeave, C2dReturns, C2dIn, chanVars
<1>4. ASSUME NEW sent \in BOOLEAN, C2dReceive(w, sent) PROVE WorkerTyped'
  <2>1. queue' \in [Workers -> 0..ChanCap]
    BY <1>0, <1>4 DEF C2dReceive
  <2>2. stale' \in [Workers -> BOOLEAN]
    BY <1>0, <1>4, Zenon DEF C2dReceive
  <2> QED
    BY <1>0, <1>4, <2>1, <2>2, CountedOK DEF C2dReceive
<1>5. CASE D2cStart(w)
  BY <1>0, <1>5 DEF D2cStart, D2cIn, chanVars
<1>6. CASE D2cRead(w)
  BY <1>0, <1>6 DEF D2cRead, D2cResponse, D2cDeadline, chanVars
<1>7. CASE Handoff(w)
  BY <1>0, <1>7, CountedOK DEF Handoff, chanVars
<1>8. CASE D2cPoll(w)
  BY <1>0, <1>8 DEF D2cPoll, chanVars
<1>9. CASE D2cLeave(w)
  BY <1>0, <1>9 DEF D2cLeave, D2cIn, chanVars
<1>10. CASE RespStart(w)
  BY <1>0, <1>10 DEF RespStart, RespIn, chanVars
<1>11. CASE RespLeave(w)
  BY <1>0, <1>11 DEF RespLeave, RespIn, chanVars
<1>12. CASE Expire(w)
  BY <1>0, <1>12 DEF Expire, chanVars
<1> QED
  BY <1>1, <1>2, <1>3, <1>4, <1>5, <1>6, <1>7, <1>8, <1>9, <1>10, <1>11, <1>12
     DEF WorkerStep, C2d, D2c, Resp

LEMMA WorkerGo ==
  ASSUME TypeOK, GoInv, NEW w \in Workers, WorkerStep(w)
  PROVE  GoInv'
<1> USE DEF One, C2dIn, D2cIn, RespIn
<1>0. \A v \in Workers : Go(v)
  BY DEF GoInv
<1>1. UNCHANGED <<created, chanClosed>>
  BY WorkerFrame DEF outside
<1>2. ASSUME NEW v \in Workers \ {w}
      PROVE  UNCHANGED <<wg[v], c2d[v], d2c[v], resp[v], queue[v]>>
  BY <1>2 DEF WorkerStep, C2d, D2c, Resp, C2dEnter, C2dJoin, C2dRuns, C2dLeave, C2dReturns,
     C2dReceive, D2cStart, D2cRead, D2cResponse, D2cDeadline, Handoff, D2cPoll, D2cLeave,
     RespStart, RespLeave, Expire, chanVars, TypeOK
<1>3. \A v \in Workers \ {w} : Go(v)'
  BY <1>0, <1>1, <1>2 DEF Go
<1>4. Go(w)'
  <2>0. Go(w)
    BY <1>0
  <2>1. CASE C2dEnter(w)
    BY <1>1, <2>0, <2>1 DEF C2dEnter, Go, chanVars, TypeOK
  <2>2. CASE C2dJoin(w)
    BY <1>1, <2>0, <2>2 DEF C2dJoin, C2dRuns, Go, chanVars, TypeOK
  <2>3. CASE C2dLeave(w)
    BY <1>1, <2>0, <2>3 DEF C2dLeave, C2dReturns, Go, chanVars, TypeOK
  <2>4. ASSUME NEW sent \in BOOLEAN, C2dReceive(w, sent) PROVE Go(w)'
    BY <1>1, <2>0, <2>4 DEF C2dReceive, Go, TypeOK
  <2>5. CASE D2cStart(w)
    BY <1>1, <2>0, <2>5 DEF D2cStart, Go, chanVars, TypeOK
  <2>6. CASE D2cRead(w)
    BY <1>1, <2>0, <2>6 DEF D2cRead, D2cResponse, D2cDeadline, Go, chanVars, TypeOK
  <2>7. CASE Handoff(w)
    BY <1>1, <2>0, <2>7 DEF Handoff, Go, chanVars, TypeOK
  <2>8. CASE D2cPoll(w)
    BY <1>1, <2>0, <2>8 DEF D2cPoll, Go, chanVars, TypeOK
  <2>9. CASE D2cLeave(w)
    BY <1>1, <2>0, <2>9 DEF D2cLeave, Go, chanVars, TypeOK
  <2>10. CASE RespStart(w)
    BY <1>1, <2>0, <2>10 DEF RespStart, Go, chanVars, TypeOK
  <2>11. CASE RespLeave(w)
    BY <1>1, <2>0, <2>11 DEF RespLeave, Go, chanVars, TypeOK
  <2>12. CASE Expire(w)
    BY <1>1, <2>0, <2>12 DEF Expire, Go, chanVars
  <2> QED
    BY <2>1, <2>2, <2>3, <2>4, <2>5, <2>6, <2>7, <2>8, <2>9, <2>10, <2>11, <2>12
       DEF WorkerStep, C2d, D2c, Resp
<1> QED
  BY <1>3, <1>4 DEF GoInv

\* A step of a worker.
LEMMA WorkerOK ==
  ASSUME IInv, NEW w \in Workers, WorkerStep(w)
  PROVE  IInv'
<1>0. TypeOK /\ GoInv /\ ReaderInv /\ StopInv /\ OrphanInv
  BY DEF IInv
<1>1. /\ UNCHANGED <<outside, incoming, chanClosed>>
      /\ \A v \in Workers : d2c[v] \in {"leaving", "done"} => d2c'[v] \in {"leaving", "done"}
  BY <1>0, WorkerFrame
<1>2. TypeOK'
  BY <1>0, <1>1, WorkerTypes DEF TypeOK, WorkerTyped, outside, historyVars, muxVars, readerVars,
     stopVars
<1>3. ReaderInv'
  BY <1>0, <1>1 DEF ReaderInv, outside, readerVars
<1>4. \A v \in Workers : InMap(v)' <=> InMap(v)
  BY <1>1 DEF InMap, outside, muxVars
<1>5. StopInv'
  <2>1. UNCHANGED <<lock, muxDone, pc, target, taken, cleanup, created, incoming, chanClosed,
                    harvested, panic>>
    BY <1>1 DEF outside, historyVars, muxVars, stopVars
  <2>2. ASSUME NEW s \in Stoppers PROVE TargetInv(s)'
    <3>1. pc[s] \in {"wait", "load", "store"} => target[s] \in Workers
      BY <1>0, Existing DEF StopInv, TargetInv, Stopping
    <3> QED
      BY <1>0, <1>1, <2>1, <3>1 DEF StopInv, TargetInv
  <2>3. ASSUME NEW v \in Workers PROVE PlaceInv(v)'
    BY <1>0, <1>4, <2>1 DEF StopInv, PlaceInv, Untouched
  <2> QED
    BY <1>0, <2>1, <2>2, <2>3 DEF StopInv, LockInv
<1>6. OrphanInv'
  BY <1>0, <1>1, <1>4 DEF OrphanInv, outside, readerVars, stopVars
<1> QED
  BY <1>0, <1>2, <1>3, <1>5, <1>6, WorkerGo DEF IInv

-----------------------------------------------------------------------------
(* The reader. *)

\* All its steps but the creation of a worker.
ReaderMoves ==
  \/ \E p \in Peers : Read(p)
  \/ ReadError \/ GetExisting \/ GetError
  \/ DispatchTest \/ DispatchNil \/ DispatchReload \/ DispatchSend \/ CheckDone

ReaderTyped ==
  /\ reader \in {"read", "get", "dispatch", "bug", "send", "stuck", "check", "exited"}
  /\ at \in Workers \cup {NoWorker} /\ from \in Peers \cup {NoPeer} /\ packets \in 0..MaxPackets
  /\ queue \in [Workers -> 0..ChanCap]
  /\ panic \in {"none", "send_on_closed_channel", "bad_close"}

LEMMA ReaderFrame ==
  ASSUME ReaderMoves
  PROVE  UNCHANGED <<muxVars, stopVars, created, incoming, chanClosed, goVars, harvested,
                   late, overlapped>>
BY DEF ReaderMoves, Read, ReadError, GetExisting, GetError, DispatchTest, DispatchNil,
   DispatchReload, DispatchSend, CheckDone, ReaderMove, workerVars, historyVars, chanVars

LEMMA ReaderTypes ==
  ASSUME TypeOK, ReaderInv, ReaderMoves
  PROVE  ReaderTyped'
<1> USE MuxAssumption DEF ReaderTyped, workerVars, chanVars
<1>0. ReaderTyped
  BY DEF TypeOK
<1>1. ASSUME NEW p \in Peers, Read(p) PROVE ReaderTyped'
  BY <1>0, <1>1 DEF Read
<1>2. CASE ReadError \/ GetError \/ DispatchTest \/ DispatchNil \/ DispatchReload
  BY <1>0, <1>2 DEF ReadError, GetError, DispatchTest, DispatchNil, DispatchReload, ReaderMove
<1>3. CASE GetExisting
  <2>1. workers[from] \in Workers \cup {NoWorker}
    BY <1>3 DEF GetExisting, TypeOK, ReaderInv
  <2> QED
    BY <1>0, <1>3, <2>1 DEF GetExisting
<1>4. CASE DispatchSend
  <2>1. queue' \in [Workers -> 0..ChanCap]
    <3>1. at \in Workers
      BY <1>4, Existing DEF DispatchSend, ReaderInv
    <3> QED
      BY <1>0, <1>4, <3>1 DEF DispatchSend
  <2> QED
    BY <1>0, <1>4, <2>1 DEF DispatchSend
<1>5. CASE CheckDone
  BY <1>0, <1>5 DEF CheckDone
<1> QED
  BY <1>1, <1>2, <1>3, <1>4, <1>5 DEF ReaderMoves

\* What the reader holds.
LEMMA ReaderHolds ==
  ASSUME TypeOK, ReaderInv, StopInv, panic = "none", ReaderMoves
  PROVE  ReaderInv'
<1>0. UNCHANGED <<created, incoming, chanClosed>>
  BY ReaderFrame
<1> USE <1>0 DEF ReaderInv, workerVars
<1>1. ASSUME NEW p \in Peers, Read(p) PROVE ReaderInv'
  BY <1>1 DEF Read
<1>2. CASE ReadError \/ GetError \/ DispatchTest \/ DispatchNil \/ DispatchReload
  BY <1>2 DEF ReadError, GetError, DispatchTest, DispatchNil, DispatchReload, ReaderMove
<1>3. CASE GetExisting
  <2>1. workers[from] \in 1..created
    <3>1. workers[from] \in Workers /\ InMap(workers[from])
      BY <1>3 DEF GetExisting, TypeOK, InMap
    <3>2. workers[from] <= created
      BY <3>1 DEF StopInv, PlaceInv
    <3> QED
      BY <3>1, <3>2, MuxAssumption DEF Workers, TypeOK
  <2> QED
    BY <1>3, <2>1 DEF GetExisting
<1>4. CASE DispatchSend \/ CheckDone
  BY <1>4 DEF DispatchSend, CheckDone
<1> QED
  BY <1>1, <1>2, <1>3, <1>4 DEF ReaderMoves

\* No dispatch goes to a worker whose pump is done, unless its channel is closed.
LEMMA ReaderGo ==
  ASSUME TypeOK, GoInv, ReaderMoves
  PROVE  GoInv'
<1>1. UNCHANGED <<created, chanClosed, wg, c2d, d2c, resp>>
  BY ReaderFrame DEF goVars
<1>2. ASSUME NEW w \in Workers, c2d[w] = "done" PROVE queue'[w] = queue[w]
  <2>1. chanClosed[w]
    BY <1>2 DEF GoInv, Go
  <2>2. CASE DispatchSend
    BY <2>1, <2>2 DEF DispatchSend, TypeOK
  <2>3. CASE ~DispatchSend
    BY <2>3 DEF ReaderMoves, Read, ReadError, GetExisting, GetError, DispatchTest, DispatchNil,
       DispatchReload, CheckDone, ReaderMove, workerVars, chanVars
  <2> QED
    BY <2>2, <2>3
<1> QED
  BY <1>1, <1>2 DEF GoInv, Go, C2dIn, D2cIn, RespIn

LEMMA ReaderOK ==
  ASSUME IInv, panic = "none", ReaderMoves
  PROVE  IInv'
<1>0. TypeOK /\ GoInv /\ ReaderInv /\ StopInv /\ OrphanInv
  BY DEF IInv
<1>1. UNCHANGED <<muxVars, stopVars, created, incoming, chanClosed, goVars, harvested,
                   late, overlapped>>
  BY ReaderFrame
<1>2. TypeOK'
  BY <1>0, <1>1, ReaderTypes DEF TypeOK, ReaderTyped, muxVars, stopVars, goVars
<1>3. \A v \in Workers : InMap(v)' <=> InMap(v)
  BY <1>1 DEF InMap, muxVars
<1>4. panic' # "bad_close"
  BY DEF ReaderMoves, Read, ReadError, GetExisting, GetError, DispatchTest, DispatchNil,
     DispatchReload, DispatchSend, CheckDone, ReaderMove, workerVars
<1>5. StopInv'
  <2>1. UNCHANGED <<lock, muxDone, pc, target, taken, cleanup, created, incoming, chanClosed,
                    harvested, d2c>>
    BY <1>1 DEF muxVars, stopVars, goVars
  <2>2. \A s \in Stoppers : TargetInv(s)'
    BY <1>0, <2>1 DEF StopInv, TargetInv
  <2>3. ASSUME NEW v \in Workers PROVE PlaceInv(v)'
    BY <1>0, <1>3, <2>1 DEF StopInv, PlaceInv, Untouched
  <2> QED
    BY <1>0, <1>4, <2>1, <2>2, <2>3 DEF StopInv, LockInv
<1>6. OrphanInv'
  <2>1. UNCHANGED <<pc, muxDone>>
    BY <1>1 DEF muxVars, stopVars
  <2>2. muxDone /\ reader' \in {"read", "get"} => reader \in {"read", "get"}
    BY DEF ReaderMoves, Read, ReadError, GetExisting, GetError, DispatchTest, DispatchNil,
       DispatchReload, DispatchSend, CheckDone, ReaderMove
  <2>3. pc["handler"] \in {"report", "done"} => muxDone
    BY <1>0 DEF StopInv, LockInv
  <2> QED
    BY <1>0, <1>3, <2>1, <2>2, <2>3 DEF OrphanInv
<1> QED
  BY <1>0, <1>2, <1>5, <1>6, ReaderHolds, ReaderGo DEF IInv

\* The creation of a worker.
LEMMA CreateOK ==
  ASSUME IInv, panic = "none", GetNew
  PROVE  IInv'
<1> DEFINE w == created + 1
<1>0. TypeOK /\ GoInv /\ ReaderInv /\ StopInv /\ OrphanInv
  BY DEF IInv
<1>1. /\ reader = "get" /\ lock = "free" /\ workers[from] = NoWorker /\ created < MaxWorkers
      /\ created' = w /\ reader' = "dispatch" /\ at' = w /\ from' = from /\ packets' = packets
      /\ incoming' = [incoming EXCEPT ![w] = "chan"]
      /\ c2d' = [c2d EXCEPT ![w] = "spawned"] /\ d2c' = [d2c EXCEPT ![w] = "spawned"]
      /\ workers' = [workers EXCEPT ![from] = w]
      /\ UNCHANGED <<lock, muxDone, totals, chanClosed, queue, wg, resp, responses, counted,
                     stale, harvested, late, overlapped, panic>>
      /\ UNCHANGED <<pc, target, taken, loaded, cleanup, gcRuns, reported>>
  BY DEF GetNew, stopVars, historyVars
<1>2. /\ created \in Nat /\ MaxWorkers \in Nat /\ w \in Workers /\ created' \in 0..MaxWorkers
      /\ from \in Peers /\ 1..created \subseteq Workers /\ 1..created' \subseteq Workers
  BY <1>0, <1>1, MuxAssumption DEF TypeOK, Workers, ReaderInv
<1>3. /\ \A v \in Workers : v > created' => v > created
      /\ \A v \in Workers \ {w} : v > created => v > created'
      /\ w > created /\ w <= created' /\ w # NoWorker
      /\ \A v \in Workers : v <= created => v <= created' /\ v # w
  BY <1>1, <1>2, MuxAssumption DEF Workers, NoWorker
<1> HIDE DEF w
<1>4. TypeOK'
  <2>1. workers' \in [Peers -> Workers \cup {NoWorker}]
    BY <1>0, <1>1, <1>2 DEF TypeOK
  <2>2. /\ incoming' \in [Workers -> {"chan", "nil"}]
        /\ c2d' \in [Workers -> {"none", "spawned", "entered", "entered_nil", "running", "deaf",
                                 "done"}]
        /\ d2c' \in [Workers -> {"none", "spawned", "read", "handoff", "poll", "leaving", "done"}]
    BY <1>0, <1>1 DEF TypeOK
  <2> QED
    BY <1>0, <1>1, <1>2, <2>1, <2>2 DEF TypeOK
<1>5. ASSUME NEW v \in Workers PROVE Go(v)'
  <2>1. Go(v)
    BY <1>0 DEF GoInv
  <2>2. CASE v = w
    <3>1. /\ c2d[v] = "none" /\ d2c[v] = "none" /\ resp[v] = "none"
          /\ c2d'[v] = "spawned" /\ d2c'[v] = "spawned" /\ ~(v > created')
      BY <1>0, <1>1, <1>2, <1>3, <2>1, <2>2 DEF Go, TypeOK
    <3> QED
      BY <1>1, <2>1, <3>1 DEF Go, One, C2dIn, D2cIn, RespIn
  <2>3. CASE v # w
    <3>1. c2d'[v] = c2d[v] /\ d2c'[v] = d2c[v] /\ (v > created <=> v > created')
      BY <1>0, <1>1, <1>3, <2>3 DEF TypeOK
    <3> QED
      BY <1>1, <2>1, <3>1 DEF Go, C2dIn, D2cIn, RespIn
  <2> QED
    BY <2>2, <2>3
<1>6. ReaderInv'
  <2>1. w \in 1..created'
    BY <1>1, <1>2, <1>3 DEF Workers
  <2> QED
    BY <1>1, <2>1 DEF ReaderInv
<1>7. \A v \in Workers : InMap(v)' <=> InMap(v) \/ v = w
  BY <1>0, <1>1, <1>2, <1>3, Existing DEF InMap, TypeOK
<1>8. StopInv'
  <2>1. LockInv'
    BY <1>0, <1>1 DEF StopInv, LockInv
  <2>2. pc["handler"] \notin Stopping
    BY <1>0, <1>1 DEF StopInv, LockInv
  <2>3. ASSUME NEW s \in Stoppers PROVE TargetInv(s)'
    <3>1. TargetInv(s)
      BY <1>0 DEF StopInv
    <3>2. CASE pc[s] \in Stopping
      <4>1. target[s] \in Workers /\ target[s] <= created /\ target[s] \in 1..created
        BY <1>2, <3>1, <3>2 DEF TargetInv
      <4>2. target[s] # w /\ target[s] \in 1..created'
        BY <1>2, <1>3, <4>1
      <4>3. incoming'[target[s]] = incoming[target[s]] /\ d2c'[target[s]] = d2c[target[s]]
        BY <1>0, <1>1, <4>1, <4>2 DEF TypeOK
      <4> QED
        BY <1>1, <3>1, <3>2, <4>2, <4>3 DEF TargetInv
    <3>3. CASE pc[s] \notin Stopping
      BY <1>1, <3>1, <3>3 DEF TargetInv, Stopping
    <3> QED
      BY <3>2, <3>3
  <2>4. ASSUME NEW v \in Workers PROVE PlaceInv(v)'
    <3>1. PlaceInv(v) /\ target["handler"] = NoWorker
      BY <1>0, <2>2 DEF StopInv, TargetInv, Stoppers
    <3>2. target["gc"] # w
      <4>1. TargetInv("gc")
        BY <1>0 DEF StopInv, Stoppers
      <4> QED
        BY <1>2, <1>3, <4>1 DEF TargetInv
    <3>3. CASE v = w
      <4>1. ~chanClosed[v] /\ harvested[v] = 0 /\ v \notin cleanup
        BY <1>3, <3>1, <3>3 DEF PlaceInv
      <4>2. incoming'[v] = "chan"
        BY <1>0, <1>1, <3>3 DEF TypeOK
      <4> QED
        BY <1>1, <1>2, <1>3, <1>7, <3>1, <3>2, <3>3, <4>1, <4>2 DEF PlaceInv, Untouched
    <3>4. CASE v # w
      <4>1. incoming'[v] = incoming[v] /\ (InMap(v)' <=> InMap(v))
        BY <1>0, <1>1, <1>7, <3>4 DEF TypeOK
      <4> QED
        BY <1>1, <1>3, <3>1, <4>1 DEF PlaceInv, Untouched
    <3> QED
      BY <3>3, <3>4
  <2> QED
    BY <2>1, <2>3, <2>4 DEF StopInv
<1>9. OrphanInv'
  BY <1>0, <1>1, <1>7 DEF OrphanInv
<1> QED
  BY <1>4, <1>5, <1>6, <1>8, <1>9 DEF IInv, GoInv

-----------------------------------------------------------------------------
(* The collector and the signal handler. *)

StopStep == GcCollect \/ ShutdownMux \/ Report \/ \E s \in Stoppers : Stopper(s)

LEMMA StopFrame ==
  ASSUME StopStep
  PROVE  UNCHANGED <<readerVars, created, queue, wg, c2d, resp, responses, counted, stale>>
BY DEF StopStep, GcCollect, Collect, ShutdownMux, BeginShutdown, Report, Stopper, TakeChannel,
   CloseChannel, Signal, Wait, LoadTotals, StoreTotals, AddTotals, StopperDone, workerVars,
   chanVars, goVars

StopTyped ==
  /\ workers \in [Peers -> Workers \cup {NoWorker}]
  /\ lock \in {"free", "handler"} /\ muxDone \in BOOLEAN /\ totals \in Counts
  /\ pc \in [Stoppers -> StopperLabels]
  /\ target \in [Stoppers -> Workers \cup {NoWorker}]
  /\ taken \in [Stoppers -> {"chan", "nil"}]
  /\ loaded \in [Stoppers -> Counts]
  /\ cleanup \subseteq Workers /\ gcRuns \in 0..MaxGC /\ reported \in Counts
  /\ incoming \in [Workers -> {"chan", "nil"}] /\ chanClosed \in [Workers -> BOOLEAN]
  /\ d2c \in [Workers -> {"none", "spawned", "read", "handoff", "poll", "leaving", "done"}]
  /\ harvested \in [Workers -> Nat] /\ late \subseteq Workers /\ overlapped \in BOOLEAN
  /\ panic \in {"none", "send_on_closed_channel", "bad_close"}

LEMMA PlusOK ==
  ASSUME NEW a \in Counts, NEW b \in Counts
  PROVE  Plus(a, b) \in Counts /\ Zero \in Counts
BY DEF Plus, Counts, Zero

\* A stopper that has a worker in its hands.
LEMMA InHand ==
  ASSUME TypeOK, StopInv, NEW s \in Stoppers, pc[s] \in Stopping
  PROVE  /\ target[s] \in Workers /\ target[s] <= created /\ harvested[target[s]] = 0
         /\ incoming[target[s]] = "nil" /\ target[s] \notin cleanup
         /\ \A r \in Stoppers \ {s} : target[r] # target[s]
         /\ InMap(target[s]) <=> s = "handler"
<1>1. TargetInv(s) /\ target[s] \in Workers /\ target[s] \in 1..created
  BY Existing DEF StopInv, TargetInv
<1>2. PlaceInv(target[s])
  BY <1>1 DEF StopInv
<1>3. target[s] \notin cleanup
  BY <1>1, <1>2 DEF TargetInv, PlaceInv, Untouched
<1>4. target[s] <= created
  BY <1>1 DEF TypeOK
<1> QED
  BY <1>1, <1>2, <1>3, <1>4 DEF TargetInv, PlaceInv, Stoppers

LEMMA StopTypes ==
  ASSUME TypeOK, StopInv, StopStep
  PROVE  StopTyped'
<1> USE DEF StopTyped, workerVars, historyVars, chanVars, goVars, Goto, StopperLabels, Stopping
<1>0. StopTyped
  BY DEF TypeOK
<1>1. CASE GcCollect
  <2>1. /\ gcRuns' = gcRuns + 1 /\ gcRuns < MaxGC /\ pc' = [pc EXCEPT !["gc"] = "next"]
        /\ cleanup' = {w \in Workers : InMap(w) /\ stale[w]}
        /\ \E D : workers' = [p \in Peers |-> IF workers[p] \in D THEN NoWorker ELSE workers[p]]
        /\ UNCHANGED <<lock, muxDone, totals, target, taken, loaded, reported, incoming,
                       chanClosed, d2c, harvested, late, overlapped, panic>>
    BY <1>1 DEF GcCollect, Collect
  <2>2. gcRuns' \in 0..MaxGC
    BY <1>0, <2>1, MuxAssumption
  <2>3. workers' \in [Peers -> Workers \cup {NoWorker}]
    BY <1>0, <2>1
  <2>4. pc' \in [Stoppers -> StopperLabels] /\ cleanup' \subseteq Workers
    BY <1>0, <2>1
  <2> QED
    BY <1>0, <2>1, <2>2, <2>3, <2>4
<1>2. CASE ShutdownMux
  BY <1>0, <1>2 DEF ShutdownMux, BeginShutdown
<1>3. CASE Report
  BY <1>0, <1>3 DEF Report, muxVars
<1>4. ASSUME NEW s \in Stoppers, NEW w \in Workers, TakeChannel(s, w) PROVE StopTyped'
  BY <1>0, <1>4 DEF TakeChannel, muxVars
<1>5. ASSUME NEW s \in Stoppers, CloseChannel(s) PROVE StopTyped'
  BY <1>0, <1>5 DEF CloseChannel, muxVars
<1>6. ASSUME NEW s \in Stoppers, Signal(s) PROVE StopTyped'
  BY <1>0, <1>6 DEF Signal, muxVars
<1>7. ASSUME NEW s \in Stoppers, Wait(s) \/ LoadTotals(s) PROVE StopTyped'
  <2>1. CASE Wait(s)
    <3>1. target[s] \in Workers
      BY <2>1, InHand DEF Wait
    <3>2. late' \subseteq Workers
      BY <1>0, <2>1, <3>1 DEF Wait
    <3> QED
      BY <1>0, <2>1, <3>2 DEF Wait, muxVars
  <2>2. CASE LoadTotals(s)
    BY <1>0, <2>2 DEF LoadTotals, muxVars
  <2> QED
    BY <1>7, <2>1, <2>2
<1>8. ASSUME NEW s \in Stoppers, StoreTotals(s) PROVE StopTyped'
  <2>1. target[s] \in Workers /\ counted[target[s]] \in Counts /\ harvested[target[s]] \in Nat
    <3>1. pc[s] \in Stopping
      BY <1>8 DEF StoreTotals, AddTotals
    <3> QED
      BY <3>1, InHand DEF TypeOK
  <2>2. totals' \in Counts /\ Zero \in Counts
    BY <1>0, <1>8, <2>1, PlusOK DEF StoreTotals, AddTotals
  <2>3. workers' \in [Peers -> Workers \cup {NoWorker}]
    BY <1>0, <1>8 DEF StoreTotals, AddTotals
  <2>4. harvested' \in [Workers -> Nat]
    BY <1>0, <1>8, <2>1 DEF StoreTotals, AddTotals
  <2> QED
    BY <1>0, <1>8, <2>2, <2>3, <2>4 DEF StoreTotals, AddTotals
<1>9. ASSUME NEW s \in Stoppers, StopperDone(s) PROVE StopTyped'
  BY <1>0, <1>9 DEF StopperDone
<1> QED
  BY <1>1, <1>2, <1>3, <1>4, <1>5, <1>6, <1>7, <1>8, <1>9 DEF StopStep, Stopper

\* Channels are taken and closed for good, and the response reader leaves only
\* from its poll.
LEMMA StopForGood ==
  ASSUME TypeOK, StopInv, StopStep
  PROVE  /\ panic' = panic
         /\ \A w \in Workers : /\ incoming[w] = "nil" => incoming'[w] = "nil"
                               /\ chanClosed[w] => chanClosed'[w]
                               /\ d2c'[w] = d2c[w] \/ (d2c[w] = "poll" /\ d2c'[w] = "leaving")
<1> USE DEF workerVars, chanVars, goVars
<1>1. ASSUME NEW s \in Stoppers, CloseChannel(s)
      PROVE  UNCHANGED <<panic, incoming, d2c>> /\ chanClosed' = [chanClosed EXCEPT ![target[s]] = TRUE]
  <2>1. taken[s] = "chan" /\ ~chanClosed[target[s]]
    BY <1>1 DEF CloseChannel, StopInv, TargetInv
  <2> QED
    BY <1>1, <2>1 DEF CloseChannel
<1>2. ASSUME NEW s \in Stoppers, Signal(s) \/ \E w \in Workers : TakeChannel(s, w)
      PROVE  /\ UNCHANGED <<panic, chanClosed>>
             /\ \A w \in Workers : /\ incoming[w] = "nil" => incoming'[w] = "nil"
                                   /\ d2c'[w] = d2c[w] \/ (d2c[w] = "poll" /\ d2c'[w] = "leaving")
  BY <1>2 DEF Signal, TakeChannel, TypeOK
<1>3. ASSUME NEW s \in Stoppers, Wait(s) \/ LoadTotals(s) \/ StoreTotals(s) \/ StopperDone(s)
      PROVE  UNCHANGED <<panic, incoming, chanClosed, d2c>>
  BY <1>3 DEF Wait, LoadTotals, StoreTotals, AddTotals, StopperDone
<1>4. CASE GcCollect \/ ShutdownMux \/ Report
  BY <1>4 DEF GcCollect, Collect, ShutdownMux, BeginShutdown, Report
<1> QED
  BY <1>1, <1>2, <1>3, <1>4 DEF StopStep, Stopper, TypeOK

\* The goroutines and the reader do not notice more than that.
LEMMA StopGo ==
  ASSUME TypeOK, GoInv, ReaderInv, StopInv, StopStep
  PROVE  GoInv' /\ ReaderInv'
<1>1. UNCHANGED <<reader, at, from, created, queue, wg, c2d, resp>>
  BY StopFrame DEF readerVars
<1>2. GoInv'
  <2> SUFFICES ASSUME NEW w \in Workers PROVE Go(w)'
    BY DEF GoInv
  <2>1. /\ chanClosed[w] => chanClosed'[w]
        /\ d2c'[w] = d2c[w] \/ (d2c[w] = "poll" /\ d2c'[w] = "leaving")
    BY StopForGood
  <2> QED
    BY <1>1, <2>1 DEF GoInv, Go, C2dIn, D2cIn, RespIn
<1>3. ReaderInv'
  <2>1. panic' = panic /\ 1..created \subseteq Workers
    BY StopForGood, Existing
  <2>2. panic = "none" \/ panic = "send_on_closed_channel"
    BY DEF StopInv, LockInv, TypeOK
  <2> QED
    BY <1>1, <2>1, <2>2, StopForGood DEF ReaderInv
<1> QED
  BY <1>2, <1>3

-----------------------------------------------------------------------------
(* Who has a worker. *)

\* Steps that begin or end the work of a stopper.
LEMMA PlaceBegin ==
  ASSUME TypeOK, StopInv, GcCollect \/ ShutdownMux \/ Report
  PROVE  StopInv'
<1> USE DEF workerVars, historyVars, chanVars, goVars, Goto, Stopping, Stoppers
<1>0. LockInv /\ TargetInv("gc") /\ TargetInv("handler") /\ \A v \in Workers : PlaceInv(v)
  BY DEF StopInv
<1>1. CASE GcCollect
  <2>1. /\ pc["gc"] = "idle" /\ lock = "free" /\ pc' = [pc EXCEPT !["gc"] = "next"]
        /\ cleanup' = {w \in Workers : InMap(w) /\ stale[w]}
        /\ workers' = [p \in Peers |-> IF workers[p] \in {w \in Workers : stale[w]}
                                         THEN NoWorker ELSE workers[p]]
        /\ UNCHANGED <<lock, muxDone, target, taken, incoming, chanClosed, created, d2c,
                       harvested, panic>>
    BY <1>1 DEF GcCollect, Collect
  <2>2. target["gc"] = NoWorker /\ target["handler"] = NoWorker
    BY <1>0, <2>1 DEF LockInv, TargetInv
  <2>3. \A v \in Workers : InMap(v)' <=> InMap(v) /\ ~stale[v]
    BY <2>1, Existing DEF InMap, TypeOK
  <2>4. LockInv' /\ TargetInv("gc")' /\ TargetInv("handler")'
    BY <1>0, <2>1, <2>2 DEF LockInv, TargetInv, TypeOK
  <2>5. ASSUME NEW v \in Workers PROVE PlaceInv(v)'
    <3>1. PlaceInv(v) /\ v # NoWorker
      BY <1>0, Existing
    <3> QED
      BY <2>1, <2>2, <2>3, <3>1 DEF PlaceInv, Untouched
  <2> QED
    BY <2>4, <2>5 DEF StopInv
<1>2. CASE ShutdownMux \/ Report
  <2>1. /\ \/ pc["handler"] = "idle" /\ pc' = [pc EXCEPT !["handler"] = "next"]
              /\ lock' = "handler" /\ muxDone' = TRUE
           \/ pc["handler"] = "report" /\ pc' = [pc EXCEPT !["handler"] = "done"]
              /\ UNCHANGED <<lock, muxDone>>
        /\ UNCHANGED <<workers, target, taken, cleanup, incoming, chanClosed, created, d2c,
                       harvested, panic>>
    BY <1>2 DEF ShutdownMux, BeginShutdown, Report, muxVars
  <2>2. LockInv' /\ TargetInv("gc")' /\ TargetInv("handler")'
    BY <1>0, <2>1 DEF LockInv, TargetInv, TypeOK
  <2>3. \A v \in Workers : PlaceInv(v)'
    BY <1>0, <2>1 DEF PlaceInv, Untouched, InMap
  <2> QED
    BY <2>2, <2>3 DEF StopInv
<1> QED
  BY <1>1, <1>2

\* The next worker, and its channel.
LEMMA PlaceTake ==
  ASSUME TypeOK, StopInv, NEW s \in Stoppers, NEW w \in Workers, TakeChannel(s, w)
  PROVE  StopInv'
<1>0. LockInv /\ (\A r \in Stoppers : TargetInv(r)) /\ \A v \in Workers : PlaceInv(v)
  BY DEF StopInv
<1>1. /\ pc[s] = "next" /\ w \in Remaining(s) /\ pc' = [pc EXCEPT ![s] = "close"]
      /\ target' = [target EXCEPT ![s] = w] /\ taken' = [taken EXCEPT ![s] = incoming[w]]
      /\ incoming' = [incoming EXCEPT ![w] = "nil"]
      /\ cleanup' = IF s = "gc" THEN cleanup \ {w} ELSE cleanup
      /\ UNCHANGED <<workers, lock, muxDone, chanClosed, created, d2c, harvested, panic>>
  BY DEF TakeChannel, muxVars, goVars, historyVars, Goto
<1>2. target[s] = NoWorker /\ w # NoWorker
  BY <1>0, <1>1, Existing DEF TargetInv, Stopping
<1>3. /\ Untouched(w) /\ w <= created /\ w \in 1..created
      /\ s = "gc" => ~InMap(w) /\ w \in cleanup
      /\ s = "handler" => InMap(w) /\ w \notin cleanup
  <2>1. CASE s = "gc"
    BY <1>0, <1>1, <2>1, MuxAssumption DEF Remaining, PlaceInv, Workers, TypeOK
  <2>2. CASE s = "handler"
    BY <1>0, <1>1, <1>2, <2>2, MuxAssumption DEF Remaining, PlaceInv, Workers, TypeOK
  <2> QED
    BY <2>1, <2>2 DEF Stoppers
<1>4. \A r \in Stoppers : target[r] # w
  <2> SUFFICES ASSUME NEW r \in Stoppers, target[r] = w PROVE FALSE
    OBVIOUS
  <2>1. incoming[w] = "nil"
    BY <1>0, <1>2 DEF TargetInv
  <2> QED
    BY <1>3, <2>1 DEF Untouched
<1>5. LockInv'
  BY <1>0, <1>1 DEF LockInv, Stopping, Stoppers, TypeOK
<1>6. ASSUME NEW r \in Stoppers PROVE TargetInv(r)'
  <2>1. CASE r = s
    <3>1. /\ target'[r] = w /\ pc'[r] = "close" /\ taken'[r] = incoming[w]
          /\ incoming'[w] = "nil"
      BY <1>1, <2>1 DEF TypeOK
    <3> QED
      BY <1>1, <1>2, <1>3, <3>1 DEF TargetInv, Untouched, Stopping
  <2>2. CASE r # s
    <3>1. target'[r] = target[r] /\ pc'[r] = pc[r] /\ taken'[r] = taken[r]
      BY <1>1, <2>2 DEF TypeOK
    <3>2. incoming[target[r]] = "nil" => incoming'[target[r]] = "nil"
      BY <1>1, <1>4 DEF TypeOK
    <3> QED
      BY <1>0, <1>1, <3>1, <3>2 DEF TargetInv
  <2> QED
    BY <2>1, <2>2
<1>7. ASSUME NEW v \in Workers PROVE PlaceInv(v)'
  <2>1. PlaceInv(v) /\ (InMap(v)' <=> InMap(v)) /\ v # NoWorker
    BY <1>0, <1>1, Existing DEF InMap
  <2>2. CASE v = w
    <3>1. target'["gc"] = w <=> s = "gc"
      BY <1>1, <1>4 DEF Stoppers, TypeOK
    <3>2. target'["handler"] = w <=> s = "handler"
      BY <1>1, <1>4 DEF Stoppers, TypeOK
    <3>3. v \notin cleanup'
      BY <1>1, <1>3, <2>2 DEF Stoppers
    <3> QED
      BY <1>1, <1>3, <2>1, <2>2, <3>1, <3>2, <3>3 DEF PlaceInv, Stoppers
  <2>3. CASE v # w
    <3>1. /\ Untouched(v)' <=> Untouched(v)
          /\ v \in cleanup' => v \in cleanup
      BY <1>1, <2>3 DEF Untouched, TypeOK
    <3>2. /\ target'["gc"] = v => target["gc"] = v
          /\ target'["handler"] = v => target["handler"] = v
          /\ target["handler"] = v => target'["handler"] = v
      BY <1>1, <1>2, <2>1, <2>3 DEF Stoppers, TypeOK
    <3> QED
      BY <1>1, <2>1, <3>1, <3>2 DEF PlaceInv
  <2> QED
    BY <2>2, <2>3
<1> QED
  BY <1>5, <1>6, <1>7 DEF StopInv

\* From the close of the channel to the addition of the counters the stopper keeps
\* the worker.
LEMMA PlaceKeep ==
  ASSUME TypeOK, StopInv, NEW s \in Stoppers,
         CloseChannel(s) \/ Signal(s) \/ Wait(s) \/ LoadTotals(s)
  PROVE  StopInv'
<1> DEFINE w == target[s]
<1> USE DEF workerVars, historyVars, chanVars, goVars, Goto
<1>0. LockInv /\ (\A r \in Stoppers : TargetInv(r)) /\ \A v \in Workers : PlaceInv(v)
  BY DEF StopInv
<1>1. pc[s] \in Stopping /\ panic' = panic
  <2>1. pc[s] = "close" => taken[s] = "chan" /\ ~chanClosed[w]
    BY <1>0 DEF TargetInv
  <2> QED
    BY <2>1 DEF CloseChannel, Signal, Wait, LoadTotals, Stopping
<1>2. /\ w \in Workers /\ w <= created /\ incoming[w] = "nil" /\ w \notin cleanup
      /\ \A r \in Stoppers \ {s} : target[r] # w
  BY <1>1, InHand
<1>3. /\ \E l \in {"signal", "wait", "load", "store"} :
           /\ pc' = [pc EXCEPT ![s] = l]
           /\ l \in {"wait", "load", "store"} => d2c'[w] \in {"leaving", "done"}
      /\ chanClosed' \in {chanClosed, [chanClosed EXCEPT ![w] = TRUE]}
      /\ UNCHANGED <<workers, lock, muxDone, target, taken, cleanup, created, incoming, harvested>>
  <2>1. CASE CloseChannel(s)
    <3>1. taken[s] = "chan" /\ ~chanClosed[w]
      BY <1>0, <2>1 DEF TargetInv, CloseChannel
    <3> QED
      BY <2>1, <3>1 DEF CloseChannel, muxVars
  <2>2. CASE Signal(s)
    BY <1>2, <2>2 DEF Signal, muxVars, TypeOK
  <2>3. CASE Wait(s) \/ LoadTotals(s)
    <3>1. d2c[w] \in {"leaving", "done"}
      BY <1>0, <2>3 DEF Wait, LoadTotals, TargetInv
    <3> QED
      BY <2>3, <3>1 DEF Wait, LoadTotals, muxVars
  <2> QED
    BY <2>1, <2>2, <2>3
<1>4. LockInv'
  BY <1>0, <1>1, <1>3 DEF LockInv, Stopping, Stoppers, TypeOK
<1>5. ASSUME NEW r \in Stoppers PROVE TargetInv(r)'
  <2>1. CASE r = s
    <3>1. pc'[r] \in {"signal", "wait", "load", "store"}
          /\ (pc'[r] # "signal" => d2c'[w] \in {"leaving", "done"})
      BY <1>3, <2>1 DEF TypeOK
    <3> QED
      BY <1>0, <1>1, <1>3, <2>1, <3>1 DEF TargetInv, Stopping
  <2>2. CASE r # s
    <3>1. pc'[r] = pc[r] /\ TargetInv(r) /\ (pc[r] \in Stopping => target[r] \in Workers)
      <4>1. pc'[r] = pc[r]
        BY <1>3, <2>2 DEF TypeOK
      <4> QED
        BY <1>0, <4>1, InHand
    <3>2. pc[r] = "close" => chanClosed'[target[r]] = chanClosed[target[r]]
      <4>1. target[r] # w
        BY <1>2, <2>2
      <4>2. \A v \in Workers \ {w} : chanClosed'[v] = chanClosed[v]
        BY <1>3 DEF TypeOK
      <4> QED
        BY <3>1, <4>1, <4>2 DEF Stopping
    <3>3. target[r] \in Workers /\ d2c[target[r]] \in {"leaving", "done"}
            => d2c'[target[r]] \in {"leaving", "done"}
      BY StopForGood DEF StopStep, Stopper
    <3> QED
      BY <1>3, <3>1, <3>2, <3>3 DEF TargetInv, Stopping
  <2> QED
    BY <2>1, <2>2
<1>6. ASSUME NEW v \in Workers PROVE PlaceInv(v)'
  <2>1. PlaceInv(v) /\ (InMap(v)' <=> InMap(v))
    BY <1>0, <1>3 DEF InMap
  <2>2. CASE v = w
    <3>1. ~(v > created) /\ (InMap(v) => target["handler"] = v)
      <4>1. ~Untouched(v)
        BY <1>2, <2>2 DEF Untouched
      <4>2. ~(v > created)
        BY <1>2, <2>2, MuxAssumption DEF Workers, TypeOK
      <4> QED
        BY <2>1, <4>1, <4>2 DEF PlaceInv
    <3> QED
      BY <1>2, <1>3, <2>1, <2>2, <3>1 DEF PlaceInv
  <2>3. CASE v # w
    <3>1. chanClosed'[v] = chanClosed[v]
      BY <1>3, <2>3 DEF TypeOK
    <3>2. Untouched(v)' <=> Untouched(v)
      BY <1>3, <3>1 DEF Untouched
    <3> QED
      BY <1>3, <2>1, <3>1, <3>2 DEF PlaceInv
  <2> QED
    BY <2>2, <2>3
<1> QED
  BY <1>1, <1>4, <1>5, <1>6 DEF StopInv

\* The counters are added, and the worker is let go.
LEMMA PlaceStore ==
  ASSUME TypeOK, StopInv, NEW s \in Stoppers, StoreTotals(s)
  PROVE  StopInv'
<1> DEFINE w == target[s]
<1>0. LockInv /\ (\A r \in Stoppers : TargetInv(r)) /\ \A v \in Workers : PlaceInv(v)
  BY DEF StopInv
<1>1. /\ pc[s] = "store" /\ pc' = [pc EXCEPT ![s] = "next"]
      /\ target' = [target EXCEPT ![s] = NoWorker] /\ taken' = [taken EXCEPT ![s] = "nil"]
      /\ harvested' = [harvested EXCEPT ![w] = @ + 1]
      /\ workers' = IF s = "handler"
                      THEN [p \in Peers |-> IF workers[p] = w THEN NoWorker ELSE workers[p]]
                      ELSE workers
      /\ UNCHANGED <<lock, muxDone, cleanup, created, incoming, chanClosed, d2c, panic>>
  BY DEF StoreTotals, AddTotals, Goto, chanVars, goVars
<1>2. /\ w \in Workers /\ w <= created /\ harvested[w] = 0 /\ incoming[w] = "nil"
      /\ w \notin cleanup /\ (InMap(w) <=> s = "handler")
      /\ \A r \in Stoppers \ {s} : target[r] # w
  BY <1>1, InHand DEF Stopping
<1>3. \A v \in Workers : InMap(v)' <=> InMap(v) /\ v # w
  <2>1. CASE s = "handler"
    BY <1>1, <2>1, Existing DEF InMap, TypeOK
  <2>2. CASE s # "handler"
    BY <1>1, <1>2, <2>2 DEF InMap
  <2> QED
    BY <2>1, <2>2
<1>4. LockInv'
  BY <1>0, <1>1 DEF LockInv, Stopping, Stoppers, TypeOK
<1>5. ASSUME NEW r \in Stoppers PROVE TargetInv(r)'
  <2>1. CASE r = s
    <3>1. pc'[r] = "next" /\ target'[r] = NoWorker
      BY <1>1, <2>1 DEF TypeOK
    <3> QED
      BY <3>1 DEF TargetInv, Stopping
  <2>2. CASE r # s
    <3>1. target'[r] = target[r] /\ pc'[r] = pc[r] /\ taken'[r] = taken[r] /\ TargetInv(r)
      BY <1>0, <1>1, <2>2 DEF TypeOK
    <3>2. harvested[target[r]] = 0 /\ pc[r] \in Stopping => harvested'[target[r]] = 0
      <4>1. target[r] # w /\ (pc[r] \in Stopping => target[r] \in Workers)
        BY <1>2, <2>2, InHand
      <4>2. \A v \in Workers \ {w} : harvested'[v] = harvested[v]
        BY <1>1 DEF TypeOK
      <4> QED
        BY <4>1, <4>2
    <3> QED
      BY <1>1, <3>1, <3>2 DEF TargetInv
  <2> QED
    BY <2>1, <2>2
<1>6. ASSUME NEW v \in Workers PROVE PlaceInv(v)'
  <2>1. PlaceInv(v) /\ v # NoWorker
    BY <1>0, Existing
  <2>2. \A r \in Stoppers : target'[r] = v => target[r] = v /\ r # s
    BY <1>1, <2>1 DEF TypeOK
  <2>3. CASE v = w
    <3>1. harvested'[v] = 1 /\ ~(v > created)
      <4>1. ~(v > created)
        BY <1>2, <2>3, MuxAssumption DEF Workers, TypeOK
      <4> QED
        BY <1>1, <1>2, <2>3, <4>1 DEF TypeOK
    <3>2. \A r \in Stoppers : target'[r] # v
      BY <1>2, <2>2, <2>3
    <3> QED
      BY <1>1, <1>2, <1>3, <2>3, <3>1, <3>2 DEF PlaceInv, Stoppers
  <2>4. CASE v # w
    <3>1. harvested'[v] = harvested[v] /\ (InMap(v)' <=> InMap(v))
      BY <1>1, <1>3, <2>4 DEF TypeOK
    <3>2. Untouched(v)' <=> Untouched(v)
      BY <1>1, <3>1 DEF Untouched
    <3>3. /\ target'["gc"] = v => target["gc"] = v
          /\ target'["handler"] = v <=> target["handler"] = v
      BY <1>1, <2>2, <2>4 DEF Stoppers, TypeOK
    <3> QED
      BY <1>1, <2>1, <3>1, <3>2, <3>3 DEF PlaceInv
  <2> QED
    BY <2>3, <2>4
<1> QED
  BY <1>4, <1>5, <1>6 DEF StopInv

\* No worker is left to shut down.
LEMMA PlaceEnd ==
  ASSUME TypeOK, StopInv, NEW s \in Stoppers, StopperDone(s)
  PROVE  StopInv'
<1>0. LockInv /\ (\A r \in Stoppers : TargetInv(r)) /\ \A v \in Workers : PlaceInv(v)
  BY DEF StopInv
<1>1. /\ pc[s] = "next" /\ Remaining(s) = {}
      /\ \/ s = "gc" /\ pc' = [pc EXCEPT ![s] = "idle"] /\ lock' = lock
         \/ s = "handler" /\ pc' = [pc EXCEPT ![s] = "report"] /\ lock' = "free"
      /\ UNCHANGED <<workers, muxDone, target, taken, cleanup, created, incoming, chanClosed, d2c,
                     harvested, panic>>
  BY DEF StopperDone, Goto, workerVars, historyVars, chanVars, goVars, Stoppers
<1>2. s = "gc" => cleanup = {}
  BY <1>1 DEF Remaining
<1>3. LockInv'
  BY <1>0, <1>1, <1>2 DEF LockInv, Stopping, Stoppers, TypeOK
<1>4. ASSUME NEW r \in Stoppers PROVE TargetInv(r)'
  BY <1>0, <1>1 DEF TargetInv, Stopping, TypeOK
<1>5. ASSUME NEW v \in Workers PROVE PlaceInv(v)'
  BY <1>0, <1>1 DEF PlaceInv, Untouched, InMap
<1> QED
  BY <1>3, <1>4, <1>5 DEF StopInv

\* After Shutdown the stoppers put nothing in the map, and it is empty when
\* Shutdown ends.
LEMMA StopOrphan ==
  ASSUME TypeOK, StopInv, OrphanInv, StopStep
  PROVE  OrphanInv'
<1> USE DEF Goto
<1>1. reader' = reader
  BY StopFrame DEF readerVars
<1>2. \A v \in Workers : InMap(v)' => InMap(v)
  <2>1. CASE GcCollect
    BY <2>1, Existing DEF GcCollect, Collect, InMap
  <2>2. ASSUME NEW s \in Stoppers, StoreTotals(s) PROVE \A v \in Workers : InMap(v)' => InMap(v)
    BY <2>2, Existing DEF StoreTotals, AddTotals, InMap
  <2>3. ASSUME NEW s \in Stoppers,
               CloseChannel(s) \/ Signal(s) \/ Wait(s) \/ LoadTotals(s) \/ StopperDone(s)
                 \/ \E w \in Workers : TakeChannel(s, w)
        PROVE  UNCHANGED workers
    BY <2>3 DEF CloseChannel, Signal, Wait, LoadTotals, StopperDone, TakeChannel, muxVars
  <2>4. CASE ShutdownMux \/ Report
    BY <2>4 DEF ShutdownMux, BeginShutdown, Report, muxVars, InMap
  <2> QED
    BY <2>1, <2>2, <2>3, <2>4 DEF StopStep, Stopper, InMap
<1>3. pc'["handler"] \in {"report", "done"} =>
        pc["handler"] \in {"report", "done"} \/ \A v \in Workers : ~InMap(v)
  <2>1. CASE GcCollect
    BY <2>1 DEF GcCollect, Collect, Stoppers, TypeOK
  <2>2. ASSUME NEW s \in Stoppers, StopperDone(s)
        PROVE  pc'["handler"] \in {"report", "done"} =>
                 pc["handler"] \in {"report", "done"} \/ \A v \in Workers : ~InMap(v)
    BY <2>2 DEF StopperDone, Remaining, Stoppers, TypeOK
  <2>3. ASSUME NEW s \in Stoppers,
               CloseChannel(s) \/ Signal(s) \/ Wait(s) \/ LoadTotals(s) \/ StoreTotals(s)
                 \/ \E w \in Workers : TakeChannel(s, w)
        PROVE  pc'["handler"] \in {"report", "done"} => pc["handler"] \in {"report", "done"}
    BY <2>3 DEF CloseChannel, Signal, Wait, LoadTotals, StoreTotals, AddTotals, TakeChannel,
       Stoppers, TypeOK
  <2>4. CASE ShutdownMux \/ Report
    BY <2>4 DEF ShutdownMux, BeginShutdown, Report, Stoppers, TypeOK
  <2> QED
    BY <2>1, <2>2, <2>3, <2>4 DEF StopStep, Stopper
<1> QED
  BY <1>1, <1>2, <1>3 DEF OrphanInv

LEMMA StopOK ==
  ASSUME IInv, StopStep
  PROVE  IInv'
<1>0. TypeOK /\ GoInv /\ ReaderInv /\ StopInv /\ OrphanInv
  BY DEF IInv
<1>1. UNCHANGED <<readerVars, created, queue, wg, c2d, resp, responses, counted, stale>>
  BY StopFrame
<1>2. TypeOK'
  BY <1>0, <1>1, StopTypes DEF TypeOK, StopTyped, readerVars
<1>3. StopInv'
  BY <1>0, PlaceBegin, PlaceTake, PlaceKeep, PlaceStore, PlaceEnd DEF StopStep, Stopper
<1> QED
  BY <1>0, <1>2, <1>3, StopGo, StopOrphan DEF IInv

-----------------------------------------------------------------------------
(* The totals. *)

Size(n) == Cardinality(Pile(n))

\* A datagram read from the listen socket is in the reader's hands until it is
\* dispatched or dropped, a response in its reader's until it is handed over.
InReader == One(reader \in {"get", "dispatch", "bug", "send", "stuck"})
DestOwed == [w \in Workers |-> DestHeld[w] + One(d2c[w] = "handoff")]

\* Room for t: the totals t and all that is not in them were read.
Within(t) ==
  /\ t.client + Size(ClientHeld) + InReader <= packets
  /\ t.dest + Size(DestOwed) <= responses

\* There is room for the totals and for what a stopper loaded of them: whatever
\* it overwrites, it cannot add too much.
CountInv == Within(totals) /\ \A s \in Stoppers : Within(loaded[s])

\* A pile of finitely many datagrams of each worker.
LEMMA PileFinite ==
  ASSUME NEW n \in [Workers -> Nat], NEW S \in SUBSET Workers
  PROVE  IsFiniteSet(UNION {{w} \X (1..n[w]) : w \in S})
<1> DEFINE T == {{w} \X (1..n[w]) : w \in S}
           f == [w \in S |-> {w} \X (1..n[w])]
<1>1. IsFiniteSet(S)
  <2>1. IsFiniteSet(Workers)
    BY FS_Interval, MuxAssumption DEF Workers
  <2> QED
    BY <2>1, FS_Subset
<1>2. IsFiniteSet(T)
  <2>1. f \in Surjection(S, T)
    BY DEF Surjection
  <2> QED
    BY <1>1, <2>1, FS_Surjection
<1>3. ASSUME NEW t \in T PROVE IsFiniteSet(t)
  <2>1. PICK w \in S : t = {w} \X (1..n[w])
    BY <1>3
  <2>2. IsFiniteSet({w}) /\ IsFiniteSet(1..n[w])
    <3>1. 1 \in Int /\ n[w] \in Int
      OBVIOUS
    <3> QED
      BY ONLY <3>1, FS_Singleton, FS_Interval
  <2>3. IsFiniteSet({w} \X (1..n[w]))
    BY <2>2, FS_Product
  <2> QED
    BY <2>1, <2>3, Zenon
<1> QED
  BY <1>2, <1>3, FS_UNION

\* A pile is that of one worker and that of the others.
LEMMA PileParts ==
  ASSUME NEW n \in [Workers -> Nat], NEW w \in Workers
  PROVE  LET Rest == UNION {{v} \X (1..n[v]) : v \in Workers \ {w}} IN
         /\ IsFiniteSet(Rest) /\ Cardinality(Rest) \in Nat
         /\ Size(n) = Cardinality(Rest) + n[w]
<1> DEFINE Rest == UNION {{v} \X (1..n[v]) : v \in Workers \ {w}}
           Own == {w} \X (1..n[w])
<1>1. IsFiniteSet(Rest) /\ Cardinality(Rest) \in Nat
  BY PileFinite, FS_CardinalityType
<1>2. IsFiniteSet(Own) /\ Cardinality(Own) = n[w]
  <2>1. IsFiniteSet({w}) /\ Cardinality({w}) = 1
    BY FS_Singleton
  <2>2. IsFiniteSet(1..n[w]) /\ Cardinality(1..n[w]) = n[w]
    BY FS_Interval
  <2>3. IsFiniteSet(Own) /\ Cardinality(Own) = 1 * n[w]
    BY <2>1, <2>2, FS_Product
  <2> QED
    BY <2>3
<1>3. Pile(n) = Rest \cup Own
  BY DEF Pile
<1>4. Rest \cap Own = {}
  OBVIOUS
<1>5. Cardinality(Rest \cup Own) = Cardinality(Rest) + Cardinality(Own) - Cardinality({})
  <2>1. Cardinality(Rest \cup Own) =
          Cardinality(Rest) + Cardinality(Own) - Cardinality(Rest \cap Own)
    BY <1>1, <1>2, FS_Union
  <2> QED
    BY <1>4, <2>1
<1>6. Cardinality({}) = 0
  BY FS_EmptySet
<1> HIDE DEF Rest, Own
<1>7. Cardinality(Rest \cup Own) = Cardinality(Rest) + n[w]
  BY <1>1, <1>2, <1>5, <1>6
<1>8. Size(n) = Cardinality(Rest) + n[w]
  BY <1>3, <1>7 DEF Size
<1> QED
  BY <1>1, <1>8 DEF Rest

\* When nobody has anything there is no pile.
LEMMA EmptyPile ==
  ASSUME NEW n, \A w \in Workers : n[w] = 0
  PROVE  Size(n) = 0
<1>1. \A w \in Workers : 1..n[w] = {}
  OBVIOUS
<1>2. Pile(n) = {}
  BY <1>1, Zenon DEF Pile
<1> QED
  BY <1>2, FS_EmptySet DEF Size

\* The size of a pile is a number.
LEMMA PileNat ==
  ASSUME NEW n \in [Workers -> Nat]
  PROVE  Size(n) \in Nat
<1>1. IsFiniteSet(Pile(n))
  BY PileFinite DEF Pile
<1> QED
  BY <1>1, FS_CardinalityType DEF Size

\* A pile on which nobody has more than on another is not larger.
LEMMA PileLess ==
  ASSUME NEW m \in [Workers -> Nat], NEW n \in [Workers -> Nat],
         \A v \in Workers : m[v] <= n[v]
  PROVE  Size(m) \in Nat /\ Size(n) \in Nat /\ Size(m) <= Size(n)
<1>1. IsFiniteSet(Pile(m)) /\ IsFiniteSet(Pile(n))
  BY PileFinite DEF Pile
<1>2. Pile(m) \subseteq Pile(n)
  <2> SUFFICES ASSUME NEW w \in Workers, NEW i \in 1..m[w] PROVE <<w, i>> \in Pile(n)
    BY DEF Pile
  <2>1. i \in 1..n[w]
    OBVIOUS
  <2> QED
    BY <2>1 DEF Pile
<1> QED
  BY <1>1, <1>2, FS_Subset, FS_CardinalityType DEF Size

\* What one worker gains or loses, when the others gain nothing, is what the pile
\* does.
LEMMA PileChange ==
  ASSUME NEW m \in [Workers -> Nat], NEW n \in [Workers -> Nat], NEW w \in Workers,
         \A v \in Workers \ {w} : n[v] <= m[v]
  PROVE  /\ Size(m) \in Nat /\ Size(n) \in Nat
         /\ Size(n) + m[w] <= Size(m) + n[w]
<1> DEFINE Rest(k) == UNION {{v} \X (1..k[v]) : v \in Workers \ {w}}
<1>1. /\ IsFiniteSet(Rest(m)) /\ Cardinality(Rest(m)) \in Nat
      /\ Size(m) = Cardinality(Rest(m)) + m[w]
  BY PileParts
<1>2. Cardinality(Rest(n)) \in Nat /\ Size(n) = Cardinality(Rest(n)) + n[w]
  BY PileParts
<1>3. Rest(n) \subseteq Rest(m)
  <2> SUFFICES ASSUME NEW v \in Workers \ {w}, NEW i \in 1..n[v] PROVE <<v, i>> \in Rest(m)
    OBVIOUS
  <2>1. i \in 1..m[v]
    OBVIOUS
  <2> QED
    BY <2>1
<1>4. Cardinality(Rest(n)) <= Cardinality(Rest(m))
  BY <1>1, <1>3, FS_Subset
<1> HIDE DEF Rest
<1>5. m[w] \in Nat /\ n[w] \in Nat
  OBVIOUS
<1> QED
  BY <1>1, <1>2, <1>4, <1>5

\* What the workers hold, before and after a step.
LEMMA HeldTyped ==
  ASSUME TypeOK, TypeOK'
  PROVE  /\ ClientHeld \in [Workers -> Nat] /\ ClientHeld' \in [Workers -> Nat]
         /\ DestOwed \in [Workers -> Nat] /\ DestOwed' \in [Workers -> Nat]
<1>1. ASSUME NEW w \in Workers
      PROVE  /\ queue[w] \in Nat /\ counted[w].client \in Nat /\ counted[w].dest \in Nat
             /\ queue'[w] \in Nat /\ counted'[w].client \in Nat /\ counted'[w].dest \in Nat
  BY DEF TypeOK, Counts
<1>2. ASSUME NEW w \in Workers
      PROVE  /\ queue[w] + (IF harvested[w] = 0 THEN counted[w].client ELSE 0) \in Nat
             /\ queue'[w] + (IF harvested'[w] = 0 THEN counted'[w].client ELSE 0) \in Nat
  BY <1>1
<1>3. ASSUME NEW w \in Workers
      PROVE  /\ (IF harvested[w] = 0 THEN counted[w].dest ELSE 0) + One(d2c[w] = "handoff") \in Nat
             /\ (IF harvested'[w] = 0 THEN counted'[w].dest ELSE 0) + One(d2c'[w] = "handoff")
                  \in Nat
  BY <1>1 DEF One
<1>4. ClientHeld \in [Workers -> Nat] /\ ClientHeld' \in [Workers -> Nat]
  BY <1>2 DEF ClientHeld
<1>5. DestOwed \in [Workers -> Nat] /\ DestOwed' \in [Workers -> Nat]
  BY <1>3 DEF DestOwed, DestHeld
<1> QED
  BY <1>4, <1>5

\* A worker's share of the piles depends on that worker alone.
LEMMA HeldSame ==
  ASSUME NEW w \in Workers, UNCHANGED <<queue[w], harvested[w], counted[w]>>
  PROVE  /\ ClientHeld'[w] = ClientHeld[w]
         /\ d2c'[w] = d2c[w] => DestOwed'[w] = DestOwed[w]
         /\ d2c'[w] # "handoff" /\ TypeOK => DestOwed'[w] <= DestOwed[w]
<1>1. ClientHeld'[w] = ClientHeld[w] /\ (d2c'[w] = d2c[w] => DestOwed'[w] = DestOwed[w])
  BY DEF ClientHeld, DestHeld, DestOwed
<1>2. ASSUME d2c'[w] # "handoff", TypeOK PROVE DestOwed'[w] <= DestOwed[w]
  <2>1. counted[w].dest \in Nat
    BY <1>2 DEF TypeOK, Counts
  <2> QED
    BY <1>2, <2>1 DEF DestHeld, DestOwed, One
<1> QED
  BY <1>1, <1>2

\* A step that adds nothing to the totals keeps the room if the piles grow only
\* by what is read.
LEMMA CountKept ==
  ASSUME TypeOK, TypeOK', CountInv, totals' = totals,
         \A s \in Stoppers : loaded'[s] \in {loaded[s], totals, Zero},
         Size(ClientHeld)' + InReader' + packets <= Size(ClientHeld) + InReader + packets',
         Size(DestOwed)' + responses <= Size(DestOwed) + responses'
  PROVE  CountInv'
<1>1. /\ Size(ClientHeld) \in Nat /\ Size(ClientHeld)' \in Nat
      /\ Size(DestOwed) \in Nat /\ Size(DestOwed)' \in Nat
  <2>1. PICK f, g : f = ClientHeld' /\ g = DestOwed'
    OBVIOUS
  <2>2. Size(f) \in Nat /\ Size(g) \in Nat /\ Size(ClientHeld) \in Nat /\ Size(DestOwed) \in Nat
    <3>1. /\ f \in [Workers -> Nat] /\ g \in [Workers -> Nat]
          /\ ClientHeld \in [Workers -> Nat] /\ DestOwed \in [Workers -> Nat]
      BY <2>1, HeldTyped
    <3> QED
      BY <3>1, PileNat
  <2>3. Size(ClientHeld)' = Size(f) /\ Size(DestOwed)' = Size(g)
    BY <2>1 DEF Size, Pile
  <2> QED
    BY <2>2, <2>3
<1>2. InReader \in Nat /\ InReader' \in Nat
  BY DEF InReader, One
<1>3. packets \in Nat /\ packets' \in Nat /\ responses \in Nat /\ responses' \in Nat
  BY MuxAssumption DEF TypeOK
<1>4. ASSUME NEW t \in Counts, Within(t)
      PROVE  /\ t.client + Size(ClientHeld)' + InReader' <= packets'
             /\ t.dest + Size(DestOwed)' <= responses'
  <2>1. t.client \in Nat /\ t.dest \in Nat
    BY DEF Counts
  <2> QED
    BY <1>1, <1>2, <1>3, <1>4, <2>1 DEF Within
<1>5. totals \in Counts /\ Zero \in Counts /\ \A s \in Stoppers : loaded[s] \in Counts
  BY DEF TypeOK, Zero, Counts
<1>6. Within(Zero)
  <2>1. totals.client \in Nat /\ totals.dest \in Nat /\ Zero.client = 0 /\ Zero.dest = 0
    BY <1>5 DEF Counts, Zero
  <2> QED
    BY <1>1, <1>2, <1>3, <2>1 DEF CountInv, Within
<1>7. Within(totals)'
  BY <1>4, <1>5 DEF CountInv, Within
<1>8. ASSUME NEW s \in Stoppers PROVE Within(loaded[s])'
  <2>1. PICK t \in {loaded[s], totals, Zero} : t = loaded'[s]
    OBVIOUS
  <2>2. t \in Counts /\ Within(t)
    BY <1>5, <1>6, <2>1 DEF CountInv
  <2> QED
    BY <1>4, <2>1, <2>2 DEF Within
<1> QED
  BY <1>7, <1>8 DEF CountInv

\* Datagrams go from the socket to the reader and from it to a channel.
LEMMA ReaderCount ==
  ASSUME IInv, TypeOK', CountInv, ReaderMoves
  PROVE  CountInv'
<1>0. TypeOK /\ ReaderInv
  BY DEF IInv
<1>1. UNCHANGED <<totals, loaded, harvested, counted, d2c, responses>>
  BY ReaderFrame DEF muxVars, stopVars, goVars
<1>2. DestOwed' = DestOwed
  BY <1>1 DEF DestOwed, DestHeld
<1>3. Size(ClientHeld)' + InReader' + packets <= Size(ClientHeld) + InReader + packets'
  <2>1. PICK g : g = ClientHeld'
    OBVIOUS
  <2>2. g \in [Workers -> Nat] /\ Size(ClientHeld)' = Size(g)
    BY <1>0, <2>1, HeldTyped DEF Size, Pile
  <2>3. Size(ClientHeld) \in Nat /\ packets \in Nat
    <3>1. ClientHeld \in [Workers -> Nat]
      BY <1>0, HeldTyped
    <3>2. Size(ClientHeld) \in Nat
      BY <3>1, PileNat
    <3> QED
      BY <1>0, <3>2, MuxAssumption DEF TypeOK
  <2>4. CASE queue' = queue
    <3>1. Size(ClientHeld)' = Size(ClientHeld)
      BY <1>1, <2>4 DEF ClientHeld, Size, Pile
    <3>2. CASE \E p \in Peers : Read(p)
      BY <2>3, <3>1, <3>2 DEF Read, InReader, One
    <3>3. CASE ~\E p \in Peers : Read(p)
      <4>1. /\ packets' = packets
            /\ reader' \in {"get", "dispatch", "bug", "send", "stuck"} =>
                 reader \in {"get", "dispatch", "bug", "send", "stuck"}
        BY <3>3 DEF ReaderMoves, ReadError, GetExisting, GetError, DispatchTest, DispatchNil,
           DispatchReload, DispatchSend, CheckDone, ReaderMove
      <4> QED
        BY <2>3, <3>1, <4>1 DEF InReader, One
    <3> QED
      BY <3>2, <3>3
  <2>5. CASE queue' # queue
    <3>1. DispatchSend /\ queue' = [queue EXCEPT ![at] = @ + 1] /\ reader' = "check"
      BY <2>5 DEF ReaderMoves, Read, ReadError, GetExisting, GetError, DispatchTest, DispatchNil,
         DispatchReload, DispatchSend, CheckDone, ReaderMove, workerVars, chanVars
    <3>2. at \in Workers /\ reader = "send" /\ packets' = packets
      BY <1>0, <3>1, Existing DEF DispatchSend, ReaderInv
    <3>3. ASSUME NEW v \in Workers \ {at} PROVE g[v] = ClientHeld[v]
      BY <1>0, <1>1, <2>1, <3>1, <3>3, HeldSame DEF TypeOK
    <3>4. g[at] = ClientHeld[at] + 1
      <4>1. queue[at] \in Nat /\ counted[at].client \in Nat /\ queue'[at] = queue[at] + 1
        BY <1>0, <3>1, <3>2 DEF TypeOK, Counts
      <4> QED
        BY <1>1, <2>1, <3>2, <4>1 DEF ClientHeld
    <3>5. ClientHeld \in [Workers -> Nat]
      BY <1>0, HeldTyped
    <3>6. /\ Size(g) \in Nat
          /\ Size(g) + ClientHeld[at] <= Size(ClientHeld) + g[at]
      <4>1. \A v \in Workers \ {at} : g[v] <= ClientHeld[v]
        BY <2>2, <3>3, <3>5
      <4> QED
        BY <2>2, <3>2, <3>5, <4>1, PileChange
    <3>7. InReader = 1 /\ InReader' = 0
      BY <3>1, <3>2 DEF InReader, One
    <3>8. ClientHeld[at] \in Nat
      BY <3>2, <3>5
    <3> QED
      BY <2>2, <2>3, <3>2, <3>4, <3>6, <3>7, <3>8
  <2> QED
    BY <2>4, <2>5
<1>4. Size(DestOwed)' + responses <= Size(DestOwed) + responses'
  <2>1. Size(DestOwed)' = Size(DestOwed)
    BY <1>2 DEF Size, Pile
  <2>2. Size(DestOwed) \in Nat /\ responses \in Nat
    <3>1. DestOwed \in [Workers -> Nat]
      BY <1>0, HeldTyped
    <3>2. Size(DestOwed) \in Nat
      BY <3>1, PileNat
    <3> QED
      BY <1>0, <3>2, MuxAssumption DEF TypeOK
  <2> QED
    BY <1>1, <2>1, <2>2
<1> QED
  BY <1>0, <1>1, <1>3, <1>4, CountKept

\* A step that reads nothing and leaves every worker at most what it had.
LEMMA CountSame ==
  ASSUME TypeOK, TypeOK', CountInv, totals' = totals, packets' = packets, responses' = responses,
         \A s \in Stoppers : loaded'[s] \in {loaded[s], totals, Zero},
         InReader' = InReader,
         \A w \in Workers : ClientHeld'[w] <= ClientHeld[w] /\ DestOwed'[w] <= DestOwed[w]
  PROVE  CountInv'
<1>1. PICK f, g : f = ClientHeld' /\ g = DestOwed'
  OBVIOUS
<1>2. /\ f \in [Workers -> Nat] /\ g \in [Workers -> Nat]
      /\ ClientHeld \in [Workers -> Nat] /\ DestOwed \in [Workers -> Nat]
  BY <1>1, HeldTyped
<1>3. Size(ClientHeld)' = Size(f) /\ Size(DestOwed)' = Size(g)
  BY <1>1 DEF Size, Pile
<1>4. /\ Size(f) \in Nat /\ Size(ClientHeld) \in Nat /\ Size(f) <= Size(ClientHeld)
      /\ Size(g) \in Nat /\ Size(DestOwed) \in Nat /\ Size(g) <= Size(DestOwed)
  BY <1>1, <1>2, PileLess
<1>5. packets \in Nat /\ responses \in Nat /\ InReader \in Nat
  BY MuxAssumption DEF TypeOK, InReader, One
<1>6. /\ Size(ClientHeld)' + InReader' + packets <= Size(ClientHeld) + InReader + packets'
      /\ Size(DestOwed)' + responses <= Size(DestOwed) + responses'
  BY <1>3, <1>4, <1>5
<1> QED
  BY <1>6, CountKept

\* A new worker holds nothing yet.
LEMMA CreateCount ==
  ASSUME TypeOK, TypeOK', CountInv, GetNew
  PROVE  CountInv'
<1>1. /\ UNCHANGED <<totals, loaded, packets, responses, queue, harvested, counted>>
      /\ d2c' = [d2c EXCEPT ![created + 1] = "spawned"]
      /\ reader = "get" /\ reader' = "dispatch"
  BY DEF GetNew, stopVars, historyVars
<1>2. InReader' = InReader
  BY <1>1 DEF InReader, One
<1>3. ASSUME NEW w \in Workers
      PROVE  ClientHeld'[w] <= ClientHeld[w] /\ DestOwed'[w] <= DestOwed[w]
  <2>1. d2c'[w] = d2c[w] \/ d2c'[w] = "spawned"
    BY <1>1 DEF TypeOK
  <2>2. /\ ClientHeld'[w] = ClientHeld[w]
        /\ DestOwed'[w] = DestOwed[w] \/ DestOwed'[w] <= DestOwed[w]
    BY <1>1, <2>1, HeldSame
  <2>3. ClientHeld[w] \in Nat /\ DestOwed[w] \in Nat
    BY HeldTyped
  <2> QED
    BY <2>2, <2>3
<1> QED
  BY <1>1, <1>2, <1>3, CountSame

\* A worker's share of the piles grows only when a response is read.
LEMMA WorkerShare ==
  ASSUME TypeOK, NEW w \in Workers, WorkerStep(w), ~D2cResponse(w)
  PROVE  /\ responses' = responses
         /\ \A v \in Workers : ClientHeld'[v] <= ClientHeld[v] /\ DestOwed'[v] <= DestOwed[v]
<1> USE DEF chanVars
<1>0. \A v \in Workers : /\ queue[v] \in Nat /\ counted[v] \in [client : Nat, dest : Nat]
                         /\ ClientHeld[v] <= ClientHeld[v] /\ DestOwed[v] <= DestOwed[v]
  <2>1. \A v \in Workers : queue[v] \in Nat /\ counted[v] \in [client : Nat, dest : Nat]
    BY DEF TypeOK, Counts
  <2> QED
    BY <2>1 DEF ClientHeld, DestOwed, DestHeld, One
<1>1. harvested' = harvested
  BY WorkerFrame DEF outside, historyVars
<1>2. CASE C2dEnter(w) \/ C2dJoin(w) \/ C2dLeave(w) \/ Resp(w) \/ Expire(w)
  <2>1. UNCHANGED <<queue, counted, d2c, responses>>
    BY <1>2 DEF C2dEnter, C2dJoin, C2dRuns, C2dLeave, C2dReturns, Resp, RespStart, RespLeave, Expire
  <2> QED
    BY <1>0, <1>1, <2>1, HeldSame
<1>3. CASE D2cStart(w) \/ D2cDeadline(w) \/ D2cPoll(w) \/ D2cLeave(w)
  <2>1. UNCHANGED <<queue, counted, responses>> /\ d2c'[w] # "handoff"
        /\ \A v \in Workers \ {w} : d2c'[v] = d2c[v]
    BY <1>3 DEF D2cStart, D2cDeadline, D2cPoll, D2cLeave, TypeOK
  <2> QED
    BY <1>0, <1>1, <2>1, HeldSame
<1>4. ASSUME NEW sent \in BOOLEAN, C2dReceive(w, sent)
      PROVE  /\ responses' = responses
             /\ \A v \in Workers : ClientHeld'[v] <= ClientHeld[v] /\ DestOwed'[v] <= DestOwed[v]
  <2>1. /\ queue' = [queue EXCEPT ![w] = @ - 1] /\ queue[w] > 0
        /\ counted' = [counted EXCEPT ![w].client = @ + 1]
        /\ UNCHANGED <<d2c, responses>>
    BY <1>4 DEF C2dReceive
  <2>2. /\ queue'[w] = queue[w] - 1
        /\ counted'[w].client = counted[w].client + 1 /\ counted'[w].dest = counted[w].dest
    BY <1>0, <2>1 DEF TypeOK, Counts
  <2>3. ClientHeld'[w] <= ClientHeld[w] /\ DestOwed'[w] = DestOwed[w]
    BY <1>0, <1>1, <2>1, <2>2 DEF ClientHeld, DestHeld, DestOwed
  <2>4. ASSUME NEW v \in Workers \ {w}
        PROVE  ClientHeld'[v] = ClientHeld[v] /\ DestOwed'[v] = DestOwed[v]
    BY <1>1, <2>1, HeldSame DEF TypeOK
  <2> QED
    BY <1>0, <2>1, <2>3, <2>4
<1>5. CASE Handoff(w)
  <2>1. /\ d2c' = [d2c EXCEPT ![w] = "poll"] /\ d2c[w] = "handoff"
        /\ counted' = [counted EXCEPT ![w].dest = @ + 1]
        /\ UNCHANGED <<queue, responses>>
    BY <1>5 DEF Handoff
  <2>2. /\ counted'[w].client = counted[w].client /\ counted'[w].dest = counted[w].dest + 1
        /\ d2c'[w] = "poll"
    BY <1>0, <2>1 DEF TypeOK, Counts
  <2>3. ClientHeld'[w] = ClientHeld[w]
    BY <1>1, <2>1, <2>2 DEF ClientHeld
  <2>4. DestOwed'[w] <= DestOwed[w]
    BY <1>0, <1>1, <2>1, <2>2 DEF DestHeld, DestOwed, One
  <2>5. ASSUME NEW v \in Workers \ {w}
        PROVE  ClientHeld'[v] = ClientHeld[v] /\ DestOwed'[v] = DestOwed[v]
    BY <1>1, <2>1, HeldSame DEF TypeOK
  <2> QED
    BY <1>0, <2>1, <2>3, <2>4, <2>5
<1> QED
  BY <1>2, <1>3, <1>4, <1>5 DEF WorkerStep, C2d, D2c, D2cRead

\* A step of a worker keeps room for the totals.
LEMMA WorkerCount ==
  ASSUME TypeOK, TypeOK', CountInv, NEW w \in Workers, WorkerStep(w)
  PROVE  CountInv'
<1>1. UNCHANGED <<totals, loaded, packets, reader, harvested>>
  BY WorkerFrame DEF outside, historyVars, muxVars, stopVars, readerVars
<1>2. InReader' = InReader
  BY <1>1 DEF InReader
<1>3. CASE ~D2cResponse(w)
  BY <1>1, <1>2, <1>3, WorkerShare, CountSame
<1>4. CASE D2cResponse(w)
  <2>1. /\ d2c[w] = "read" /\ d2c' = [d2c EXCEPT ![w] = "handoff"] /\ responses' = responses + 1
        /\ UNCHANGED <<queue, counted>>
    BY <1>4 DEF D2cResponse, chanVars
  <2>2. PICK g : g = DestOwed'
    OBVIOUS
  <2>3. g \in [Workers -> Nat] /\ DestOwed \in [Workers -> Nat] /\ Size(DestOwed)' = Size(g)
    BY <2>2, HeldTyped DEF Size, Pile
  <2>4. ASSUME NEW v \in Workers \ {w} PROVE g[v] = DestOwed[v]
    BY <1>1, <2>1, <2>2, <2>4, HeldSame DEF TypeOK
  <2>5. g[w] = DestOwed[w] + 1
    <3>1. counted[w].dest \in Nat /\ d2c'[w] = "handoff"
      BY <2>1 DEF TypeOK, Counts
    <3> QED
      BY <1>1, <2>1, <2>2, <3>1 DEF DestOwed, DestHeld, One
  <2>6. /\ Size(DestOwed) \in Nat /\ Size(g) \in Nat
        /\ Size(g) + DestOwed[w] <= Size(DestOwed) + g[w]
    <3>1. \A v \in Workers \ {w} : g[v] <= DestOwed[v]
      BY <2>3, <2>4
    <3> QED
      BY <2>3, <3>1, PileChange
  <2>7. responses \in Nat /\ packets \in Nat /\ InReader \in Nat /\ DestOwed[w] \in Nat
    BY <2>3, MuxAssumption DEF TypeOK, InReader, One
  <2>8. Size(DestOwed)' + responses <= Size(DestOwed) + responses'
    BY <2>1, <2>3, <2>5, <2>6, <2>7
  <2>9. Size(ClientHeld)' = Size(ClientHeld) /\ Size(ClientHeld) \in Nat
    <3>1. ClientHeld' = ClientHeld
      BY <1>1, <2>1 DEF ClientHeld
    <3>2. Size(ClientHeld)' = Size(ClientHeld)
      BY <3>1 DEF Size, Pile
    <3>3. Size(ClientHeld) \in Nat
      BY HeldTyped, PileNat
    <3> QED
      BY <3>2, <3>3
  <2> QED
    BY <1>1, <1>2, <2>7, <2>8, <2>9, CountKept
<1> QED
  BY <1>3, <1>4

\* The stoppers load the totals or leave them, but for the addition.
LEMMA StopCount ==
  ASSUME TypeOK, TypeOK', CountInv, StopStep, \A s \in Stoppers : ~StoreTotals(s),
         \A w \in Workers : d2c'[w] = d2c[w] \/ d2c'[w] = "leaving"
  PROVE  CountInv'
<1>1. UNCHANGED <<packets, reader, responses, queue, counted>>
  BY StopFrame DEF readerVars
<1>2. /\ totals' = totals /\ harvested' = harvested
      /\ \A s \in Stoppers : loaded'[s] \in {loaded[s], totals, Zero}
  <2>1. CASE GcCollect \/ ShutdownMux \/ Report
    BY <2>1 DEF GcCollect, Collect, ShutdownMux, BeginShutdown, Report, muxVars, workerVars,
       historyVars
  <2>2. ASSUME NEW s \in Stoppers, LoadTotals(s)
        PROVE  /\ totals' = totals /\ harvested' = harvested
               /\ \A r \in Stoppers : loaded'[r] \in {loaded[r], totals, Zero}
    BY <2>2 DEF LoadTotals, muxVars, workerVars, historyVars, TypeOK
  <2>3. ASSUME NEW s \in Stoppers,
               CloseChannel(s) \/ Signal(s) \/ Wait(s) \/ StopperDone(s)
                 \/ \E w \in Workers : TakeChannel(s, w)
        PROVE  UNCHANGED <<totals, harvested, loaded>>
    BY <2>3 DEF CloseChannel, Signal, Wait, StopperDone, TakeChannel, muxVars, workerVars,
       historyVars
  <2> QED
    BY <2>1, <2>2, <2>3 DEF StopStep, Stopper
<1>3. InReader' = InReader
  BY <1>1 DEF InReader
<1>4. ASSUME NEW w \in Workers
      PROVE  ClientHeld'[w] <= ClientHeld[w] /\ DestOwed'[w] <= DestOwed[w]
  <2>1. /\ ClientHeld'[w] = ClientHeld[w]
        /\ DestOwed'[w] = DestOwed[w] \/ DestOwed'[w] <= DestOwed[w]
    BY <1>1, <1>2, HeldSame
  <2>2. ClientHeld[w] \in Nat /\ DestOwed[w] \in Nat
    BY HeldTyped
  <2> QED
    BY <2>1, <2>2
<1> QED
  BY <1>1, <1>2, <1>3, <1>4, CountSame

\* An addition puts in what the worker's pile loses.
LEMMA StoreCount ==
  ASSUME TypeOK, TypeOK', StopInv, CountInv, NEW s \in Stoppers, StoreTotals(s)
  PROVE  CountInv'
<1> DEFINE w == target[s]
<1>1. w \in Workers /\ harvested[w] = 0
  <2>1. pc[s] \in Stopping
    BY DEF StoreTotals, AddTotals, Stopping
  <2> QED
    BY <2>1, InHand
<1>2. /\ totals' = Plus(loaded[s], counted[w])
      /\ harvested' = [harvested EXCEPT ![w] = @ + 1]
      /\ loaded' = [loaded EXCEPT ![s] = Zero]
      /\ UNCHANGED <<reader, packets, responses, queue, counted, d2c>>
  BY DEF StoreTotals, AddTotals, readerVars, chanVars, goVars
<1> HIDE DEF w
<1>3. PICK f, g : f = ClientHeld' /\ g = DestOwed'
  OBVIOUS
<1>4. /\ f \in [Workers -> Nat] /\ g \in [Workers -> Nat]
      /\ ClientHeld \in [Workers -> Nat] /\ DestOwed \in [Workers -> Nat]
      /\ Size(ClientHeld)' = Size(f) /\ Size(DestOwed)' = Size(g)
  BY <1>3, HeldTyped DEF Size, Pile
<1>5. /\ counted[w].client \in Nat /\ counted[w].dest \in Nat /\ queue[w] \in Nat
      /\ harvested'[w] = 1
  BY <1>1, <1>2 DEF TypeOK, Counts
<1>6. ClientHeld[w] = f[w] + counted[w].client /\ DestOwed[w] = g[w] + counted[w].dest
  <2>1. ClientHeld[w] = f[w] + counted[w].client
    BY <1>1, <1>2, <1>3, <1>5 DEF ClientHeld
  <2>2. DestOwed[w] = g[w] + counted[w].dest
    BY <1>1, <1>2, <1>3, <1>5 DEF DestOwed, DestHeld, One
  <2> QED
    BY <2>1, <2>2
<1>7. ASSUME NEW v \in Workers \ {w} PROVE f[v] = ClientHeld[v] /\ g[v] = DestOwed[v]
  BY <1>2, <1>3, <1>7, HeldSame DEF TypeOK
<1>8. /\ Size(ClientHeld) \in Nat /\ Size(f) \in Nat
      /\ Size(f) + ClientHeld[w] <= Size(ClientHeld) + f[w]
      /\ Size(DestOwed) \in Nat /\ Size(g) \in Nat
      /\ Size(g) + DestOwed[w] <= Size(DestOwed) + g[w]
  <2>1. \A v \in Workers \ {w} : f[v] <= ClientHeld[v] /\ g[v] <= DestOwed[v]
    BY <1>4, <1>7
  <2> QED
    BY <1>1, <1>4, <2>1, PileChange
<1>9. /\ Size(f) + counted[w].client <= Size(ClientHeld)
      /\ Size(g) + counted[w].dest <= Size(DestOwed)
  <2>1. f[w] \in Nat /\ g[w] \in Nat
    BY <1>1, <1>4
  <2> QED
    BY <1>5, <1>6, <1>8, <2>1
<1>10. /\ packets \in Nat /\ responses \in Nat /\ InReader \in Nat /\ InReader' = InReader
  BY <1>2, MuxAssumption DEF TypeOK, InReader, One
<1>11. ASSUME NEW t \in Counts, Within(t)
       PROVE  /\ t.client + counted[w].client + Size(f) + InReader <= packets
              /\ t.dest + counted[w].dest + Size(g) <= responses
              /\ t.client + Size(f) + InReader <= packets
              /\ t.dest + Size(g) <= responses
  <2>1. t.client \in Nat /\ t.dest \in Nat
    BY DEF Counts
  <2> QED
    BY <1>5, <1>8, <1>9, <1>10, <1>11, <2>1 DEF Within
<1>12. Within(totals)'
  <2>1. /\ totals'.client = loaded[s].client + counted[w].client
        /\ totals'.dest = loaded[s].dest + counted[w].dest
    BY <1>2 DEF Plus
  <2>2. loaded[s] \in Counts /\ Within(loaded[s])
    BY DEF TypeOK, CountInv
  <2> QED
    BY <1>2, <1>4, <1>10, <1>11, <2>1, <2>2 DEF Within
<1>13. ASSUME NEW r \in Stoppers PROVE Within(loaded[r])'
  <2>1. CASE r = s
    <3>1. loaded'[r] = Zero
      BY <1>2, <2>1 DEF TypeOK
    <3>2. totals \in Counts /\ Within(totals)
      BY DEF TypeOK, CountInv
    <3>3. totals.client \in Nat /\ totals.dest \in Nat /\ Zero.client = 0 /\ Zero.dest = 0
      BY <3>2 DEF Counts, Zero
    <3>4. 0 + Size(f) + InReader <= packets /\ 0 + Size(g) <= responses
      BY <1>8, <1>10, <1>11, <3>2, <3>3
    <3> QED
      BY <1>2, <1>4, <1>10, <3>1, <3>3, <3>4 DEF Within
  <2>2. CASE r # s
    <3>1. loaded'[r] = loaded[r] /\ loaded[r] \in Counts /\ Within(loaded[r])
      BY <1>2, <2>2 DEF TypeOK, CountInv
    <3> QED
      BY <1>2, <1>4, <1>10, <1>11, <3>1 DEF Within
  <2> QED
    BY <2>1, <2>2
<1> QED
  BY <1>12, <1>13 DEF CountInv

-----------------------------------------------------------------------------
(* The meetings on unbuffered channels. *)

\* Whoever waits for another goroutine to take its value on shutdownChan or on
\* w.responses waits for one that is still there.
PartnersAlive ==
  /\ \A s \in Stoppers :
       pc[s] = "signal" => d2c[target[s]] \in {"spawned", "read", "handoff", "poll"}
  /\ \A w \in Workers : d2c[w] = "handoff" => resp[w] \in {"spawned", "running"}

\* A response reader that leaves has met a stopper, which then has its worker in
\* hand or has added its counters.
Met(w) == \E s \in Stoppers : target[s] = w /\ pc[s] \in {"wait", "load", "store"}
PartnerInv ==
  \A w \in Workers :
    /\ resp[w] = "done" => d2c[w] = "done"
    /\ d2c[w] \in {"leaving", "done"} => harvested[w] # 0 \/ Met(w)

\* The goroutines of a worker end in the order of their meetings.
LEMMA WorkerPartners ==
  ASSUME TypeOK, PartnerInv, NEW w \in Workers, WorkerStep(w)
  PROVE  PartnerInv'
<1>1. UNCHANGED <<pc, target, harvested>>
  BY WorkerFrame DEF outside, historyVars, stopVars
<1>2. \A v \in Workers : /\ d2c'[v] \in {"leaving", "done"} => d2c[v] \in {"leaving", "done"}
                         /\ d2c[v] = "done" => d2c'[v] = "done"
                         /\ resp'[v] = "done" => resp[v] = "done" \/ d2c[v] = "done"
  <2>1. CASE C2d(w) \/ Expire(w)
    BY <2>1 DEF C2d, C2dEnter, C2dJoin, C2dRuns, C2dLeave, C2dReturns, C2dReceive, Expire
  <2>2. CASE D2c(w)
    BY <2>2 DEF D2c, D2cStart, D2cRead, D2cResponse, D2cDeadline, Handoff, D2cPoll, D2cLeave, TypeOK
  <2>3. CASE Resp(w)
    BY <2>3 DEF Resp, RespStart, RespLeave, TypeOK
  <2> QED
    BY <2>1, <2>2, <2>3 DEF WorkerStep
<1> QED
  BY <1>1, <1>2 DEF PartnerInv, Met

\* A stopper lets go of a worker only when it has added its counters.
LEMMA StopPartners ==
  ASSUME TypeOK, StopInv, PartnerInv, StopStep
  PROVE  PartnerInv'
<1>0. resp' = resp
  BY StopFrame
<1>1. ASSUME NEW s \in Stoppers, Signal(s) PROVE PartnerInv'
  <2>1. /\ d2c[target[s]] = "poll" /\ d2c' = [d2c EXCEPT ![target[s]] = "leaving"]
        /\ pc[s] = "signal" /\ pc' = [pc EXCEPT ![s] = "wait"] /\ UNCHANGED <<target, harvested>>
    BY <1>1 DEF Signal, Goto, historyVars
  <2>2. ASSUME NEW w \in Workers
        PROVE  /\ resp'[w] = "done" => d2c'[w] = "done"
               /\ d2c'[w] \in {"leaving", "done"} => harvested'[w] # 0 \/ Met(w)'
    <3>1. Met(w) => Met(w)'
      BY <2>1 DEF Met, TypeOK
    <3>2. CASE w = target[s]
      <4>1. Met(w)'
        BY <2>1, <3>2 DEF Met, TypeOK
      <4> QED
        BY <1>0, <2>1, <3>2, <4>1 DEF PartnerInv
    <3>3. CASE w # target[s]
      BY <1>0, <2>1, <3>1, <3>3 DEF PartnerInv, TypeOK
    <3> QED
      BY <3>2, <3>3
  <2> QED
    BY <2>2 DEF PartnerInv
<1>2. ASSUME NEW s \in Stoppers, StoreTotals(s) PROVE PartnerInv'
  <2>1. /\ harvested' = [harvested EXCEPT ![target[s]] = @ + 1] /\ d2c' = d2c
        /\ target' = [target EXCEPT ![s] = NoWorker] /\ pc' = [pc EXCEPT ![s] = "next"]
        /\ pc[s] = "store"
    BY <1>2 DEF StoreTotals, AddTotals, Goto, goVars
  <2>2. ASSUME NEW w \in Workers
        PROVE  harvested[w] # 0 \/ Met(w) => harvested'[w] # 0 \/ Met(w)'
    <3>1. harvested[w] \in Nat
      BY DEF TypeOK
    <3>2. CASE w = target[s]
      BY <2>1, <3>1, <3>2 DEF TypeOK
    <3>3. CASE w # target[s]
      BY <2>1, <3>3 DEF Met, TypeOK
    <3> QED
      BY <3>2, <3>3
  <2> QED
    BY <1>0, <2>1, <2>2 DEF PartnerInv
<1>3. CASE \A s \in Stoppers : ~Signal(s) /\ ~StoreTotals(s)
  <2>1. UNCHANGED <<d2c, harvested>>
    BY <1>3 DEF StopStep, GcCollect, Collect, ShutdownMux, BeginShutdown, Report, Stopper,
       TakeChannel, CloseChannel, Wait, LoadTotals, StopperDone, workerVars, historyVars, goVars
  <2>2. \A s \in Stoppers : pc[s] \in {"wait", "load", "store"} =>
          pc'[s] \in {"wait", "load", "store"} /\ target'[s] = target[s]
    BY <1>3 DEF StopStep, GcCollect, Collect, ShutdownMux, BeginShutdown, Report, Stopper,
       TakeChannel, CloseChannel, Wait, LoadTotals, StopperDone, Goto, TypeOK
  <2>3. \A w \in Workers : Met(w) => Met(w)'
    BY <2>2 DEF Met
  <2> QED
    BY <1>0, <2>1, <2>3 DEF PartnerInv
<1> QED
  BY <1>1, <1>2, <1>3

-----------------------------------------------------------------------------
(* The invariant. *)

LEMMA InitOK == Init => IInv
<1> SUFFICES ASSUME Init PROVE IInv
  OBVIOUS
<1>1. Zero \in Counts
  BY DEF Zero, Counts
<1>2. 0 \notin Workers /\ \A w \in Workers : w > 0
  BY MuxAssumption DEF Workers
<1>3. \A w \in Workers : ~InMap(w)
  BY <1>2 DEF Init, InMap, NoWorker
<1>4. TypeOK
  <2>1. /\ workers \in [Peers -> Workers \cup {NoWorker}] /\ packets \in 0..MaxPackets
        /\ gcRuns \in 0..MaxGC /\ created \in 0..MaxWorkers /\ responses \in 0..MaxResponses
        /\ queue \in [Workers -> 0..ChanCap] /\ wg \in [Workers -> 0..3]
        /\ harvested \in [Workers -> Nat]
    BY MuxAssumption DEF Init
  <2>2. /\ lock \in {"free", "handler"} /\ muxDone \in BOOLEAN /\ totals \in Counts
        /\ reader \in {"read", "get", "dispatch", "bug", "send", "stuck", "check", "exited"}
        /\ at \in Workers \cup {NoWorker} /\ from \in Peers \cup {NoPeer}
        /\ cleanup \subseteq Workers /\ reported \in Counts
        /\ late \subseteq Workers /\ overlapped \in BOOLEAN
        /\ panic \in {"none", "send_on_closed_channel", "bad_close"}
    BY <1>1 DEF Init
  <2>3. /\ pc \in [Stoppers -> StopperLabels]
        /\ target \in [Stoppers -> Workers \cup {NoWorker}]
        /\ taken \in [Stoppers -> {"chan", "nil"}] /\ loaded \in [Stoppers -> Counts]
    BY <1>1 DEF Init, StopperLabels
  <2>4. /\ incoming \in [Workers -> {"chan", "nil"}] /\ chanClosed \in [Workers -> BOOLEAN]
        /\ c2d \in [Workers -> {"none", "spawned", "entered", "entered_nil", "running", "deaf",
                               "done"}]
        /\ d2c \in [Workers -> {"none", "spawned", "read", "handoff", "poll", "leaving", "done"}]
        /\ resp \in [Workers -> {"none", "spawned", "running", "done"}]
        /\ counted \in [Workers -> Counts] /\ stale \in [Workers -> BOOLEAN]
    BY <1>1 DEF Init
  <2> QED
    BY <2>1, <2>2, <2>3, <2>4 DEF TypeOK
<1>5. GoInv
  BY <1>2 DEF Init, GoInv, Go, One, C2dIn, D2cIn, RespIn
<1>6. ReaderInv /\ OrphanInv
  BY DEF Init, ReaderInv, OrphanInv, Stoppers
<1>7. StopInv
  <2>1. LockInv /\ \A s \in Stoppers : TargetInv(s)
    BY DEF Init, LockInv, TargetInv, Stopping, Stoppers
  <2>2. \A w \in Workers : PlaceInv(w)
    BY <1>2, <1>3 DEF Init, PlaceInv, Stoppers, NoWorker
  <2> QED
    BY <2>1, <2>2 DEF StopInv
<1> QED
  BY <1>4, <1>5, <1>6, <1>7 DEF IInv

LEMMA StepOK == IInv /\ [Next]_vars => IInv'
<1> SUFFICES ASSUME IInv, [Next]_vars PROVE IInv'
  OBVIOUS
<1>1. CASE Next
  <2>1. panic = "none"
    BY <1>1 DEF Next, Alive
  <2>2. ReaderMoves \/ GetNew \/ StopStep \/ \E w \in Workers : WorkerStep(w)
    BY <1>1 DEF Next, Reader, ReaderMoves, StopStep, WorkerStep
  <2> QED
    BY <2>1, <2>2, ReaderOK, CreateOK, StopOK, WorkerOK
<1>2. CASE UNCHANGED vars
  <2>1. /\ UNCHANGED <<outside, incoming, chanClosed, queue, wg, c2d, d2c, resp, responses,
                       counted, stale>>
    BY <1>2 DEF vars, workerVars, historyVars, outside, chanVars, goVars
  <2>2. UNCHANGED <<workers, lock, muxDone, totals, reader, at, from, packets, pc, target, taken,
                    loaded, cleanup, gcRuns, reported, created, harvested, late, overlapped, panic>>
    BY <2>1 DEF outside, historyVars, muxVars, readerVars, stopVars
  <2>3. TypeOK' /\ ReaderInv'
    BY <2>1, <2>2 DEF IInv, TypeOK, ReaderInv
  <2>4. GoInv'
    BY <2>1, <2>2 DEF IInv, GoInv, Go, C2dIn, D2cIn, RespIn
  <2>5. StopInv' /\ OrphanInv'
    BY <2>1, <2>2 DEF IInv, StopInv, LockInv, TargetInv, PlaceInv, Untouched, InMap, OrphanInv
  <2> QED
    BY <2>3, <2>4, <2>5 DEF IInv
<1> QED
  BY <1>1, <1>2

LEMMA Invariance == Spec => []IInv
<1>1. IInv /\ [Next]_vars => IInv'
  BY StepOK
<1> QED
  BY InitOK, <1>1, PTL DEF Spec

-----------------------------------------------------------------------------
\* Every variable keeps to its values.
THEOREM Types == Spec => []TypeOK
<1>1. IInv => TypeOK
  BY DEF IInv
<1> QED
  BY Invariance, <1>1, PTL

\* For any number of workers, the collector and the signal handler never both shut
\* one down: no channel is closed twice, no counters are added twice.
THEOREM ShutDownAtMostOnce == Spec => []ShutDownOnce
<1>1. IInv => ShutDownOnce
  BY DEF IInv, StopInv, LockInv, PlaceInv, ShutDownOnce
<1> QED
  BY Invariance, <1>1, PTL

\* A worker in the map that the handler is not shutting down takes datagrams.
THEOREM MapStaysLive == Spec => []MapIsLive
<1>1. IInv => MapIsLive
  BY DEF IInv, StopInv, PlaceInv, Untouched, MapIsLive
<1> QED
  BY Invariance, <1>1, PTL

\* How many of three statements hold.
LEMMA HowMany ==
  ASSUME NEW a \in BOOLEAN, NEW b \in BOOLEAN, NEW c \in BOOLEAN
  PROVE  Cardinality({g \in 1..3 : <<a, b, c>>[g]}) = One(a) + One(b) + One(c)
<1> DEFINE A == IF a THEN {1} ELSE {}
           B == IF b THEN A \cup {2} ELSE A
           C == IF c THEN B \cup {3} ELSE B
<1>1. {g \in 1..3 : <<a, b, c>>[g]} = C
  OBVIOUS
<1>2. IsFiniteSet(A) /\ Cardinality(A) = One(a)
  <2>1. IsFiniteSet({}) /\ Cardinality({}) = 0
    BY FS_EmptySet
  <2>2. IsFiniteSet({} \cup {1}) /\ Cardinality({} \cup {1}) = 0 + 1
    BY <2>1, FS_AddElement
  <2>3. {} \cup {1} = {1}
    OBVIOUS
  <2> QED
    BY <2>1, <2>2, <2>3 DEF One
<1>3. A \subseteq {1}
  OBVIOUS
<1> HIDE DEF A
<1>4. IsFiniteSet(B) /\ Cardinality(B) = One(a) + One(b)
  <2>1. IsFiniteSet(A \cup {2}) /\ Cardinality(A \cup {2}) = Cardinality(A) + 1
    BY <1>2, <1>3, FS_AddElement
  <2> QED
    BY <1>2, <2>1 DEF One
<1>5. B \subseteq {1, 2}
  BY <1>3
<1> HIDE DEF B
<1>6. Cardinality(C) = One(a) + One(b) + One(c)
  <2>1. Cardinality(B \cup {3}) = Cardinality(B) + 1
    BY <1>4, <1>5, FS_AddElement
  <2> QED
    BY <1>4, <2>1 DEF One
<1> QED
  BY <1>1, <1>6

\* The wait group counts exactly the goroutines that joined and have not left.
THEOREM WaitGroupCounts == Spec => []WaitGroupExact
<1>1. IInv => WaitGroupExact
  <2> SUFFICES ASSUME IInv, NEW w \in Workers
               PROVE  wg[w] = Cardinality({g \in 1..3 : <<c2d[w] \in {"running", "deaf"},
                                d2c[w] \in {"read", "handoff", "poll", "leaving"},
                                resp[w] = "running">>[g]})
    BY DEF WaitGroupExact
  <2>1. wg[w] = One(C2dIn(w)) + One(D2cIn(w)) + One(RespIn(w))
    BY DEF IInv, GoInv, Go
  <2>2. C2dIn(w) \in BOOLEAN /\ D2cIn(w) \in BOOLEAN /\ RespIn(w) \in BOOLEAN
    BY DEF C2dIn, D2cIn, RespIn
  <2>3. Cardinality({g \in 1..3 : <<C2dIn(w), D2cIn(w), RespIn(w)>>[g]}) = wg[w]
    BY <2>1, <2>2, HowMany
  <2> QED
    BY <2>3, Zenon DEF C2dIn, D2cIn, RespIn
<1> QED
  BY Invariance, <1>1, PTL

\* What Wait has waited for.
LEMMA WaitDrained ==
  ASSUME IInv, NEW s \in Stoppers, Wait(s)
  PROVE  LET w == target[s] IN
         /\ w \in Workers
         /\ c2d[w] = "done" => queue[w] = 0
         /\ c2d[w] \in {"done", "spawned", "entered", "entered_nil"}
         /\ d2c[w] = "done" /\ resp[w] \in {"done", "spawned"}
<1> DEFINE w == target[s]
<1>1. /\ w \in Workers /\ w <= created /\ wg[w] = 0
      /\ d2c[w] \in {"leaving", "done"}
  <2>1. pc[s] = "wait" /\ wg[w] = 0 /\ TargetInv(s)
    BY DEF Wait, IInv, StopInv
  <2> QED
    BY <2>1, InHand DEF IInv, TargetInv, Stopping
<1>2. Go(w) /\ ~C2dIn(w) /\ ~D2cIn(w) /\ ~RespIn(w)
  BY <1>1, NobodyIn DEF IInv, GoInv
<1>3. ~(w > created)
  BY <1>1, MuxAssumption DEF IInv, TypeOK, Workers
<1>4. c2d[w] # "none" /\ resp[w] # "none"
  BY <1>1, <1>2, <1>3 DEF Go
<1> QED
  BY <1>1, <1>2, <1>4 DEF IInv, TypeOK, Go, C2dIn, D2cIn, RespIn

\* wg.Wait returns when what was dispatched has been drained and the response
\* reader is done; only goroutines that had not yet joined can be missed.
THEOREM WaitMeansDrained == Spec => WaitDrains
<1>1. IInv /\ [Next]_vars =>
        [\A s \in Stoppers : Wait(s) =>
           LET w == target[s] IN
           /\ c2d[w] = "done" => queue[w] = 0
           /\ c2d[w] \in {"done", "spawned", "entered", "entered_nil"}
           /\ d2c[w] = "done" /\ resp[w] \in {"done", "spawned"}]_vars
  BY WaitDrained
<1> QED
  BY Invariance, <1>1, PTL DEF Spec, WaitDrains

\* Nothing is counted at the start.
LEMMA CountInit == Init => CountInv
<1> SUFFICES ASSUME Init PROVE CountInv
  OBVIOUS
<1>1. \A w \in Workers : ClientHeld[w] = 0 /\ DestOwed[w] = 0
  <2> SUFFICES ASSUME NEW w \in Workers PROVE ClientHeld[w] = 0 /\ DestOwed[w] = 0
    OBVIOUS
  <2>1. /\ queue[w] = 0 /\ harvested[w] = 0 /\ d2c[w] = "none"
        /\ counted[w].client = 0 /\ counted[w].dest = 0
    BY DEF Init, Zero
  <2> QED
    BY <2>1 DEF ClientHeld, DestHeld, DestOwed, One
<1>2. Size(ClientHeld) = 0 /\ Size(DestOwed) = 0
  BY <1>1, EmptyPile
<1>3. InReader = 0
  BY DEF Init, InReader, One
<1>4. Within(Zero)
  BY <1>2, <1>3 DEF Within, Init, Zero
<1>5. totals = Zero /\ \A s \in Stoppers : loaded[s] = Zero
  BY DEF Init
<1> QED
  BY <1>4, <1>5 DEF CountInv, Within

\* Every step keeps room for the totals.
LEMMA CountStep == IInv /\ IInv' /\ CountInv /\ [Next]_vars => CountInv'
<1> SUFFICES ASSUME IInv, IInv', CountInv, [Next]_vars PROVE CountInv'
  OBVIOUS
<1>0. TypeOK /\ TypeOK' /\ StopInv
  BY DEF IInv
<1>1. CASE Next
  <2>1. ReaderMoves \/ GetNew \/ StopStep \/ \E w \in Workers : WorkerStep(w)
    BY <1>1 DEF Next, Reader, ReaderMoves, StopStep, WorkerStep
  <2>2. CASE StopStep /\ \A s \in Stoppers : ~StoreTotals(s)
    <3>1. \A w \in Workers : d2c'[w] = d2c[w] \/ d2c'[w] = "leaving"
      BY <1>0, <2>2, StopForGood
    <3> QED
      BY <1>0, <2>2, <3>1, StopCount
  <2> QED
    BY <1>0, <2>1, <2>2, ReaderCount, CreateCount, WorkerCount, StoreCount
<1>2. CASE UNCHANGED vars
  <2>1. UNCHANGED <<totals, loaded, packets, responses, reader, queue, harvested, counted, d2c>>
    BY <1>2 DEF vars, muxVars, readerVars, stopVars, workerVars, historyVars, chanVars, goVars
  <2>2. ClientHeld' = ClientHeld /\ DestOwed' = DestOwed /\ InReader' = InReader
    BY <2>1 DEF ClientHeld, DestHeld, DestOwed, InReader
  <2>3. Size(ClientHeld)' = Size(ClientHeld) /\ Size(DestOwed)' = Size(DestOwed)
    BY <2>2 DEF Size, Pile
  <2> QED
    BY <2>1, <2>2, <2>3 DEF CountInv, Within
<1> QED
  BY <1>1, <1>2

\* For any number of workers, what the mux reports is never more than was read:
\* an addition of one stopper can overwrite one of the other's, never double it.
THEOREM NeverOvercounted == Spec => []NoOvercount
<1>1. IInv /\ CountInv => NoOvercount
  <2> SUFFICES ASSUME IInv, CountInv PROVE NoOvercount
    OBVIOUS
  <2>1. TypeOK
    BY DEF IInv
  <2>2. /\ ClientHeld \in [Workers -> Nat] /\ DestHeld \in [Workers -> Nat]
        /\ DestOwed \in [Workers -> Nat] /\ \A w \in Workers : DestHeld[w] <= DestOwed[w]
    <3>1. ASSUME NEW w \in Workers
          PROVE  queue[w] \in Nat /\ counted[w].client \in Nat /\ counted[w].dest \in Nat
      BY <2>1 DEF TypeOK, Counts
    <3>2. ClientHeld \in [Workers -> Nat]
      BY <3>1 DEF ClientHeld
    <3>3. DestHeld \in [Workers -> Nat]
      BY <3>1 DEF DestHeld
    <3>4. \A w \in Workers : DestOwed[w] \in Nat /\ DestHeld[w] <= DestOwed[w]
      BY <3>3 DEF DestOwed, One
    <3> QED
      BY <3>2, <3>3, <3>4 DEF DestOwed
  <2>3. Size(ClientHeld) \in Nat
    BY <2>2, PileNat
  <2>4. Size(DestHeld) \in Nat /\ Size(DestOwed) \in Nat /\ Size(DestHeld) <= Size(DestOwed)
    BY <2>2, PileLess
  <2>5. /\ packets \in Nat /\ responses \in Nat /\ InReader \in Nat
        /\ totals.client \in Nat /\ totals.dest \in Nat
    BY <2>1, MuxAssumption DEF TypeOK, Counts, InReader, One
  <2> QED
    BY <2>3, <2>4, <2>5 DEF CountInv, Within, NoOvercount, Size
<1>2. IInv /\ IInv' /\ CountInv /\ [Next]_vars => CountInv'
  BY CountStep
<1> QED
  BY Invariance, CountInit, <1>1, <1>2, PTL DEF Spec

\* Shutdown leaves one worker behind at most, however many there were.
THEOREM OneOrphanAtMost == Spec => []AtMostOneOrphan
<1>1. IInv => AtMostOneOrphan
  <2> SUFFICES ASSUME IInv, pc["handler"] \in {"report", "done"}
               PROVE  Cardinality({w \in Workers : InMap(w)}) <= 1
    BY DEF AtMostOneOrphan
  <2> DEFINE S == {w \in Workers : InMap(w)}
  <2>1. \A v, w \in S : v = w
    BY DEF IInv, OrphanInv
  <2>2. CASE S = {}
    BY <2>2, FS_EmptySet
  <2>3. CASE S # {}
    <3>1. PICK w : w \in S
      BY <2>3
    <3>2. S = {w}
      BY <2>1, <3>1
    <3>3. Cardinality({w}) = 1
      BY FS_Singleton
    <3>4. Cardinality(S) = 1
      BY <3>2, <3>3
    <3> QED
      BY <3>4
  <2> QED
    BY <2>2, <2>3
<1> QED
  BY Invariance, <1>1, PTL

\* Every step keeps partners where they are waited for.
LEMMA PartnerStep == IInv /\ PartnerInv /\ [Next]_vars => PartnerInv'
<1> SUFFICES ASSUME IInv, PartnerInv, [Next]_vars PROVE PartnerInv'
  OBVIOUS
<1>0. TypeOK /\ GoInv /\ StopInv
  BY DEF IInv
<1>1. CASE Next
  <2>1. ReaderMoves \/ GetNew \/ StopStep \/ \E w \in Workers : WorkerStep(w)
    BY <1>1 DEF Next, Reader, ReaderMoves, StopStep, WorkerStep
  <2>2. CASE ReaderMoves
    BY <2>2, ReaderFrame DEF PartnerInv, Met, stopVars, goVars
  <2>3. CASE GetNew
    <3>1. /\ d2c' = [d2c EXCEPT ![created + 1] = "spawned"] /\ created \in Nat
          /\ UNCHANGED <<resp, harvested, pc, target>>
      BY <1>0, <2>3, MuxAssumption DEF GetNew, stopVars, historyVars, TypeOK
    <3>2. ASSUME NEW w \in Workers, w = created + 1 PROVE resp[w] = "none"
      <4>1. w > created
        BY <3>1, <3>2
      <4> QED
        BY <1>0, <4>1 DEF GoInv, Go
    <3>3. ASSUME NEW w \in Workers
          PROVE  /\ resp'[w] = "done" => d2c'[w] = "done"
                 /\ d2c'[w] \in {"leaving", "done"} => harvested'[w] # 0 \/ Met(w)'
      <4>1. Met(w)' <=> Met(w)
        BY <3>1 DEF Met
      <4>2. CASE w = created + 1
        BY <1>0, <3>1, <3>2, <4>2 DEF TypeOK
      <4>3. CASE w # created + 1
        BY <1>0, <3>1, <4>1, <4>3 DEF PartnerInv, TypeOK
      <4> QED
        BY <4>2, <4>3
    <3> QED
      BY <3>3 DEF PartnerInv
  <2> QED
    BY <1>0, <2>1, <2>2, <2>3, StopPartners, WorkerPartners
<1>2. CASE UNCHANGED vars
  BY <1>2 DEF vars, stopVars, workerVars, historyVars, goVars, PartnerInv, Met
<1> QED
  BY <1>1, <1>2

\* No stopper waits on shutdownChan for a response reader that has gone, and no
\* response reader on w.responses for a pump that has: each is left by one
\* meeting only, and every worker is in the hands of one stopper at most.
THEOREM PartnersStayAlive == Spec => []PartnersAlive
<1>1. Init => PartnerInv
  BY DEF Init, PartnerInv
<1>2. IInv /\ PartnerInv /\ [Next]_vars => PartnerInv'
  BY PartnerStep
<1>3. IInv /\ PartnerInv => PartnersAlive
  <2> SUFFICES ASSUME IInv, PartnerInv PROVE PartnersAlive
    OBVIOUS
  <2>0. TypeOK /\ GoInv /\ StopInv
    BY DEF IInv
  <2>1. ASSUME NEW s \in Stoppers, pc[s] = "signal"
        PROVE  d2c[target[s]] \in {"spawned", "read", "handoff", "poll"}
    <3>1. /\ target[s] \in Workers /\ target[s] <= created /\ harvested[target[s]] = 0
          /\ \A r \in Stoppers \ {s} : target[r] # target[s]
      BY <2>0, <2>1, InHand DEF Stopping
    <3>2. ~Met(target[s])
      BY <2>1, <3>1 DEF Met
    <3>3. d2c[target[s]] \notin {"leaving", "done"}
      BY <3>1, <3>2 DEF PartnerInv
    <3>4. ~(target[s] > created)
      BY <2>0, <3>1, MuxAssumption DEF TypeOK, Workers
    <3>5. d2c[target[s]] # "none"
      BY <2>0, <3>1, <3>4 DEF GoInv, Go
    <3> QED
      BY <2>0, <3>1, <3>3, <3>5 DEF TypeOK
  <2>2. ASSUME NEW w \in Workers, d2c[w] = "handoff" PROVE resp[w] \in {"spawned", "running"}
    <3>1. resp[w] # "done" /\ resp[w] # "none"
      BY <2>0, <2>2 DEF PartnerInv, GoInv, Go
    <3> QED
      BY <2>0, <3>1 DEF TypeOK
  <2> QED
    BY <2>1, <2>2 DEF PartnersAlive
<1> QED
  BY Invariance, <1>1, <1>2, <1>3, PTL DEF Spec

-----------------------------------------------------------------------------
(* What the totals may miss. *)

\* A worker whose counters a stopper loads or has added has no goroutine left to
\* change them, but a pump that had not joined in time.
Past(w) == harvested[w] # 0 \/ \E s \in Stoppers : target[s] = w /\ pc[s] \in {"load", "store"}
SettledInv ==
  \A w \in Workers : Past(w) => d2c[w] = "done" /\ (w \in late \/ c2d[w] = "done")

\* As long as no additions have overlapped, what a stopper loaded is still what
\* the totals are, and these have all that was harvested.
CompleteInv ==
  ~overlapped =>
    /\ \A s \in Stoppers : pc[s] = "store" => loaded[s] = totals
    /\ Size(ClientHarvested) <= totals.client /\ Size(DestHarvested) <= totals.dest

\* The goroutines of a worker that is done stay done.
LEMMA WorkerSettled ==
  ASSUME TypeOK, SettledInv, NEW w \in Workers, WorkerStep(w)
  PROVE  /\ SettledInv'
         /\ \A v \in Workers : /\ ClientHarvested'[v] = ClientHarvested[v]
                               /\ DestHarvested'[v] = DestHarvested[v]
<1>1. UNCHANGED <<pc, target, harvested, late>>
  BY WorkerFrame DEF outside, stopVars, historyVars
<1>2. \A v \in Workers :
        /\ d2c[v] = "done" => d2c'[v] = "done" /\ counted'[v].dest = counted[v].dest
        /\ c2d[v] = "done" => c2d'[v] = "done" /\ counted'[v].client = counted[v].client
  <2>1. CASE C2dEnter(w) \/ C2dJoin(w) \/ C2dLeave(w) \/ Expire(w) \/ Resp(w)
    BY <2>1 DEF C2dEnter, C2dJoin, C2dRuns, C2dLeave, C2dReturns, Expire, Resp, RespStart,
       RespLeave, TypeOK
  <2>2. CASE \E sent \in BOOLEAN : C2dReceive(w, sent)
    BY <2>2 DEF C2dReceive, TypeOK, Counts
  <2>3. CASE D2cStart(w) \/ D2cRead(w) \/ D2cPoll(w) \/ D2cLeave(w)
    BY <2>3 DEF D2cStart, D2cRead, D2cResponse, D2cDeadline, D2cPoll, D2cLeave, TypeOK
  <2>4. CASE Handoff(w)
    BY <2>4 DEF Handoff, TypeOK, Counts
  <2> QED
    BY <2>1, <2>2, <2>3, <2>4 DEF WorkerStep, C2d, D2c
<1>3. SettledInv'
  BY <1>1, <1>2 DEF SettledInv, Past
<1>4. ASSUME NEW v \in Workers
      PROVE  ClientHarvested'[v] = ClientHarvested[v] /\ DestHarvested'[v] = DestHarvested[v]
  BY <1>1, <1>2 DEF SettledInv, Past, ClientHarvested, DestHarvested
<1> QED
  BY <1>3, <1>4

\* A stopper comes to load the totals only by Wait.
LEMMA StopSettled ==
  ASSUME IInv, SettledInv, StopStep
  PROVE  SettledInv'
<1>0. TypeOK /\ StopInv
  BY DEF IInv
<1>1. /\ c2d' = c2d
      /\ \A w \in Workers : d2c[w] = "done" => d2c'[w] = "done"
  <2>1. \A w \in Workers : d2c'[w] = d2c[w] \/ (d2c[w] = "poll" /\ d2c'[w] = "leaving")
    BY <1>0, StopForGood
  <2> QED
    BY <2>1, StopFrame
<1>2. ASSUME NEW s \in Stoppers, Wait(s) PROVE SettledInv'
  <2>1. /\ target' = target /\ harvested' = harvested /\ pc' = [pc EXCEPT ![s] = "load"]
        /\ late' = late \cup {w \in {target[s]} : c2d[w] \in {"spawned", "entered", "entered_nil"}}
    BY <1>2 DEF Wait, Goto
  <2>2. d2c[target[s]] = "done" /\ (target[s] \in late' \/ c2d[target[s]] = "done")
    BY <1>2, <2>1, WaitDrained
  <2>3. ASSUME NEW w \in Workers, Past(w)' PROVE Past(w) \/ w = target[s]
    BY <1>0, <2>1, <2>3 DEF Past, TypeOK
  <2> QED
    BY <1>1, <2>1, <2>2, <2>3 DEF SettledInv
<1>3. ASSUME NEW s \in Stoppers, StoreTotals(s) PROVE SettledInv'
  <2>1. /\ harvested' = [harvested EXCEPT ![target[s]] = @ + 1] /\ late' = late
        /\ target' = [target EXCEPT ![s] = NoWorker] /\ pc' = [pc EXCEPT ![s] = "next"]
        /\ pc[s] = "store"
    BY <1>3 DEF StoreTotals, AddTotals, Goto
  <2>2. ASSUME NEW w \in Workers, Past(w)' PROVE Past(w)
    BY <1>0, <2>1, <2>2 DEF Past, TypeOK
  <2> QED
    BY <1>1, <2>1, <2>2 DEF SettledInv
<1>4. CASE \A s \in Stoppers : ~Wait(s) /\ ~StoreTotals(s)
  <2>1. /\ UNCHANGED <<harvested, late>>
        /\ \A s \in Stoppers : pc'[s] \in {"load", "store"} =>
              pc[s] \in {"load", "store"} /\ target'[s] = target[s]
    BY <1>0, <1>4 DEF StopStep, GcCollect, Collect, ShutdownMux, BeginShutdown, Report, Stopper,
       TakeChannel, CloseChannel, Signal, LoadTotals, StopperDone, Goto, workerVars, historyVars,
       TypeOK
  <2>2. ASSUME NEW w \in Workers, Past(w)' PROVE Past(w)
    BY <2>1, <2>2 DEF Past
  <2> QED
    BY <1>1, <2>1, <2>2 DEF SettledInv
<1> QED
  BY <1>2, <1>3, <1>4

LEMMA SettledStep == IInv /\ SettledInv /\ [Next]_vars => SettledInv'
<1> SUFFICES ASSUME IInv, SettledInv, [Next]_vars PROVE SettledInv'
  OBVIOUS
<1>0. TypeOK /\ GoInv
  BY DEF IInv
<1>1. CASE Next
  <2>1. ReaderMoves \/ GetNew \/ StopStep \/ \E w \in Workers : WorkerStep(w)
    BY <1>1 DEF Next, Reader, ReaderMoves, StopStep, WorkerStep
  <2>2. CASE ReaderMoves
    BY <2>2, ReaderFrame DEF SettledInv, Past, stopVars, goVars
  <2>3. CASE GetNew
    <3>1. /\ c2d' = [c2d EXCEPT ![created + 1] = "spawned"]
          /\ d2c' = [d2c EXCEPT ![created + 1] = "spawned"] /\ created \in Nat
          /\ UNCHANGED <<harvested, late, pc, target>>
      BY <1>0, <2>3, MuxAssumption DEF GetNew, stopVars, historyVars, TypeOK
    <3>2. ASSUME NEW w \in Workers, w = created + 1 PROVE ~Past(w)
      <4>1. w > created
        BY <3>1, <3>2
      <4>2. d2c[w] = "none"
        BY <1>0, <4>1 DEF GoInv, Go
      <4> QED
        BY <4>2 DEF SettledInv
    <3>3. ASSUME NEW w \in Workers, Past(w)'
          PROVE  d2c'[w] = "done" /\ (w \in late' \/ c2d'[w] = "done")
      <4>1. Past(w) /\ w # created + 1
        BY <3>1, <3>2, <3>3 DEF Past
      <4> QED
        BY <1>0, <3>1, <4>1 DEF SettledInv, TypeOK
    <3> QED
      BY <3>3 DEF SettledInv
  <2> QED
    BY <1>0, <2>1, <2>2, <2>3, StopSettled, WorkerSettled
<1>2. CASE UNCHANGED vars
  BY <1>2 DEF vars, stopVars, workerVars, historyVars, goVars, SettledInv, Past
<1> QED
  BY <1>1, <1>2

\* The shares of the workers are numbers.
LEMMA HarvestedTyped ==
  ASSUME TypeOK, TypeOK'
  PROVE  /\ ClientHarvested \in [Workers -> Nat] /\ ClientHarvested' \in [Workers -> Nat]
         /\ DestHarvested \in [Workers -> Nat] /\ DestHarvested' \in [Workers -> Nat]
<1>1. ASSUME NEW w \in Workers
      PROVE  /\ counted[w].client \in Nat /\ counted[w].dest \in Nat
             /\ counted'[w].client \in Nat /\ counted'[w].dest \in Nat
  BY DEF TypeOK, Counts
<1> QED
  BY <1>1 DEF ClientHarvested, DestHarvested

\* A step that leaves the totals and harvests nothing more.
LEMMA CompleteKept ==
  ASSUME TypeOK, TypeOK', CompleteInv, totals' = totals, overlapped' = overlapped,
         \A s \in Stoppers : pc'[s] = "store" =>
           loaded'[s] = totals \/ (pc[s] = "store" /\ loaded'[s] = loaded[s]),
         \A w \in Workers : /\ ClientHarvested'[w] <= ClientHarvested[w]
                            /\ DestHarvested'[w] <= DestHarvested[w]
  PROVE  CompleteInv'
<1>1. PICK f, g : f = ClientHarvested' /\ g = DestHarvested'
  OBVIOUS
<1>2. /\ f \in [Workers -> Nat] /\ g \in [Workers -> Nat]
      /\ ClientHarvested \in [Workers -> Nat] /\ DestHarvested \in [Workers -> Nat]
      /\ Size(ClientHarvested)' = Size(f) /\ Size(DestHarvested)' = Size(g)
  BY <1>1, HarvestedTyped DEF Size, Pile
<1>3. /\ Size(f) \in Nat /\ Size(ClientHarvested) \in Nat /\ Size(f) <= Size(ClientHarvested)
      /\ Size(g) \in Nat /\ Size(DestHarvested) \in Nat /\ Size(g) <= Size(DestHarvested)
  BY <1>1, <1>2, PileLess
<1>4. totals.client \in Nat /\ totals.dest \in Nat
  BY DEF TypeOK, Counts
<1>5. ASSUME ~overlapped
      PROVE  Size(ClientHarvested)' <= totals.client /\ Size(DestHarvested)' <= totals.dest
  BY <1>2, <1>3, <1>4, <1>5 DEF CompleteInv
<1> QED
  BY <1>5 DEF CompleteInv

\* A stopper that adds to the totals still has loaded what they are, unless the
\* other has added to them since.
LEMMA CompleteStore ==
  ASSUME TypeOK, TypeOK', StopInv, CompleteInv, NEW s \in Stoppers, StoreTotals(s)
  PROVE  CompleteInv'
<1> SUFFICES ASSUME ~overlapped' PROVE CompleteInv'
  BY DEF CompleteInv
<1> DEFINE w == target[s]
<1>1. w \in Workers /\ harvested[w] = 0
  <2>1. pc[s] \in Stopping
    BY DEF StoreTotals, AddTotals, Stopping
  <2> QED
    BY <2>1, InHand
<1>2. /\ totals' = Plus(loaded[s], counted[w])
      /\ harvested' = [harvested EXCEPT ![w] = @ + 1]
      /\ overlapped' = (overlapped \/ \E o \in Stoppers \ {s} : pc[o] = "store")
      /\ pc[s] = "store" /\ pc' = [pc EXCEPT ![s] = "next"]
      /\ UNCHANGED <<counted, late>>
  BY DEF StoreTotals, AddTotals, Goto, goVars
<1> HIDE DEF w
<1>3. /\ ~overlapped /\ loaded[s] = totals /\ \A o \in Stoppers : pc'[o] # "store"
      /\ Size(ClientHarvested) <= totals.client /\ Size(DestHarvested) <= totals.dest
  <2>1. ~overlapped /\ \A o \in Stoppers \ {s} : pc[o] # "store"
    BY <1>2
  <2>2. \A o \in Stoppers : pc'[o] # "store"
    BY <1>2, <2>1 DEF TypeOK
  <2> QED
    BY <1>2, <2>1, <2>2 DEF CompleteInv
<1>4. PICK f, g : f = ClientHarvested' /\ g = DestHarvested'
  OBVIOUS
<1>5. /\ f \in [Workers -> Nat] /\ g \in [Workers -> Nat]
      /\ ClientHarvested \in [Workers -> Nat] /\ DestHarvested \in [Workers -> Nat]
      /\ Size(ClientHarvested)' = Size(f) /\ Size(DestHarvested)' = Size(g)
  BY <1>4, HarvestedTyped DEF Size, Pile
<1>6. counted[w].client \in Nat /\ counted[w].dest \in Nat
  BY <1>1 DEF TypeOK, Counts
<1>7. /\ ClientHarvested[w] = 0 /\ f[w] <= counted[w].client
      /\ DestHarvested[w] = 0 /\ g[w] <= counted[w].dest
  BY <1>1, <1>2, <1>4, <1>6 DEF ClientHarvested, DestHarvested
<1>8. ASSUME NEW v \in Workers \ {w} PROVE f[v] = ClientHarvested[v] /\ g[v] = DestHarvested[v]
  BY <1>2, <1>4, <1>8 DEF ClientHarvested, DestHarvested, TypeOK
<1>9. /\ Size(ClientHarvested) \in Nat /\ Size(f) \in Nat
      /\ Size(f) + ClientHarvested[w] <= Size(ClientHarvested) + f[w]
      /\ Size(DestHarvested) \in Nat /\ Size(g) \in Nat
      /\ Size(g) + DestHarvested[w] <= Size(DestHarvested) + g[w]
  <2>1. \A v \in Workers \ {w} : f[v] <= ClientHarvested[v] /\ g[v] <= DestHarvested[v]
    BY <1>5, <1>8
  <2> QED
    BY <1>1, <1>5, <2>1, PileChange
<1>10. /\ totals'.client = totals.client + counted[w].client
       /\ totals'.dest = totals.dest + counted[w].dest
       /\ totals.client \in Nat /\ totals.dest \in Nat
  <2>1. totals'.client = totals.client + counted[w].client
        /\ totals'.dest = totals.dest + counted[w].dest
    BY <1>2, <1>3 DEF Plus
  <2> QED
    BY <2>1 DEF TypeOK, Counts
<1>11. f[w] \in Nat /\ g[w] \in Nat
  BY <1>1, <1>5
<1>12. Size(ClientHarvested)' <= totals'.client /\ Size(DestHarvested)' <= totals'.dest
  BY <1>3, <1>5, <1>6, <1>7, <1>9, <1>10, <1>11
<1> QED
  BY <1>3, <1>12 DEF CompleteInv

LEMMA CompleteStep ==
  IInv /\ IInv' /\ SettledInv /\ CompleteInv /\ [Next]_vars => CompleteInv'
<1> SUFFICES ASSUME IInv, IInv', SettledInv, CompleteInv, [Next]_vars PROVE CompleteInv'
  OBVIOUS
<1>0. TypeOK /\ TypeOK' /\ StopInv
  BY DEF IInv
<1>1. \A w \in Workers : /\ ClientHarvested[w] <= ClientHarvested[w]
                         /\ DestHarvested[w] <= DestHarvested[w]
  <2>1. \A w \in Workers : ClientHarvested[w] \in Nat /\ DestHarvested[w] \in Nat
    BY <1>0, HarvestedTyped
  <2> QED
    BY <2>1
<1>2. CASE Next
  <2>1. ReaderMoves \/ GetNew \/ StopStep \/ \E w \in Workers : WorkerStep(w)
    BY <1>2 DEF Next, Reader, ReaderMoves, StopStep, WorkerStep
  <2>2. CASE ReaderMoves \/ GetNew
    <3>1. UNCHANGED <<totals, overlapped, pc, loaded, counted, harvested, late>>
      BY <2>2, ReaderFrame DEF GetNew, muxVars, stopVars, goVars, historyVars
    <3>2. ClientHarvested' = ClientHarvested /\ DestHarvested' = DestHarvested
      BY <3>1 DEF ClientHarvested, DestHarvested
    <3> QED
      BY <1>0, <1>1, <3>1, <3>2, CompleteKept
  <2>3. ASSUME NEW w \in Workers, WorkerStep(w) PROVE CompleteInv'
    <3>1. UNCHANGED <<totals, overlapped, pc, loaded>>
      BY <1>0, <2>3, WorkerFrame DEF outside, muxVars, stopVars, historyVars
    <3>2. \A v \in Workers : /\ ClientHarvested'[v] = ClientHarvested[v]
                             /\ DestHarvested'[v] = DestHarvested[v]
      BY <1>0, <2>3, WorkerSettled
    <3> QED
      BY <1>0, <1>1, <3>1, <3>2, CompleteKept
  <2>4. CASE StopStep /\ \A s \in Stoppers : ~StoreTotals(s)
    <3>1. UNCHANGED counted
      BY <2>4, StopFrame
    <3>2. /\ UNCHANGED <<totals, overlapped, harvested>> /\ late \subseteq late'
          /\ \A s \in Stoppers : pc'[s] = "store" =>
                loaded'[s] = totals \/ (pc[s] = "store" /\ loaded'[s] = loaded[s])
      <4>1. ASSUME NEW s \in Stoppers, LoadTotals(s)
            PROVE  /\ UNCHANGED <<totals, overlapped, harvested>> /\ late \subseteq late'
                   /\ \A r \in Stoppers : pc'[r] = "store" =>
                         loaded'[r] = totals \/ (pc[r] = "store" /\ loaded'[r] = loaded[r])
        BY <1>0, <4>1 DEF LoadTotals, Goto, muxVars, workerVars, historyVars, TypeOK
      <4>2. CASE \A s \in Stoppers : ~LoadTotals(s)
        <5>1. UNCHANGED <<totals, overlapped, harvested, loaded>> /\ late \subseteq late'
          BY <2>4, <4>2 DEF StopStep, GcCollect, Collect, ShutdownMux, BeginShutdown, Report,
             Stopper, TakeChannel, CloseChannel, Signal, Wait, StopperDone, muxVars, workerVars,
             historyVars
        <5>2. \A s \in Stoppers : pc'[s] = "store" => pc[s] = "store"
          BY <1>0, <2>4, <4>2 DEF StopStep, GcCollect, Collect, ShutdownMux, BeginShutdown, Report,
             Stopper, TakeChannel, CloseChannel, Signal, Wait, StopperDone, Goto, TypeOK
        <5> QED
          BY <5>1, <5>2
      <4> QED
        BY <4>1, <4>2
    <3>3. ASSUME NEW w \in Workers
          PROVE  /\ ClientHarvested'[w] <= ClientHarvested[w]
                 /\ DestHarvested'[w] <= DestHarvested[w]
      <4>1. counted[w].client \in Nat /\ counted[w].dest \in Nat
        BY <1>0 DEF TypeOK, Counts
      <4> QED
        BY <3>1, <3>2, <4>1 DEF ClientHarvested, DestHarvested
    <3> QED
      BY <1>0, <3>2, <3>3, CompleteKept
  <2> QED
    BY <1>0, <2>1, <2>2, <2>3, <2>4, CompleteStore
<1>3. CASE UNCHANGED vars
  <2>1. UNCHANGED <<totals, overlapped, pc, loaded, counted, harvested, late>>
    BY <1>3 DEF vars, muxVars, stopVars, workerVars, goVars, historyVars
  <2>2. ClientHarvested' = ClientHarvested /\ DestHarvested' = DestHarvested
    BY <2>1 DEF ClientHarvested, DestHarvested
  <2> QED
    BY <1>0, <1>1, <2>1, <2>2, CompleteKept
<1> QED
  BY <1>2, <1>3

\* For any number of workers, nothing counted is missing from the totals but what
\* overlapping additions overwrote and what a pump that had not joined counted.
THEOREM NothingMissing == Spec => []TotalsComplete
<1>1. Init => SettledInv /\ CompleteInv
  <2> SUFFICES ASSUME Init PROVE SettledInv /\ CompleteInv
    OBVIOUS
  <2>1. SettledInv
    BY DEF Init, SettledInv, Past
  <2>2. \A w \in Workers : ClientHarvested[w] = 0 /\ DestHarvested[w] = 0
    BY DEF Init, ClientHarvested, DestHarvested
  <2>3. Size(ClientHarvested) = 0 /\ Size(DestHarvested) = 0
    BY <2>2, EmptyPile
  <2> QED
    BY <2>1, <2>3 DEF Init, CompleteInv, Zero
<1>2. IInv /\ SettledInv /\ [Next]_vars => SettledInv'
  BY SettledStep
<1>3. IInv /\ IInv' /\ SettledInv /\ CompleteInv /\ [Next]_vars => CompleteInv'
  BY CompleteStep
<1>4. CompleteInv => TotalsComplete
  BY DEF CompleteInv, TotalsComplete, Size
<1> QED
  BY Invariance, <1>1, <1>2, <1>3, <1>4, PTL DEF Spec
=============================================================================
