------------------------------- MODULE UdpPump -------------------------------
(***************************************************************************)
(* One direction of a udptoy connection: the goroutine running             *)
(* UDPConnWorker.dgramsToSocket between the channel it receives datagrams  *)
(* from and the socket it writes them to, with the ticker that flushes the *)
(* datagrams held back for shuffling.                                      *)
(*                                                                         *)
(* Datagrams are numbered in the order they enter the channel.  A Go       *)
(* channel is a FIFO, so its contents are always the datagrams             *)
(* received+1 .. offered and two counters stand for it.                    *)
(***************************************************************************)
EXTENDS Naturals, FiniteSetsExt, SequencesExt

CONSTANTS
  MaxDgrams,   \* bound on the datagrams offered
  ChanCap,     \* capacity of the incoming channel (IncomingChanCap)
  DropPct,     \* -drop, percent
  SwapPct,     \* -swappy, percent
  MaxDelay,    \* -maxdelay, in units of the modelled clock
  DgramSize,   \* length of a datagram, in bytes
  Outcomes     \* how a socket write may end

ASSUME PumpAssumption ==
  /\ MaxDgrams \in Nat
  /\ ChanCap \in Nat \ {0}
  /\ DropPct \in 0..100 /\ SwapPct \in 0..100
  /\ MaxDelay \in Nat \ {0}
  /\ DgramSize \in Nat \ {0}
  /\ Outcomes \subseteq {"ok", "short", "error"}

Dgrams == 1..MaxDgrams

VARIABLES
  offered,       \* datagrams put in the channel so far
  closed,        \* the channel has been closed
  received,      \* datagrams taken out of the channel so far
  pc,            \* where the goroutine is
  cur,           \* the datagram being sent straight through, 0 for none
  shuffler,      \* the datagrams held back
  tick,          \* time left until the ticker fires
  tickReady,     \* a tick is waiting in ticker.C
  bytesIn,       \* *bytesIn
  bytesOut,      \* *bytesOut
  lastActivity,  \* the datagram whose full write last touched lastActivity
  delivered,     \* history: datagrams written to the socket, in order
  lost,          \* history: datagrams dropped or refused by the socket
  held,          \* history: every datagram that was ever held back
  quiet          \* history: time since a datagram was last stored, saturating

chan == <<offered, closed>>
timer == <<tick, tickReady>>
counters == <<bytesIn, bytesOut, lastActivity>>
fates == <<delivered, lost, held>>
vars == <<chan, received, pc, cur, shuffler, timer, counters, fates, quiet>>

\* The age is only compared with MaxDelay, so it stops one unit above it.
AgeCap == MaxDelay + 1
Older(age) == IF age < AgeCap THEN age + 1 ELSE AgeCap

\* Faulty variant: without the special case at 0 the float comparison may hold.
RandPercentCheck_NoEdge(pct) == IF pct = 100 THEN {TRUE} ELSE BOOLEAN

\* The outcomes of RandPercentCheck for a percentage given on the command line.
RandPercentCheck(pct) ==
  CASE pct = 0 -> {FALSE}
    [] pct = 100 -> {TRUE}
    [] OTHER -> BOOLEAN

Init ==
  /\ offered = 0 /\ closed = FALSE /\ received = 0
  /\ pc = "select" /\ cur = 0 /\ shuffler = {}
  /\ tick = MaxDelay /\ tickReady = FALSE
  /\ bytesIn = 0 /\ bytesOut = 0 /\ lastActivity = 0
  /\ delivered = <<>> /\ lost = {} /\ held = {}
  /\ quiet = 0

-----------------------------------------------------------------------------
(* The other end of the channel. *)

\* DispatchIncoming: the send blocks while the channel is full.
Offer ==
  /\ ~closed /\ offered < MaxDgrams /\ offered - received < ChanCap
  /\ offered' = offered + 1
  /\ UNCHANGED <<closed, received, pc, cur, shuffler, timer, counters, fates, quiet>>

\* Shutdown closes the channel.
Close ==
  /\ ~closed
  /\ closed' = TRUE
  /\ UNCHANGED <<offered, received, pc, cur, shuffler, timer, counters, fates, quiet>>

-----------------------------------------------------------------------------
(* The goroutine. *)

\* Take the next datagram and decide its fate: drop it, store it, or go on to
\* send it.  Storing it restarts the ticker.
Take(drop, swap) ==
  LET d == received + 1 IN
  /\ pc = "select" /\ received < offered
  /\ received' = d
  /\ \/ /\ drop
        /\ lost' = lost \cup {d}
        /\ UNCHANGED <<pc, cur, shuffler, timer, delivered, held, quiet>>
     \/ /\ ~drop /\ swap
        /\ shuffler' = shuffler \cup {d} /\ held' = held \cup {d}
        /\ tick' = MaxDelay /\ quiet' = 0
        /\ UNCHANGED <<pc, cur, tickReady, delivered, lost>>
     \/ /\ ~drop /\ ~swap
        /\ pc' = "send" /\ cur' = d
        /\ UNCHANGED <<shuffler, timer, fates, quiet>>
  /\ UNCHANGED <<chan, bytesOut, lastActivity>>

\* Its bytes are counted whatever its fate.  Faulty variant: only if it is sent.
Receive_CountsLate(drop, swap) ==
  Take(drop, swap) /\ bytesIn' = IF drop \/ swap THEN bytesIn ELSE bytesIn + DgramSize
Receive(drop, swap) == Take(drop, swap) /\ bytesIn' = bytesIn + DgramSize

\* A step of the goroutine that only moves it.
Move(from, to) ==
  /\ pc = from /\ pc' = to
  /\ UNCHANGED <<chan, received, cur, shuffler, timer, counters, fates, quiet>>

\* The channel is closed and empty: the deferred function stops the ticker and
\* flushes.  Faulty variants: a return that skips it, and a close not noticed.
ReceiveClosed_NoFlush == closed /\ received = offered /\ Move("select", "done")
ReceiveClosed_Ignored == closed /\ received = offered /\ Move("select", "flush")
ReceiveClosed == closed /\ received = offered /\ Move("select", "closing")

\* Faulty variant: the tick is consumed and nothing is flushed.
ReceiveTick_NoFlush ==
  /\ pc = "select" /\ tickReady
  /\ tickReady' = FALSE
  /\ UNCHANGED <<chan, received, pc, cur, shuffler, tick, counters, fates, quiet>>

\* A tick: flush what is held.  With a datagram ready too, select takes either.
ReceiveTick ==
  /\ pc = "select" /\ tickReady
  /\ tickReady' = FALSE
  /\ pc' = "flush"
  /\ UNCHANGED <<chan, received, cur, shuffler, tick, counters, fates, quiet>>

\* sendDgram: only a complete write counts as activity.
SendDgram(d, outcome) ==
  \/ /\ outcome = "ok"
     /\ bytesOut' = bytesOut + DgramSize
     /\ lastActivity' = d
     /\ delivered' = Append(delivered, d)
     /\ UNCHANGED lost
  \/ /\ outcome = "short"
     /\ \E n \in 0..(DgramSize - 1) : bytesOut' = bytesOut + n
     /\ delivered' = Append(delivered, d)
     /\ UNCHANGED <<lastActivity, lost>>
  \/ /\ outcome = "error"
     /\ lost' = lost \cup {d}
     /\ UNCHANGED <<bytesOut, lastActivity, delivered>>

\* The datagram sent straight through; what is held is flushed right after it.
\* Faulty variant: the flush is missing.
SendThen(outcome, next) ==
  /\ pc = "send" /\ pc' = next
  /\ SendDgram(cur, outcome) /\ cur' = 0
  /\ UNCHANGED <<chan, received, shuffler, timer, bytesIn, held, quiet>>
SendCurrent_NoFlush(outcome) == SendThen(outcome, "select")
SendCurrent(outcome) == SendThen(outcome, "flush")

\* Faulty variant: the slice is not emptied, and the next flush sends it again.
FlushOne_Keeps(d, outcome) ==
  /\ pc \in {"flush", "closing"} /\ d \in shuffler
  /\ SendDgram(d, outcome)
  /\ pc' = IF pc = "flush" THEN "select" ELSE "done"
  /\ UNCHANGED <<chan, received, cur, shuffler, timer, bytesIn, held, quiet>>

\* flush sends the held datagrams in a random order.  The slice is local to the
\* goroutine, so removing each one as it goes is the same as emptying it at the
\* end.
FlushOne(d, outcome) ==
  /\ pc \in {"flush", "closing"} /\ d \in shuffler
  /\ SendDgram(d, outcome)
  /\ shuffler' = shuffler \ {d}
  /\ UNCHANGED <<chan, received, pc, cur, timer, bytesIn, held, quiet>>

EndFlush == shuffler = {} /\ (Move("flush", "select") \/ Move("closing", "done"))

Step ==
  \/ \E drop \in RandPercentCheck(DropPct), swap \in RandPercentCheck(SwapPct) :
        Receive(drop, swap)
  \/ ReceiveClosed \/ ReceiveTick \/ EndFlush
  \/ \E outcome \in Outcomes :
        SendCurrent(outcome) \/ \E d \in Dgrams : FlushOne(d, outcome)

-----------------------------------------------------------------------------
\* A unit of time passes.  The goroutine is fast: time passes only while it
\* waits in select with nothing to do.  ticker.C holds at most one tick.
Tick ==
  /\ pc = "select" /\ received = offered /\ ~closed /\ ~tickReady
  /\ tick' = IF tick = 1 THEN MaxDelay ELSE tick - 1
  /\ tickReady' = (tick = 1)
  /\ quiet' = Older(quiet)
  /\ UNCHANGED <<chan, received, pc, cur, shuffler, counters, fates>>

Next == Offer \/ Close \/ Step \/ Tick

\* The Go scheduler runs a runnable goroutine, and the clock goes on.
Fairness == WF_vars(Step) /\ WF_vars(Tick)

Spec == Init /\ [][Next]_vars /\ Fairness

-----------------------------------------------------------------------------
(* Properties. *)

TypeOK ==
  /\ offered \in 0..MaxDgrams /\ received \in 0..offered
  /\ closed \in BOOLEAN
  /\ pc \in {"select", "send", "flush", "closing", "done"}
  /\ cur \in 0..MaxDgrams
  /\ shuffler \subseteq Dgrams
  /\ tick \in 1..MaxDelay /\ tickReady \in BOOLEAN
  /\ bytesIn \in Nat /\ bytesOut \in Nat
  /\ lastActivity \in 0..MaxDgrams
  /\ delivered \in Seq(Dgrams) /\ lost \subseteq Dgrams /\ held \subseteq Dgrams
  /\ quiet \in 0..AgeCap

Delivered(d) == \E i \in DOMAIN delivered : delivered[i] = d

\* Every datagram taken from the channel is in exactly one place: in the hands
\* of the goroutine, held, written, or lost.  A flush writes nothing twice and
\* forgets nothing, whatever the socket answers (dgramsToSocket, flush).
ExactlyOneFate ==
  /\ \A d \in Dgrams :
       /\ d <= received <=> d = cur \/ d \in shuffler \/ Delivered(d) \/ d \in lost
       /\ d = cur => d \notin shuffler
       /\ d = cur \/ d \in shuffler => ~Delivered(d) /\ d \notin lost
       /\ d \in lost => ~Delivered(d)
  /\ \A i, j \in DOMAIN delivered : delivered[i] = delivered[j] => i = j

\* When the goroutine has returned, everything put in the channel before it was
\* closed has been settled: the deferred flush leaves nothing behind.
NothingLeftBehind ==
  pc = "done" => \A d \in 1..offered : Delivered(d) \/ d \in lost

\* The i-th write sent straight through a datagram that came after d.
Overtakes(i, d) == delivered[i] > d /\ delivered[i] \notin held

\* The i-th write came before d was written, if it was.
WrittenBefore(i, d) == \A k \in DOMAIN delivered : delivered[k] = d => i < k

\* A datagram held back is overtaken by at most one later datagram that was
\* not itself held: the one whose sending triggers the flush.
OvertakenOnce ==
  \A d \in held \ lost : \A i, j \in DOMAIN delivered :
    /\ Overtakes(i, d) /\ WrittenBefore(i, d)
    /\ Overtakes(j, d) /\ WrittenBefore(j, d)
    => i = j

\* The byte counters that LogStats prints never show more going out than came
\* in, and a datagram that is still held is not yet counted as out.
BytesBalance ==
  bytesOut + DgramSize * Cardinality(shuffler) <= bytesIn

\* A datagram never waits longer than MaxDelay after the last one stored: the
\* ticker that ticker.Reset restarts flushes it.
QuietFlush == shuffler # {} => quiet <= MaxDelay

\* Once traffic stops, whatever was offered is settled: the channel is drained,
\* and the ticker flushes what is held.  While traffic goes on there is no such
\* promise: every datagram stored restarts the ticker (main.go:342), so steady
\* traffic can keep a held datagram for ever.
TrafficStops == <>[][UNCHANGED offered]_vars
Settled ==
  TrafficStops => \A d \in Dgrams : offered >= d ~> Delivered(d) \/ d \in lost

\* Closing the channel ends the goroutine, however many datagrams are pending.
CloseEnds == closed ~> pc = "done"

\* The datagram link this direction of the connection implements.
Link == INSTANCE DatagramLink WITH
          MayLose <- (DropPct > 0 \/ "error" \in Outcomes),
          MayReorder <- (SwapPct > 0)
LinkSpec == Link!Spec
=============================================================================
