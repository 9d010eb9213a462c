---------------------------- MODULE UdpPump_proofs ----------------------------
(***************************************************************************)
(* What UdpPump guarantees for every number of datagrams, every channel    *)
(* capacity, every percentage and every delay.                             *)
(***************************************************************************)
EXTENDS UdpPump, FiniteSetTheorems, TLAPS

\* A datagram is in the goroutine's hands exactly while it is being sent.
SendingCur == cur # 0 <=> pc = "send"

\* From the moment the goroutine sees the channel closed, nothing more comes;
\* when it has returned, nothing is held.
ClosingEmpty ==
  /\ pc \in {"closing", "done"} => closed /\ received = offered
  /\ pc = "done" => shuffler = {}

\* The inductive invariant.
PumpInv == TypeOK /\ SendingCur /\ ClosingEmpty /\ ExactlyOneFate

-----------------------------------------------------------------------------
(* What one write does to the writes made before it. *)

\* Appending a datagram makes it delivered and changes nothing for the others.
LEMMA AppendDelivers ==
  ASSUME NEW s \in Seq(Dgrams), NEW d \in Dgrams, NEW e \in Dgrams
  PROVE  (\E i \in DOMAIN Append(s, d) : Append(s, d)[i] = e)
           <=> e = d \/ (\E i \in DOMAIN s : s[i] = e)
<1>1. Append(s, d) \in Seq(Dgrams) /\ Len(Append(s, d)) = Len(s) + 1
  OBVIOUS
<1>2. Append(s, d)[Len(s) + 1] = d /\ \A i \in 1..Len(s) : Append(s, d)[i] = s[i]
  OBVIOUS
<1>3. DOMAIN s = 1..Len(s) /\ DOMAIN Append(s, d) = 1..(Len(s) + 1) /\ Len(s) \in Nat
  BY <1>1
<1>4. DOMAIN Append(s, d) = DOMAIN s \cup {Len(s) + 1}
  BY <1>3
<1> QED
  BY <1>2, <1>3, <1>4

\* A sequence of distinct datagrams stays so when a new one is appended.
LEMMA AppendDistinct ==
  ASSUME NEW s \in Seq(Dgrams), NEW d \in Dgrams,
         \A i, j \in DOMAIN s : s[i] = s[j] => i = j,
         \A i \in DOMAIN s : s[i] # d
  PROVE  \A i, j \in DOMAIN Append(s, d) : Append(s, d)[i] = Append(s, d)[j] => i = j
<1>1. Append(s, d)[Len(s) + 1] = d /\ \A i \in 1..Len(s) : Append(s, d)[i] = s[i]
  OBVIOUS
<1>2. DOMAIN s = 1..Len(s) /\ DOMAIN Append(s, d) = 1..(Len(s) + 1) /\ Len(s) \in Nat
  OBVIOUS
<1>3. DOMAIN Append(s, d) = DOMAIN s \cup {Len(s) + 1}
  BY <1>2
<1> QED
  BY <1>1, <1>2, <1>3

\* Whatever the socket answers, a write settles its datagram, written or lost
\* but not both, and touches no other.
LEMMA SendSettles ==
  ASSUME TypeOK, ExactlyOneFate,
         NEW d \in Dgrams, NEW outcome, SendDgram(d, outcome),
         ~Delivered(d), d \notin lost
  PROVE  /\ delivered' \in Seq(Dgrams) /\ lost' \subseteq Dgrams
         /\ bytesOut' \in Nat /\ lastActivity' \in 0..MaxDgrams
         /\ \A e \in Dgrams : Delivered(e)' \/ e \in lost' <=> Delivered(e) \/ e \in lost \/ e = d
         /\ \A e \in Dgrams : e \in lost' => ~Delivered(e)'
         /\ \A i, j \in DOMAIN delivered' : delivered'[i] = delivered'[j] => i = j
<1>1. CASE delivered' = Append(delivered, d) /\ lost' = lost
  <2>1. delivered' \in Seq(Dgrams)
    BY <1>1 DEF TypeOK
  <2>2. \A e \in Dgrams : Delivered(e)' <=> Delivered(e) \/ e = d
    <3>1. delivered \in Seq(Dgrams)
      BY DEF TypeOK
    <3>2. \A e \in Dgrams :
            (\E i \in DOMAIN delivered' : delivered'[i] = e)
              <=> (\E i \in DOMAIN delivered : delivered[i] = e) \/ e = d
      BY ONLY <1>1, <3>1, AppendDelivers
    <3> QED
      BY <3>2 DEF Delivered
  <2>3. \A i, j \in DOMAIN delivered' : delivered'[i] = delivered'[j] => i = j
    BY <1>1, AppendDistinct DEF TypeOK, ExactlyOneFate, Delivered
  <2>4. bytesOut' \in Nat /\ lastActivity' \in 0..MaxDgrams
    BY <1>1, PumpAssumption DEF TypeOK, SendDgram, Dgrams
  <2> QED
    BY <1>1, <2>1, <2>2, <2>3, <2>4 DEF TypeOK, ExactlyOneFate
<1>2. CASE delivered' = delivered /\ lost' = lost \cup {d}
  <2>1. bytesOut' \in Nat /\ lastActivity' \in 0..MaxDgrams
    BY <1>2, PumpAssumption DEF TypeOK, SendDgram, Dgrams
  <2>2. \A e \in Dgrams : Delivered(e)' <=> Delivered(e)
    BY <1>2 DEF Delivered
  <2> QED
    BY <1>2, <2>1, <2>2 DEF TypeOK, ExactlyOneFate
<1> QED
  BY <1>1, <1>2 DEF SendDgram

-----------------------------------------------------------------------------
(* The inductive invariant holds initially and after every action. *)

LEMMA InitInv == Init => PumpInv
<1> SUFFICES ASSUME Init PROVE PumpInv
  OBVIOUS
<1>1. TypeOK
  <2>1. delivered \in Seq(Dgrams) /\ lost \subseteq Dgrams /\ held \subseteq Dgrams
        /\ shuffler \subseteq Dgrams
    BY DEF Init
  <2>2. /\ offered \in 0..MaxDgrams /\ received \in 0..offered /\ cur \in 0..MaxDgrams
        /\ lastActivity \in 0..MaxDgrams /\ bytesIn \in Nat /\ bytesOut \in Nat
    BY PumpAssumption DEF Init
  <2>3. tick \in 1..MaxDelay /\ quiet \in 0..AgeCap
    BY PumpAssumption DEF Init, AgeCap
  <2> QED
    BY <2>1, <2>2, <2>3 DEF Init, TypeOK
<1>2. SendingCur /\ ClosingEmpty
  BY DEF Init, SendingCur, ClosingEmpty
<1>3. ExactlyOneFate
  BY PumpAssumption DEF Init, ExactlyOneFate, Delivered, Dgrams
<1> QED
  BY <1>1, <1>2, <1>3 DEF PumpInv

\* A fate spelled out for the datagram taken next: it has none yet.
LEMMA NextIsFresh ==
  ASSUME PumpInv, received < offered
  PROVE  /\ received + 1 \in Dgrams
         /\ ~Delivered(received + 1) /\ received + 1 \notin shuffler
         /\ received + 1 \notin lost /\ received + 1 # cur
<1>1. received + 1 \in Dgrams /\ ~(received + 1 <= received)
  BY PumpAssumption DEF PumpInv, TypeOK, Dgrams
<1> QED
  BY <1>1 DEF PumpInv, ExactlyOneFate

LEMMA ReceiveInv ==
  ASSUME PumpInv, NEW drop, NEW swap, Receive(drop, swap)
  PROVE  PumpInv'
<1> DEFINE d == received + 1
<1>1. /\ d \in Dgrams /\ ~Delivered(d) /\ d \notin shuffler /\ d \notin lost
      /\ pc = "select" /\ cur = 0 /\ received < offered
  BY NextIsFresh DEF PumpInv, Receive, Take, SendingCur
<1>2. TypeOK'
  <2>1. /\ offered' \in 0..MaxDgrams /\ received' \in 0..offered' /\ closed' \in BOOLEAN
        /\ bytesIn' \in Nat /\ bytesOut' \in Nat /\ lastActivity' \in 0..MaxDgrams
    BY <1>1, PumpAssumption DEF Receive, Take, PumpInv, TypeOK, chan
  <2>2. pc' \in {"select", "send", "flush", "closing", "done"} /\ cur' \in 0..MaxDgrams
    BY <1>1, PumpAssumption DEF Receive, Take, PumpInv, TypeOK, Dgrams
  <2>3. /\ shuffler' \subseteq Dgrams /\ lost' \subseteq Dgrams /\ held' \subseteq Dgrams
        /\ delivered' \in Seq(Dgrams)
    BY <1>1 DEF Receive, Take, PumpInv, TypeOK, fates
  <2>4. /\ tick' \in 1..MaxDelay /\ tickReady' \in BOOLEAN
        /\ quiet' \in 0..AgeCap
    BY PumpAssumption DEF Receive, Take, PumpInv, TypeOK, timer, AgeCap
  <2> QED
    BY <2>1, <2>2, <2>3, <2>4 DEF TypeOK
<1>3. SendingCur' /\ ClosingEmpty'
  BY <1>1 DEF Receive, Take, PumpInv, TypeOK, SendingCur, ClosingEmpty, chan, Dgrams
<1>4. \A e \in Dgrams : e <= received' <=> e <= received \/ e = d
  BY <1>1 DEF Receive, Take, PumpInv, TypeOK, Dgrams
<1>5. delivered' = delivered
  BY DEF Receive, Take, fates
<1>6. \/ cur' = cur /\ shuffler' = shuffler /\ lost' = lost \cup {d}
      \/ cur' = cur /\ shuffler' = shuffler \cup {d} /\ lost' = lost
      \/ cur' = d /\ shuffler' = shuffler /\ lost' = lost
  BY DEF Receive, Take, fates
<1>7. \A e \in Dgrams : e # 0
  BY DEF Dgrams
<1>8. ExactlyOneFate'
  BY <1>1, <1>4, <1>5, <1>6, <1>7 DEF PumpInv, ExactlyOneFate, Delivered
<1> QED
  BY <1>2, <1>3, <1>8 DEF PumpInv

LEMMA SendCurrentInv ==
  ASSUME PumpInv, NEW outcome, SendCurrent(outcome)
  PROVE  PumpInv'
<1>1. cur \in Dgrams /\ ~Delivered(cur) /\ cur \notin lost /\ cur \notin shuffler
  BY PumpAssumption DEF SendCurrent, SendThen, PumpInv, TypeOK, SendingCur, ExactlyOneFate, Dgrams
<1>2. SendDgram(cur, outcome) /\ UNCHANGED <<chan, received, shuffler, timer, bytesIn, held, quiet>>
      /\ cur' = 0 /\ pc' = "flush"
  BY DEF SendCurrent, SendThen
<1>3. TypeOK'
  BY <1>1, <1>2, SendSettles, PumpAssumption DEF PumpInv, TypeOK, chan, timer
<1>4. SendingCur' /\ ClosingEmpty'
  BY <1>2 DEF SendingCur, ClosingEmpty
<1>5. \A e \in Dgrams : e # 0
  BY DEF Dgrams
<1>6. ExactlyOneFate'
  BY <1>1, <1>2, <1>5, SendSettles DEF PumpInv, ExactlyOneFate
<1> QED
  BY <1>3, <1>4, <1>6 DEF PumpInv

LEMMA FlushOneInv ==
  ASSUME PumpInv, NEW d \in Dgrams, NEW outcome, FlushOne(d, outcome)
  PROVE  PumpInv'
<1>1. d \in shuffler /\ ~Delivered(d) /\ d \notin lost /\ d # cur
  BY DEF FlushOne, PumpInv, ExactlyOneFate
<1>2. SendDgram(d, outcome) /\ UNCHANGED <<chan, received, pc, cur, timer, bytesIn, held, quiet>>
      /\ shuffler' = shuffler \ {d}
  BY DEF FlushOne
<1>3. TypeOK'
  BY <1>1, <1>2, SendSettles, PumpAssumption DEF PumpInv, TypeOK, chan, timer
<1>4. SendingCur' /\ ClosingEmpty'
  BY <1>2 DEF PumpInv, SendingCur, ClosingEmpty, chan
<1>5. ExactlyOneFate'
  BY <1>1, <1>2, SendSettles DEF PumpInv, ExactlyOneFate
<1> QED
  BY <1>3, <1>4, <1>5 DEF PumpInv

\* The actions that settle nothing.
LEMMA FateUnchanged ==
  ASSUME ExactlyOneFate, UNCHANGED <<received, cur, shuffler, delivered, lost>>
  PROVE  ExactlyOneFate'
BY DEF ExactlyOneFate, Delivered

LEMMA StepInv == PumpInv /\ [Next]_vars => PumpInv'
<1> SUFFICES ASSUME PumpInv, [Next]_vars PROVE PumpInv'
  OBVIOUS
<1> USE PumpAssumption
<1>1. CASE Offer
  <2>1. TypeOK' /\ SendingCur' /\ ClosingEmpty'
    BY <1>1 DEF Offer, PumpInv, TypeOK, SendingCur, ClosingEmpty, timer, counters, fates, Dgrams
  <2>2. ExactlyOneFate'
    BY <1>1, FateUnchanged DEF Offer, PumpInv, fates
  <2> QED
    BY <2>1, <2>2 DEF PumpInv
<1>2. CASE Close
  <2>1. TypeOK' /\ SendingCur' /\ ClosingEmpty'
    BY <1>2 DEF Close, PumpInv, TypeOK, SendingCur, ClosingEmpty, timer, counters, fates
  <2>2. ExactlyOneFate'
    BY <1>2, FateUnchanged DEF Close, PumpInv, fates
  <2> QED
    BY <2>1, <2>2 DEF PumpInv
<1>3. ASSUME NEW drop \in RandPercentCheck(DropPct), NEW swap \in RandPercentCheck(SwapPct),
             Receive(drop, swap)
      PROVE  PumpInv'
  BY <1>3, ReceiveInv
<1>4. CASE ReceiveClosed \/ ReceiveTick \/ EndFlush
  <2>1. TypeOK' /\ SendingCur' /\ ClosingEmpty'
    BY <1>4 DEF ReceiveClosed, ReceiveTick, EndFlush, Move, PumpInv, TypeOK, SendingCur, ClosingEmpty,
                chan, timer, counters, fates
  <2>2. ExactlyOneFate'
    BY <1>4, FateUnchanged DEF ReceiveClosed, ReceiveTick, EndFlush, Move, PumpInv, fates
  <2> QED
    BY <2>1, <2>2 DEF PumpInv
<1>5. ASSUME NEW outcome \in Outcomes, SendCurrent(outcome)
      PROVE  PumpInv'
  BY <1>5, SendCurrentInv
<1>6. ASSUME NEW outcome \in Outcomes, NEW d \in Dgrams, FlushOne(d, outcome)
      PROVE  PumpInv'
  BY <1>6, FlushOneInv
<1>7. CASE Tick
  <2>1. TypeOK' /\ SendingCur' /\ ClosingEmpty'
    BY <1>7 DEF Tick, PumpInv, TypeOK, SendingCur, ClosingEmpty, chan, counters, fates, AgeCap, Older
  <2>2. ExactlyOneFate'
    BY <1>7, FateUnchanged DEF Tick, PumpInv, fates
  <2> QED
    BY <2>1, <2>2 DEF PumpInv
<1>8. CASE UNCHANGED vars
  <2>1. TypeOK' /\ SendingCur' /\ ClosingEmpty'
    BY <1>8 DEF vars, PumpInv, TypeOK, SendingCur, ClosingEmpty, chan, timer, counters, fates
  <2>2. ExactlyOneFate'
    BY <1>8, FateUnchanged DEF vars, PumpInv, fates
  <2> QED
    BY <2>1, <2>2 DEF PumpInv
<1> QED
  BY <1>1, <1>2, <1>3, <1>4, <1>5, <1>6, <1>7, <1>8 DEF Next, Step

LEMMA PumpInvAlways == Spec => []PumpInv
<1>1. Init => PumpInv
  BY InitInv
<1>2. PumpInv /\ [Next]_vars => PumpInv'
  BY StepInv
<1> QED
  BY <1>1, <1>2, PTL DEF Spec

-----------------------------------------------------------------------------
(* The ticker. *)

\* While the goroutine waits with something held and no tick to take, the ticker
\* fires before what was stored last is MaxDelay old.  A flush holds the
\* goroutine until nothing is left, so it comes back to select empty-handed.
TickerInTime ==
  shuffler # {} =>
    /\ quiet <= MaxDelay
    /\ pc = "select" /\ ~tickReady => quiet + tick <= MaxDelay

LEMMA TickerInit == Init => TickerInTime
BY DEF Init, TickerInTime

LEMMA TickerStep == TypeOK /\ TickerInTime /\ [Next]_vars => TickerInTime'
<1> SUFFICES ASSUME TypeOK, TickerInTime, [Next]_vars PROVE TickerInTime'
  OBVIOUS
<1> USE PumpAssumption
<1>1. ASSUME NEW drop, NEW swap, Receive(drop, swap)
      PROVE  TickerInTime'
  <2>1. CASE shuffler' = shuffler /\ UNCHANGED <<timer, quiet>> /\ pc' \in {pc, "send"}
    BY <2>1 DEF TickerInTime, timer
  <2>2. CASE quiet' = 0 /\ tick' = MaxDelay
    BY <2>2 DEF TickerInTime
  <2> QED
    BY <1>1, <2>1, <2>2 DEF Receive, Take, fates
<1>2. ASSUME NEW outcome, SendCurrent(outcome)
      PROVE  TickerInTime'
  BY <1>2 DEF SendCurrent, SendThen, TickerInTime, timer
<1>3. ASSUME NEW outcome, NEW d \in Dgrams, FlushOne(d, outcome)
      PROVE  TickerInTime'
  BY <1>3 DEF FlushOne, TickerInTime, timer
<1>4. CASE Offer \/ Close \/ UNCHANGED vars
  BY <1>4 DEF Offer, Close, vars, TickerInTime, timer
<1>5. CASE ReceiveClosed \/ ReceiveTick \/ EndFlush
  BY <1>5 DEF ReceiveClosed, ReceiveTick, EndFlush, Move, TickerInTime, timer
<1>6. CASE Tick
  <2>1. shuffler' = shuffler /\ pc' = pc /\ pc = "select" /\ ~tickReady
    BY <1>6 DEF Tick, fates
  <2>2. shuffler # {} => quiet' = quiet + 1 /\ quiet + tick <= MaxDelay
    BY <1>6, <2>1 DEF Tick, Older, AgeCap, TickerInTime, TypeOK
  <2>3. IF tick = 1 THEN tickReady' ELSE tick' = tick - 1
    BY <1>6 DEF Tick
  <2> QED
    BY <2>1, <2>2, <2>3 DEF TickerInTime, TypeOK, AgeCap
<1> QED
  BY <1>1, <1>2, <1>3, <1>4, <1>5, <1>6 DEF Next, Step

-----------------------------------------------------------------------------
(* The byte counters.  What is in the goroutine's hands or held has come in   *)
(* and not gone out.                                                          *)

Pending == Cardinality(shuffler) + (IF pc = "send" THEN 1 ELSE 0)
BytesInv == bytesOut + DgramSize * Pending <= bytesIn

\* What is held is finite, and putting one datagram in or out counts for one.
LEMMA HeldCounts ==
  ASSUME NEW S \in SUBSET Dgrams
  PROVE  /\ Cardinality(S) \in Nat
         /\ Cardinality({}) = 0
         /\ \A d \in Dgrams \ S : Cardinality(S \cup {d}) = Cardinality(S) + 1
         /\ \A d \in S : Cardinality(S \ {d}) = Cardinality(S) - 1
<1>1. IsFiniteSet(Dgrams)
  BY PumpAssumption, FS_Interval DEF Dgrams
<1>2. IsFiniteSet(S)
  BY <1>1, FS_Subset
<1> QED
  BY <1>2, FS_EmptySet, FS_AddElement, FS_RemoveElement, FS_CardinalityType

\* A datagram's bytes in, or at most as many out, keep the balance.
LEMMA Balance ==
  ASSUME NEW out \in Nat, NEW in \in Nat, NEW n \in Nat, NEW more \in 0..DgramSize,
         out + DgramSize * n <= in
  PROVE  /\ out + DgramSize * (n + 1) <= in + DgramSize
         /\ out + DgramSize * n <= in + DgramSize
         /\ n >= 1 => out + more + DgramSize * (n - 1) <= in
<1>1. DgramSize \in Nat /\ DgramSize * n \in Nat
  BY PumpAssumption
<1>2. DgramSize * (n + 1) = DgramSize * n + DgramSize /\ DgramSize * (n - 1) = DgramSize * n - DgramSize
  BY <1>1
<1> QED
  BY <1>1, <1>2

\* However a write ends, it adds a datagram's bytes at most.
LEMMA WriteAddsBytes ==
  ASSUME TypeOK, NEW d, NEW outcome, SendDgram(d, outcome)
  PROVE  \E more \in 0..DgramSize : bytesOut' = bytesOut + more
<1>1. DgramSize \in 0..DgramSize /\ 0 \in 0..DgramSize /\ bytesOut = bytesOut + 0
  BY PumpAssumption DEF TypeOK
<1>2. ASSUME NEW n \in 0..(DgramSize - 1) PROVE n \in 0..DgramSize
  BY PumpAssumption
<1> QED
  BY <1>1, <1>2, Zenon DEF SendDgram

\* A write counts as out at most the size of a datagram that was pending.
LEMMA BytesStep == PumpInv /\ BytesInv /\ [Next]_vars => BytesInv'
<1> SUFFICES ASSUME PumpInv, BytesInv, [Next]_vars PROVE BytesInv'
  OBVIOUS
<1> DEFINE n == Cardinality(shuffler)
<1>0. /\ n \in Nat /\ bytesIn \in Nat /\ bytesOut \in Nat /\ DgramSize \in Nat
      /\ shuffler \in SUBSET Dgrams
  BY PumpAssumption, HeldCounts DEF PumpInv, TypeOK
<1>1. ASSUME NEW drop, NEW swap, Receive(drop, swap)
      PROVE  BytesInv'
  <2>1. received + 1 \in Dgrams \ shuffler /\ pc = "select"
    BY <1>1, NextIsFresh DEF Receive, Take
  <2>2. bytesIn' = bytesIn + DgramSize /\ bytesOut' = bytesOut /\ Pending = n
    BY <1>0, <1>1, <2>1 DEF Receive, Take, Pending
  <2>3. Pending' \in {n, n + 1}
    <3>1. CASE shuffler' = shuffler /\ pc' \in {pc, "send"}
      BY <1>0, <2>1, <3>1 DEF Pending
    <3>2. CASE shuffler' = shuffler \cup {received + 1} /\ pc' = pc
      <4>1. Cardinality(shuffler') = n + 1
        BY <1>0, <2>1, <3>2, HeldCounts
      <4> QED
        BY <1>0, <2>1, <3>2, <4>1 DEF Pending
    <3> QED
      BY <1>1, <3>1, <3>2 DEF Receive, Take
  <2>4. bytesOut + DgramSize * n <= bytesIn
    BY <2>2 DEF BytesInv
  <2>5. 0 \in 0..DgramSize
    BY <1>0
  <2>6. /\ bytesOut + DgramSize * (n + 1) <= bytesIn + DgramSize
        /\ bytesOut + DgramSize * n <= bytesIn + DgramSize
    BY ONLY <1>0, <2>4, <2>5, Balance
  <2> QED
    BY <2>2, <2>3, <2>6 DEF BytesInv
<1>2. ASSUME NEW d, NEW outcome, SendDgram(d, outcome), bytesIn' = bytesIn,
             Pending \in Nat, Pending >= 1, Pending' = Pending - 1
      PROVE  BytesInv'
  <2>1. PICK more \in 0..DgramSize : bytesOut' = bytesOut + more
    BY <1>2, WriteAddsBytes DEF PumpInv
  <2>2. bytesOut + more + DgramSize * (Pending - 1) <= bytesIn
    BY <1>0, <1>2, Balance DEF BytesInv
  <2> QED
    BY <1>2, <2>1, <2>2 DEF BytesInv
<1>3. ASSUME NEW outcome, SendCurrent(outcome)
      PROVE  BytesInv'
  <2>1. Pending = n + 1 /\ Pending' = n
    BY <1>0, <1>3 DEF SendCurrent, SendThen, Pending
  <2>2. SendDgram(cur, outcome) /\ bytesIn' = bytesIn
    BY <1>3 DEF SendCurrent, SendThen
  <2> QED
    BY <1>0, <1>2, <2>1, <2>2
<1>4. ASSUME NEW outcome, NEW d \in Dgrams, FlushOne(d, outcome)
      PROVE  BytesInv'
  <2>1. Cardinality(shuffler \ {d}) = n - 1 /\ Cardinality(shuffler \ {d}) \in Nat
    <3>1. shuffler \ {d} \in SUBSET Dgrams /\ d \in shuffler
      BY <1>0, <1>4 DEF FlushOne
    <3> QED
      BY <1>0, <3>1, HeldCounts
  <2>2. Pending = n /\ Pending' = n - 1
    BY <1>0, <1>4, <2>1 DEF FlushOne, Pending
  <2>3. SendDgram(d, outcome) /\ bytesIn' = bytesIn
    BY <1>4 DEF FlushOne
  <2>4. Pending \in Nat /\ Pending >= 1
    BY <1>0, <2>1, <2>2
  <2> QED
    BY <1>2, <2>2, <2>3, <2>4
<1>5. CASE UNCHANGED <<bytesIn, bytesOut, shuffler>> /\ (pc = "send" <=> pc' = "send")
  BY <1>5 DEF BytesInv, Pending
<1>6. CASE Offer \/ Close \/ UNCHANGED vars \/ ReceiveClosed \/ ReceiveTick \/ EndFlush \/ Tick
  BY <1>5, <1>6 DEF Offer, Close, vars, counters, ReceiveClosed, ReceiveTick, EndFlush, Move, Tick
<1> QED
  BY <1>1, <1>3, <1>4, <1>6 DEF Next, Step

-----------------------------------------------------------------------------
(* Overtaking.                                                                *)

\* Held datagrams are still held or settled, and as long as the goroutine is not
\* flushing, no datagram sent straight through has passed one that is held.
HeldInv ==
  /\ shuffler \subseteq held /\ cur \notin held
  /\ \A d \in held : d <= received /\ (d \in shuffler \/ Delivered(d) \/ d \in lost)
  /\ pc \in {"select", "send"} =>
       \A d \in shuffler : \A i \in DOMAIN delivered : ~Overtakes(i, d)

\* A write of datagram e adds one place at the end; those before it stay.
LEMMA WritePlaces ==
  ASSUME TypeOK, NEW e \in Dgrams, NEW outcome, SendDgram(e, outcome)
  PROVE  \/ delivered' = delivered
         \/ /\ DOMAIN delivered' = DOMAIN delivered \cup {Len(delivered) + 1}
            /\ \A i \in DOMAIN delivered :
                 delivered'[i] = delivered[i] /\ i < Len(delivered) + 1
            /\ delivered'[Len(delivered) + 1] = e
<1>1. CASE delivered' = Append(delivered, e)
  <2> DEFINE n == Len(delivered)
  <2>1. delivered \in Seq(Dgrams) /\ n \in Nat /\ DOMAIN delivered = 1..n
    BY DEF TypeOK
  <2>2. DOMAIN delivered' = 1..(n + 1) /\ delivered'[n + 1] = e
        /\ \A i \in 1..n : delivered'[i] = delivered[i]
    BY <1>1, <2>1
  <2>3. 1..(n + 1) = (1..n) \cup {n + 1} /\ \A i \in 1..n : i < n + 1
    BY <2>1
  <2> QED
    BY <2>1, <2>2, <2>3
<1> QED
  BY <1>1 DEF SendDgram

\* What was delivered has been received.
LEMMA DeliveredEarlier ==
  ASSUME PumpInv, NEW i \in DOMAIN delivered
  PROVE  delivered[i] \in Dgrams /\ delivered[i] <= received
<1>1. delivered[i] \in Dgrams
  BY DEF PumpInv, TypeOK
<1>2. Delivered(delivered[i])
  BY DEF Delivered
<1> QED
  BY <1>1, <1>2 DEF PumpInv, ExactlyOneFate

\* A write of e when no held datagram has been passed, or e was itself held,
\* leaves each held datagram passed once at most.
LEMMA WritePasses ==
  ASSUME PumpInv, HeldInv, OvertakenOnce,
         NEW e \in Dgrams, NEW outcome, SendDgram(e, outcome), held' = held,
         e \in held \/ pc = "send"
  PROVE  OvertakenOnce'
<1> SUFFICES ASSUME NEW d \in held \ lost',
                    NEW i \in DOMAIN delivered', NEW j \in DOMAIN delivered',
                    Overtakes(i, d)', WrittenBefore(i, d)',
                    Overtakes(j, d)', WrittenBefore(j, d)'
             PROVE  i = j
  BY DEF OvertakenOnce
<1>1. d \in held \ lost
  BY DEF SendDgram
<1>2. CASE delivered' = delivered
  BY <1>1, <1>2 DEF OvertakenOnce, Overtakes, WrittenBefore
<1>3. CASE delivered' # delivered
  <2>0. PICK n : n = Len(delivered) + 1
    OBVIOUS
  <2>1. /\ DOMAIN delivered' = DOMAIN delivered \cup {n}
        /\ \A k \in DOMAIN delivered : delivered'[k] = delivered[k] /\ k < n
        /\ delivered'[n] = e
    BY <1>3, <2>0, WritePlaces DEF PumpInv
  <2>2. ASSUME NEW k \in DOMAIN delivered, Overtakes(k, d)', WrittenBefore(k, d)'
        PROVE  Overtakes(k, d) /\ WrittenBefore(k, d)
    BY <2>1, <2>2 DEF Overtakes, WrittenBefore
  <2>3. CASE i # n /\ j # n
    BY <1>1, <2>1, <2>2, <2>3 DEF OvertakenOnce
  <2>4. CASE i = n /\ j = n
    BY <2>4
  <2>5. ASSUME Overtakes(n, d)', WrittenBefore(n, d)',
               NEW k \in DOMAIN delivered, Overtakes(k, d)', WrittenBefore(k, d)'
        PROVE  FALSE
    <3>1. e \notin held /\ pc = "send"
      BY <2>1, <2>5 DEF Overtakes
    <3>2. ~Delivered(d)
      <4> SUFFICES ASSUME NEW m \in DOMAIN delivered, delivered[m] = d PROVE FALSE
        BY DEF Delivered
      <4>1. m \in DOMAIN delivered' /\ delivered'[m] = d /\ m < n
        BY <2>1
      <4>2. n < m
        BY <2>5, <4>1 DEF WrittenBefore
      <4>3. n \in Nat /\ m \in Nat
        BY <2>0 DEF PumpInv, TypeOK
      <4> QED
        BY <4>1, <4>2, <4>3
    <3>3. d \in shuffler
      BY <1>1, <3>2 DEF HeldInv
    <3> QED
      BY <2>2, <2>5, <3>1, <3>3 DEF HeldInv
  <2> QED
    BY <2>1, <2>3, <2>4, <2>5
<1> QED
  BY <1>2, <1>3

\* Steps that write nothing and hold nothing new.
LEMMA PassUnchanged ==
  ASSUME HeldInv, OvertakenOnce,
         UNCHANGED <<cur, shuffler, delivered, held, received>>, lost \subseteq lost',
         pc' \in {"select", "send"} => pc \in {"select", "send"} \/ shuffler = {}
  PROVE  HeldInv' /\ OvertakenOnce'
<1>1. HeldInv'
  BY DEF HeldInv, Overtakes, Delivered
<1>2. OvertakenOnce'
  BY DEF OvertakenOnce, Overtakes, WrittenBefore
<1> QED
  BY <1>1, <1>2

\* A datagram taken from the channel is later than all that was written.
LEMMA ReceivePasses ==
  ASSUME PumpInv, HeldInv, OvertakenOnce, NEW drop, NEW swap, Receive(drop, swap)
  PROVE  HeldInv' /\ OvertakenOnce'
<1>0. PICK d : d = received + 1
  OBVIOUS
<1>1. /\ d \in Dgrams /\ ~Delivered(d) /\ d \notin shuffler /\ d \notin lost
      /\ pc = "select" /\ cur = 0 /\ received \in Nat
  BY <1>0, NextIsFresh DEF PumpInv, TypeOK, Receive, Take, SendingCur
<1>2. received' = d /\ delivered' = delivered
  BY <1>0 DEF Receive, Take, fates
<1>3. \A i \in DOMAIN delivered : delivered[i] \in Dgrams /\ delivered[i] <= received
  BY DeliveredEarlier
<1>4. held \subseteq Dgrams /\ d \notin held /\ \A e \in Dgrams : e # 0
  <2>1. \A e \in Dgrams : e # 0 /\ e \in Nat
    BY DEF Dgrams
  <2>2. \A e \in held : e <= received
    BY DEF HeldInv
  <2> QED
    BY <1>0, <1>1, <2>1, <2>2 DEF PumpInv, TypeOK
<1>5. CASE UNCHANGED <<cur, shuffler, held>> /\ lost' = lost \cup {d} /\ pc' = pc
  <2>1. HeldInv'
    <3>1. \A e \in held : e <= received'
      BY <1>0, <1>1, <1>2, <1>4 DEF HeldInv, Dgrams
    <3> QED
      BY <1>1, <1>2, <1>5, <3>1 DEF HeldInv, Overtakes, Delivered
  <2>2. OvertakenOnce'
    BY <1>2, <1>5 DEF OvertakenOnce, Overtakes, WrittenBefore
  <2> QED
    BY <2>1, <2>2
<1>6. CASE /\ UNCHANGED <<cur, lost>> /\ pc' = pc
           /\ shuffler' = shuffler \cup {d} /\ held' = held \cup {d}
  <2>1. \A i \in DOMAIN delivered : delivered[i] # d /\ ~(delivered[i] > d)
    BY <1>0, <1>1, <1>3 DEF Dgrams
  <2>2. \A e \in held' : e <= received'
    BY <1>0, <1>1, <1>2, <1>4, <1>6 DEF HeldInv, Dgrams
  <2>3. cur' \notin held'
    BY <1>1, <1>4, <1>6 DEF HeldInv
  <2>4. \A i \in DOMAIN delivered, e \in held : Overtakes(i, e)' <=> Overtakes(i, e)
    BY <1>2, <1>6, <2>1 DEF Overtakes
  <2>5. \A i \in DOMAIN delivered : ~Overtakes(i, d)'
    BY <1>2, <2>1 DEF Overtakes
  <2>6. HeldInv'
    BY <1>1, <1>2, <1>6, <2>2, <2>3, <2>4, <2>5 DEF HeldInv, Delivered
  <2>7. OvertakenOnce'
    BY <1>2, <1>6, <2>4, <2>5 DEF OvertakenOnce, WrittenBefore
  <2> QED
    BY <2>6, <2>7
<1>7. CASE UNCHANGED <<shuffler, held, lost>> /\ cur' = d /\ pc' = "send"
  <2>1. HeldInv'
    <3>1. \A e \in held : e <= received'
      BY <1>0, <1>1, <1>2, <1>4 DEF HeldInv, Dgrams
    <3> QED
      BY <1>1, <1>2, <1>4, <1>7, <3>1 DEF HeldInv, Overtakes, Delivered
  <2>2. OvertakenOnce'
    BY <1>2, <1>7 DEF OvertakenOnce, Overtakes, WrittenBefore
  <2> QED
    BY <2>1, <2>2
<1> QED
  BY <1>0, <1>5, <1>6, <1>7 DEF Receive, Take, fates

\* Only the datagram sent straight before a flush passes those held.
LEMMA OvertakingStep ==
  PumpInv /\ HeldInv /\ OvertakenOnce /\ [Next]_vars => HeldInv' /\ OvertakenOnce'
<1> SUFFICES ASSUME PumpInv, HeldInv, OvertakenOnce, [Next]_vars
             PROVE  HeldInv' /\ OvertakenOnce'
  OBVIOUS
<1>1. ASSUME NEW drop, NEW swap, Receive(drop, swap)
      PROVE  HeldInv' /\ OvertakenOnce'
  BY <1>1, ReceivePasses
<1>2. ASSUME NEW outcome, SendCurrent(outcome)
      PROVE  HeldInv' /\ OvertakenOnce'
  <2>1. /\ SendDgram(cur, outcome) /\ held' = held /\ shuffler' = shuffler
        /\ received' = received /\ pc = "send" /\ pc' = "flush" /\ cur' = 0
    BY <1>2 DEF SendCurrent, SendThen
  <2>2. cur \in Dgrams /\ ~Delivered(cur) /\ cur \notin lost
    BY <2>1, PumpAssumption DEF PumpInv, TypeOK, SendingCur, ExactlyOneFate, Dgrams
  <2>3. OvertakenOnce'
    BY <2>1, <2>2, WritePasses
  <2>4. HeldInv'
    <3>1. \A e \in Dgrams : Delivered(e) \/ e \in lost => Delivered(e)' \/ e \in lost'
      BY <2>1, <2>2, SendSettles DEF PumpInv
    <3>2. held \subseteq Dgrams /\ 0 \notin Dgrams
      BY DEF PumpInv, TypeOK, Dgrams
    <3> QED
      BY <2>1, <3>1, <3>2 DEF HeldInv
  <2> QED
    BY <2>3, <2>4
<1>3. ASSUME NEW outcome, NEW d \in Dgrams, FlushOne(d, outcome)
      PROVE  HeldInv' /\ OvertakenOnce'
  <2>1. /\ SendDgram(d, outcome) /\ held' = held /\ shuffler' = shuffler \ {d} /\ d \in shuffler
        /\ received' = received /\ pc \in {"flush", "closing"} /\ pc' = pc /\ cur' = cur
    BY <1>3 DEF FlushOne
  <2>2. d \in held /\ ~Delivered(d) /\ d \notin lost
    BY <2>1 DEF PumpInv, ExactlyOneFate, HeldInv
  <2>3. OvertakenOnce'
    BY <2>1, <2>2, WritePasses
  <2>4. HeldInv'
    <3>1. \A e \in Dgrams :
            Delivered(e) \/ e \in lost \/ e = d => Delivered(e)' \/ e \in lost'
      BY <2>1, <2>2, SendSettles DEF PumpInv
    <3>2. held \subseteq Dgrams
      BY DEF PumpInv, TypeOK
    <3> QED
      BY <2>1, <3>1, <3>2 DEF HeldInv
  <2> QED
    BY <2>3, <2>4
<1>4. CASE Offer \/ Close \/ UNCHANGED vars \/ ReceiveClosed \/ ReceiveTick \/ EndFlush \/ Tick
  <2>1. UNCHANGED <<cur, shuffler, delivered, held, received>> /\ lost \subseteq lost'
    BY <1>4 DEF Offer, Close, vars, fates, ReceiveClosed, ReceiveTick, EndFlush, Move, Tick
  <2>2. pc' \in {"select", "send"} => pc \in {"select", "send"} \/ shuffler = {}
    BY <1>4 DEF Offer, Close, vars, ReceiveClosed, ReceiveTick, EndFlush, Move, Tick
  <2> QED
    BY <2>1, <2>2, PassUnchanged
<1> QED
  BY <1>1, <1>2, <1>3, <1>4 DEF Next, Step

-----------------------------------------------------------------------------
(* The link.  Without -swappy nothing is ever held.                           *)

NoSwap == SwapPct = 0 => shuffler = {}

\* The coin never shows a fault that was not asked for.
LEMMA NeverAtZero == RandPercentCheck(0) = {FALSE}
BY DEF RandPercentCheck

\* Without -swappy nothing is ever held.
LEMMA NoSwapStep == NoSwap /\ [Next]_vars => NoSwap'
<1> SUFFICES ASSUME NoSwap, [Next]_vars, SwapPct = 0 PROVE shuffler' = {}
  BY DEF NoSwap
<1>1. ASSUME NEW drop, NEW swap \in RandPercentCheck(SwapPct), Receive(drop, swap)
      PROVE  shuffler' = {}
  BY <1>1, NeverAtZero DEF Receive, Take, NoSwap, RandPercentCheck
<1>2. ASSUME NEW outcome, NEW d \in Dgrams, SendCurrent(outcome) \/ FlushOne(d, outcome)
      PROVE  shuffler' = {}
  BY <1>2 DEF SendCurrent, SendThen, FlushOne, NoSwap
<1>3. CASE Offer \/ Close \/ UNCHANGED vars \/ ReceiveClosed \/ ReceiveTick \/ EndFlush \/ Tick
  BY <1>3 DEF Offer, Close, vars, ReceiveClosed, ReceiveTick, EndFlush, Move, Tick, NoSwap
<1> QED
  BY <1>1, <1>2, <1>3 DEF Next, Step, SendCurrent, SendThen, NoSwap

\* What the link has in transit is what the channel, the goroutine and the
\* shuffler hold.
LEMMA InTransitIs ==
  ASSUME PumpInv
  PROVE  \A d : d \in Link!InTransit <=>
                  d \in 1..offered /\ (d > received \/ d = cur \/ d \in shuffler)
<1>1. Link!ToSet(delivered) = {delivered[i] : i \in DOMAIN delivered}
  BY DEF Link!ToSet
<1>2. \A d : d \in Link!ToSet(delivered) <=> Delivered(d)
  BY <1>1 DEF Delivered
<1>3. ASSUME NEW d \in 1..offered
      PROVE  /\ d \in Dgrams /\ (d > received <=> ~(d <= received))
             /\ d <= received <=> d = cur \/ d \in shuffler \/ Delivered(d) \/ d \in lost
             /\ d = cur \/ d \in shuffler => ~Delivered(d) /\ d \notin lost
  <2>1. d \in Dgrams /\ d \in Nat /\ received \in Nat
    BY PumpAssumption DEF PumpInv, TypeOK, Dgrams
  <2> QED
    BY <2>1 DEF PumpInv, ExactlyOneFate
<1>4. \A d : d \in Link!InTransit <=> d \in 1..offered /\ ~Delivered(d) /\ d \notin lost
  BY <1>2, Zenon DEF Link!InTransit
<1> QED
  BY <1>3, <1>4, Zenon

\* A write is a delivery or a loss of the link, in order when it must be.
LEMMA WriteSettles ==
  ASSUME PumpInv, NoSwap, NEW d \in Dgrams, NEW outcome \in Outcomes, SendDgram(d, outcome),
         offered' = offered, d = cur \/ d \in shuffler, d # 0
  PROVE  Link!Settle(d)
<1>1. d <= received /\ received \in Nat /\ offered \in Nat /\ received <= offered /\ d \in Nat
      /\ d \in 1..offered
  <2>1. d <= received
    BY DEF PumpInv, ExactlyOneFate
  <2> QED
    BY <2>1 DEF PumpInv, TypeOK, Dgrams
<1>2. d \in Link!InTransit
  BY <1>1, InTransitIs
<1>3. SwapPct > 0 \/ \A e \in Link!InTransit : d <= e
  <2>1. CASE SwapPct = 0
    <3> SUFFICES ASSUME NEW e \in Link!InTransit PROVE d <= e
      OBVIOUS
    <3>1. shuffler = {} /\ d = cur
      BY <2>1 DEF NoSwap
    <3>2. e \in 1..offered /\ (e > received \/ e = cur)
      BY <3>1, InTransitIs
    <3> QED
      BY <1>1, <3>1, <3>2
  <2> QED
    BY <2>1, PumpAssumption
<1>4. CASE delivered' = Append(delivered, d) /\ lost' = lost
  BY <1>2, <1>3, <1>4 DEF Link!Settle, Link!Deliver
<1>5. CASE outcome = "error" /\ delivered' = delivered /\ lost' = lost \cup {d}
  BY <1>2, <1>5 DEF Link!Settle, Link!Lose
<1> QED
  BY <1>4, <1>5 DEF SendDgram

\* Every step of the pump is a step of the link or leaves it alone.
LEMMA LinkStep ==
  PumpInv /\ NoSwap /\ [Next]_vars => [Link!Next]_(Link!vars)
<1> SUFFICES ASSUME PumpInv, NoSwap, [Next]_vars PROVE [Link!Next]_(Link!vars)
  OBVIOUS
<1>1. CASE Offer
  BY <1>1 DEF Offer, fates, Link!Next, Link!Offer
<1>2. ASSUME NEW drop \in RandPercentCheck(DropPct), NEW swap, Receive(drop, swap)
      PROVE  [Link!Next]_(Link!vars)
  <2> DEFINE d == received + 1
  <2>1. CASE UNCHANGED fates
    BY <1>2, <2>1 DEF Receive, Take, fates, chan, Link!vars
  <2>2. CASE shuffler' = shuffler \cup {d} /\ lost' = lost /\ delivered' = delivered
    BY <1>2, <2>2 DEF Receive, Take, chan, Link!vars
  <2>3. CASE drop /\ lost' = lost \cup {d} /\ delivered' = delivered
    <3>1. d \in Dgrams /\ received < offered /\ received \in Nat /\ offered \in Nat
      BY <1>2, NextIsFresh DEF Receive, Take, PumpInv, TypeOK
    <3>2. d \in Link!InTransit
      BY <3>1, InTransitIs DEF Dgrams
    <3>3. DropPct > 0
      <4>1. DropPct # 0
        BY <1>2, <2>3, NeverAtZero, Zenon
      <4> QED
        BY <4>1, PumpAssumption
    <3>4. offered' = offered
      BY <1>2 DEF Receive, Take, chan
    <3>5. Link!Lose(d)
      BY <2>3, <3>2, <3>3, <3>4 DEF Link!Lose
    <3> QED
      BY <3>1, <3>5 DEF Link!Next, Link!Settle, Dgrams
  <2> QED
    BY <1>2, <2>1, <2>2, <2>3 DEF Receive, Take, fates
<1>3. ASSUME NEW outcome \in Outcomes, SendCurrent(outcome)
      PROVE  [Link!Next]_(Link!vars)
  <2>1. cur \in Dgrams /\ cur # 0 /\ SendDgram(cur, outcome) /\ offered' = offered
    BY <1>3, PumpAssumption DEF SendCurrent, SendThen, PumpInv, TypeOK, SendingCur, Dgrams, chan
  <2>2. Link!Settle(cur)
    BY <2>1, WriteSettles
  <2> QED
    BY <2>1, <2>2 DEF Link!Next, Dgrams
<1>4. ASSUME NEW outcome \in Outcomes, NEW d \in Dgrams, FlushOne(d, outcome)
      PROVE  [Link!Next]_(Link!vars)
  <2>1. d # 0 /\ SendDgram(d, outcome) /\ offered' = offered /\ d \in shuffler
    BY <1>4 DEF FlushOne, Dgrams, chan
  <2>2. Link!Settle(d)
    BY <2>1, WriteSettles
  <2> QED
    BY <2>2 DEF Link!Next, Dgrams
<1>5. CASE Close \/ UNCHANGED vars \/ ReceiveClosed \/ ReceiveTick \/ EndFlush \/ Tick
  BY <1>5 DEF Close, vars, fates, chan, ReceiveClosed, ReceiveTick, EndFlush, Move, Tick, Link!vars
<1> QED
  BY <1>1, <1>2, <1>3, <1>4, <1>5 DEF Next, Step

-----------------------------------------------------------------------------
(* The theorems. *)

\* The variables of dgramsToSocket keep their types, for every limit and rate.
THEOREM TypeCorrect == Spec => []TypeOK
<1>1. PumpInv => TypeOK
  BY DEF PumpInv
<1> QED
  BY <1>1, PumpInvAlways, PTL

\* No datagram taken from the channel is forgotten or written twice, however
\* drops, swaps, ticks and failed writes alternate.
THEOREM NoDatagramForgotten == Spec => []ExactlyOneFate
<1>1. PumpInv => ExactlyOneFate
  BY DEF PumpInv
<1> QED
  BY <1>1, PumpInvAlways, PTL

\* The goroutine returns only when all that entered the channel is settled.
THEOREM ReturnsEmptyHanded == Spec => []NothingLeftBehind
<1>1. PumpInv => NothingLeftBehind
  <2> SUFFICES ASSUME PumpInv, pc = "done", NEW d \in 1..offered
               PROVE  Delivered(d) \/ d \in lost
    BY DEF NothingLeftBehind
  <2>1. d \in Dgrams /\ d <= received /\ shuffler = {}
    BY PumpAssumption DEF PumpInv, TypeOK, ClosingEmpty, Dgrams
  <2>2. d # cur
    BY <2>1 DEF PumpInv, SendingCur, Dgrams
  <2> QED
    BY <2>1, <2>2 DEF PumpInv, ExactlyOneFate
<1> QED
  BY <1>1, PumpInvAlways, PTL

\* Nothing is held for longer than MaxDelay once datagrams stop being stored,
\* although every datagram stored restarts the ticker.
THEOREM FlushedWhenQuiet == Spec => []QuietFlush
<1>1. Init => TickerInTime
  BY TickerInit
<1>2. TypeOK /\ TickerInTime /\ [Next]_vars => TickerInTime'
  BY TickerStep
<1>3. TickerInTime => QuietFlush
  BY DEF TickerInTime, QuietFlush
<1> QED
  BY <1>1, <1>2, <1>3, TypeCorrect, PTL DEF Spec

\* The byte counters never show more going out than came in, and what is held or
\* being sent is not counted as out, whatever short writes there are.
THEOREM BytesNeverAhead == Spec => []BytesBalance
<1>1. Init => BytesInv
  <2> SUFFICES ASSUME Init PROVE bytesOut + DgramSize * Pending <= bytesIn
    BY DEF BytesInv
  <2>1. Pending = 0 /\ bytesOut = 0 /\ bytesIn = 0
    BY FS_EmptySet DEF Init, Pending
  <2> QED
    BY <2>1, PumpAssumption
<1>2. PumpInv /\ BytesInv /\ [Next]_vars => BytesInv'
  BY BytesStep
<1>3. PumpInv /\ BytesInv => BytesBalance
  <2> SUFFICES ASSUME PumpInv, BytesInv PROVE BytesBalance
    OBVIOUS
  <2> DEFINE n == Cardinality(shuffler)
  <2>1. /\ n \in Nat /\ bytesIn \in Nat /\ bytesOut \in Nat /\ DgramSize \in Nat
        /\ Pending \in {n, n + 1}
    BY PumpAssumption, HeldCounts DEF PumpInv, TypeOK, Pending
  <2> HIDE DEF n
  <2>2. DgramSize * n \in Nat /\ DgramSize * (n + 1) = DgramSize * n + DgramSize
    BY <2>1
  <2>3. bytesOut + DgramSize * n <= bytesIn
    BY <2>1, <2>2 DEF BytesInv
  <2> QED
    BY <2>3 DEF BytesBalance, n
<1> QED
  BY <1>1, <1>2, <1>3, PumpInvAlways, PTL DEF Spec

\* A held datagram is passed by at most one later datagram that was not held
\* itself: the one whose sending starts the flush.
THEOREM PassedOnceAtMost == Spec => []OvertakenOnce
<1>1. Init => HeldInv /\ OvertakenOnce
  BY DEF Init, HeldInv, OvertakenOnce
<1>2. PumpInv /\ HeldInv /\ OvertakenOnce /\ [Next]_vars => HeldInv' /\ OvertakenOnce'
  BY OvertakingStep
<1> QED
  BY <1>1, <1>2, PumpInvAlways, PTL DEF Spec

\* The pump implements the safety part of the link: what dgramsToSocket writes
\* was offered, once, in order unless -swappy is given, and nothing is lost
\* unless -drop is given or the socket refuses it.
THEOREM ImplementsLink == Spec => Link!Init /\ [][Link!Next]_(Link!vars)
<1>1. Init => Link!Init /\ NoSwap
  BY DEF Init, Link!Init, NoSwap
<1>2. NoSwap /\ [Next]_vars => NoSwap'
  BY NoSwapStep
<1>3. PumpInv /\ NoSwap /\ [Next]_vars => [Link!Next]_(Link!vars)
  BY LinkStep
<1> QED
  BY <1>1, <1>2, <1>3, PumpInvAlways, PTL DEF Spec
=============================================================================
