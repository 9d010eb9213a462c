---------------------------- MODULE PowerLog_proofs ----------------------------
(***************************************************************************)
(* What the powerlog program guarantees for every number of channels and   *)
(* ticks, with a copy of the line or without one.                          *)
(***************************************************************************)
EXTENDS PowerLog, TLAPS

\* Inside a transfer the bytes the bus has moved and those left make up the
\* message, and the flags suit its direction; outside it the message is not busy.
BusInv ==
  /\ at = "out" => ~msg.busy
  /\ at # "out" =>
       /\ msg.len <= asked
       /\ acks = asked - msg.len + (IF line \in {"acked", "received"} THEN 1 ELSE 0)
       /\ msg.rd => line # "acked" /\ msg.len >= 1
       /\ ~msg.rd => line # "received"

\* Only these two steps of main wait for a transfer, and one that returned
\* without an error has moved every byte.
TransferInv ==
  /\ at # "out" => pc \in {"reading", "configured"}
  /\ pc \in {"reading", "configured"} /\ at = "out" /\ ret = "ok" => Moved

\* The readings of this sample that come before the one under way.
Earlier == ((1..(ch - 1)) \X {"shunt", "bus"})
             \cup (IF reg = "bus" THEN {<<ch, "shunt">>} ELSE {})

\* A sample with no failure so far has them all.
SampleInv ==
  /\ pc \in Sampling => run_sample
  /\ pc \in {"read", "reading", "line"} => buf.kind = "partial"
  /\ pc \in {"read", "reading"} => ch \in 1..Channels /\ (~fail => Earlier \subseteq read)
  /\ pc = "line" /\ ~fail => read = Readings

\* The line being made has not been handed over.
Unwritten == pc \in {"read", "reading", "line", "write"}

\* What the host has seen and what is on its way to it: with a copy, older than
\* the line being made; without one, the line in buf, seen once at most before
\* it is handed over.
HostInv ==
  /\ sample_id >= 1 => buf.id = sample_id - 1
  /\ Unwritten => sample_id >= 1
  /\ last < sample_id
  /\ copied =>
       /\ Unwritten => last < sample_id - 1
       /\ flight # NoLine =>
            flight \in Bufs /\ last < flight.id /\ flight.id < sample_id
       /\ flight # NoLine /\ Unwritten => flight.id < sample_id - 1
  /\ ~copied =>
       /\ flight # NoLine => sample_id >= 1
       /\ last = sample_id - 1 /\ flight # NoLine => ~Unwritten /\ times <= 1
       /\ last = sample_id - 1 /\ Unwritten => times <= 1

IInv ==
  /\ TypeOK /\ BusInv /\ TransferInv /\ SampleInv /\ TicksAccounted /\ LinesTrue /\ HostInv

-----------------------------------------------------------------------------
(* Only main's own steps touch the bus. *)

\* Initially everything is where it belongs.
LEMMA InitOK == Init => IInv
<1> SUFFICES ASSUME Init PROVE IInv
  OBVIOUS
<1> USE PowerLogAssumption DEF Init, I2cInit
<1>1. TypeOK
  <2>1. I2cTypeOK
    <3>1. /\ msg \in [rd : BOOLEAN, len : 0..2, stop : BOOLEAN, busy : BOOLEAN]
          /\ asked \in 0..2 /\ acks \in 0..3
          /\ at \in {"out", "address", "loop"}
          /\ line \in {"moving", "acked", "nacked", "lost", "error", "received"}
          /\ ret \in {"ok", "nack", "bus", "bad_address", "busy"}
      OBVIOUS
    <3>2. owner \in BOOLEAN
      OBVIOUS
    <3> QED
      BY <3>1, <3>2 DEF I2cTypeOK
  <2>2. /\ pc \in Booting /\ ch \in 0..Channels /\ buf \in Bufs /\ read \subseteq Readings
        /\ reg \in {"shunt", "bus"} /\ part \in {"register", "content"}
    BY DEF Booting, Bufs, Kinds
  <2>3. open \in BOOLEAN /\ fail \in BOOLEAN /\ run_sample \in BOOLEAN
    BY DEF Pipe!Init
  <2>4. flight = NoLine /\ copied \in Copies
    BY DEF Pipe!Init
  <2>5. sample_id \in Nat /\ ticks \in Nat /\ done \in Nat /\ overruns \in Nat
        /\ last \in Nat \cup {-1} /\ times \in Nat
    OBVIOUS
  <2> QED
    BY <2>1, <2>2, <2>3, <2>4, <2>5 DEF TypeOK
<1>2. BusInv /\ TransferInv /\ SampleInv
  BY DEF BusInv, TransferInv, SampleInv, Sampling
<1>3. TicksAccounted /\ LinesTrue
  BY DEF TicksAccounted, LinesTrue
<1>4. HostInv
  BY DEF HostInv, Unwritten, Pipe!Init
<1> QED
  BY <1>1, <1>2, <1>3, <1>4 DEF IInv

-----------------------------------------------------------------------------
(* The bus, taken alone. *)

\* A transfer that main begins is never refused as busy.
LEMMA TransferOK ==
  ASSUME I2cTypeOK, BusInv, NEW m, Transfer(m),
         m = Register \/ (\E rd \in BOOLEAN : m = Content(rd))
  PROVE  I2cTypeOK' /\ BusInv' /\ at' = "address"
<1>1. at = "out" /\ ~msg.busy
  BY DEF Transfer, BusInv
<1>2. /\ msg' = [rd |-> m.rd, len |-> m.len, stop |-> m.stop, busy |-> TRUE]
      /\ asked' = m.len /\ at' = "address" /\ line' = "moving" /\ acks' = 0
      /\ owner' = TRUE /\ ret' = ret
  BY <1>1 DEF Transfer
<1>3. m.rd \in BOOLEAN /\ m.stop \in BOOLEAN /\ m.len \in 1..2
  <2>1. CASE m = Register
    <3>1. m.rd \in BOOLEAN /\ m.stop \in BOOLEAN
      BY <2>1, Zenon DEF Register
    <3>2. m.len \in 1..2
      BY <2>1 DEF Register
    <3> QED
      BY <3>1, <3>2, Zenon
  <2>2. ASSUME NEW rd \in BOOLEAN, m = Content(rd)
        PROVE  m.rd \in BOOLEAN /\ m.stop \in BOOLEAN /\ m.len \in 1..2
    <3>1. m.rd \in BOOLEAN /\ m.stop \in BOOLEAN
      BY <2>2, Zenon DEF Content
    <3>2. m.len \in 1..2
      BY <2>2 DEF Content
    <3> QED
      BY <3>1, <3>2, Zenon
  <2> QED
    BY <2>1, <2>2
<1>4. msg' \in [rd : BOOLEAN, len : 0..2, stop : BOOLEAN, busy : BOOLEAN]
  BY <1>2, <1>3
<1>5. I2cTypeOK'
  BY <1>2, <1>3, <1>4 DEF I2cTypeOK
<1>6. BusInv'
  BY <1>2, <1>3 DEF BusInv
<1> QED
  BY <1>2, <1>5, <1>6

\* The controller's answers keep the count of what was moved.
LEMMA AnswerOK ==
  ASSUME I2cTypeOK, BusInv, Answer("acked") \/ Answer("nacked") \/ Answer("lost")
                              \/ Answer("error") \/ Answer("received")
  PROVE  I2cTypeOK' /\ BusInv' /\ at' = at /\ at # "out"
<1>1. PICK a \in {"acked", "nacked", "lost", "error", "received"} : Answer(a)
  OBVIOUS
<1>2. /\ at # "out" /\ line = "moving" /\ a # (IF msg.rd THEN "acked" ELSE "received")
      /\ line' = a /\ msg' = msg /\ asked' = asked /\ at' = at /\ ret' = ret
      /\ acks' = IF a \in {"acked", "received"} THEN acks + 1 ELSE acks
  BY <1>1 DEF Answer
<1>3. owner' \in BOOLEAN
  BY <1>1 DEF Answer
<1>4. BusInv'
  BY <1>2 DEF I2cTypeOK, BusInv
<1>5. acks' \in 0..3
  BY <1>2 DEF I2cTypeOK, BusInv
<1>6. I2cTypeOK'
  BY <1>2, <1>3, <1>5 DEF I2cTypeOK
<1> QED
  BY <1>2, <1>4, <1>6

\* A step of the transfer ends it with an error, or with every byte moved, or
\* goes on with it.
LEMMA I2cStepOK ==
  ASSUME I2cTypeOK, BusInv, I2cStep
  PROVE  I2cTypeOK' /\ BusInv' /\ at # "out" /\ (at' = "out" /\ ret' = "ok" => Moved')
<1>0. msg \in [rd : BOOLEAN, len : 0..2, stop : BOOLEAN, busy : BOOLEAN] /\ owner \in BOOLEAN
  BY DEF I2cTypeOK
<1>1. ASSUME NEW r \in {"nack", "bus", "bad_address"}, NEW stopped, at # "out",
             End(r, stopped), UNCHANGED <<asked, line, acks>>
      PROVE  I2cTypeOK' /\ BusInv' /\ (at' = "out" /\ ret' = "ok" => Moved')
  <2>1. at' = "out" /\ ret' = r /\ msg' = [msg EXCEPT !.busy = FALSE]
        /\ asked' = asked /\ line' = line /\ acks' = acks
    BY <1>1 DEF End
  <2>2. msg' \in [rd : BOOLEAN, len : 0..2, stop : BOOLEAN, busy : BOOLEAN] /\ ~msg'.busy
    BY <1>0, <2>1
  <2>3. owner' \in BOOLEAN
    BY <1>1 DEF End
  <2>4. I2cTypeOK'
    BY <2>1, <2>2, <2>3 DEF I2cTypeOK
  <2> QED
    BY <2>1, <2>2, <2>4 DEF BusInv
<1>2. CASE Lost
  BY <1>2, <1>1 DEF Lost
<1>3. CASE Refused
  BY <1>3, <1>1 DEF Refused
<1>4. CASE SendByte
  <2>1. /\ msg' = [msg EXCEPT !.len = msg.len - 1] /\ at' = "loop" /\ line' = "moving"
        /\ asked' = asked /\ acks' = acks /\ owner' = owner /\ ret' = ret
        /\ at # "out" /\ line = "acked" /\ msg.len > 0
    BY <1>4 DEF SendByte
  <2>2. msg' \in [rd : BOOLEAN, len : 0..2, stop : BOOLEAN, busy : BOOLEAN]
    BY <1>0, <2>1
  <2>3. msg'.rd = msg.rd /\ msg'.len = msg.len - 1
    BY <1>0, <2>1
  <2>4. ~msg.rd /\ msg.len <= asked /\ acks = asked - msg.len + 1
    BY <2>1 DEF BusInv
  <2>5. I2cTypeOK'
    BY <2>1, <2>2 DEF I2cTypeOK
  <2>6. BusInv'
    BY <1>0, <2>1, <2>3, <2>4 DEF BusInv, I2cTypeOK
  <2> QED
    BY <2>1, <2>5, <2>6
<1>5. CASE AllSent
  <2>1. /\ at' = "out" /\ ret' = "ok" /\ msg' = [msg EXCEPT !.busy = FALSE]
        /\ asked' = asked /\ line' = line /\ acks' = acks
        /\ at # "out" /\ line = "acked" /\ msg.len = 0
    BY <1>5 DEF AllSent, End
  <2>2. msg' \in [rd : BOOLEAN, len : 0..2, stop : BOOLEAN, busy : BOOLEAN] /\ ~msg'.busy
    BY <1>0, <2>1
  <2>3. owner' \in BOOLEAN
    BY <1>5 DEF AllSent, End
  <2>4. ~msg.rd /\ acks = asked + 1 /\ msg'.rd = msg.rd
    BY <1>0, <2>1 DEF BusInv, I2cTypeOK
  <2>5. I2cTypeOK'
    BY <2>1, <2>2, <2>3 DEF I2cTypeOK
  <2> QED
    BY <2>1, <2>2, <2>4, <2>5 DEF BusInv, Moved
<1>6. CASE ReadByte
  <2>1. at # "out" /\ line = "received" /\ asked' = asked /\ acks' = acks
    BY <1>6 DEF ReadByte
  <2>2. msg.rd /\ msg.len >= 1 /\ msg.len <= asked /\ acks = asked - msg.len + 1
    BY <2>1 DEF BusInv
  <2>3. CASE msg.len > 1
    <3>1. /\ msg' = [msg EXCEPT !.len = msg.len - 1] /\ at' = "loop" /\ line' = "moving"
          /\ owner' = owner /\ ret' = ret
      BY <1>6, <2>3 DEF ReadByte
    <3>2. msg' \in [rd : BOOLEAN, len : 0..2, stop : BOOLEAN, busy : BOOLEAN]
      BY <1>0, <2>3, <3>1
    <3>3. msg'.rd = msg.rd /\ msg'.len = msg.len - 1
      BY <1>0, <3>1
    <3>4. I2cTypeOK'
      BY <2>1, <3>1, <3>2 DEF I2cTypeOK
    <3> QED
      BY <1>0, <2>1, <2>2, <2>3, <3>1, <3>3, <3>4 DEF BusInv, I2cTypeOK
  <2>4. CASE ~(msg.len > 1)
    <3>1. /\ at' = "out" /\ ret' = "ok" /\ msg' = [msg EXCEPT !.len = 0, !.busy = FALSE]
          /\ line' = line
      BY <1>6, <2>4 DEF ReadByte
    <3>2. /\ msg' \in [rd : BOOLEAN, len : 0..2, stop : BOOLEAN, busy : BOOLEAN]
          /\ msg'.rd = msg.rd /\ ~msg'.busy
      <4>1. msg' = [[msg EXCEPT !.len = 0] EXCEPT !.busy = FALSE]
        BY <3>1
      <4>2. [msg EXCEPT !.len = 0] \in [rd : BOOLEAN, len : 0..2, stop : BOOLEAN, busy : BOOLEAN]
            /\ [msg EXCEPT !.len = 0].rd = msg.rd
        BY <1>0
      <4> QED
        BY <4>1, <4>2
    <3>3. owner' \in BOOLEAN
      BY <1>6, <2>4 DEF ReadByte
    <3>4. acks = asked
      BY <1>0, <2>2, <2>4 DEF I2cTypeOK
    <3>5. I2cTypeOK'
      BY <2>1, <3>1, <3>2, <3>3 DEF I2cTypeOK
    <3> QED
      BY <2>1, <2>2, <3>1, <3>2, <3>4, <3>5 DEF BusInv, Moved
  <2> QED
    BY <2>1, <2>3, <2>4
<1>7. CASE AddressTimeout
  <2>1. /\ at = "address" /\ at' = "loop" /\ msg' = msg /\ asked' = asked /\ line' = line
        /\ acks' = acks /\ owner' = owner /\ ret' = ret
    BY <1>7 DEF AddressTimeout
  <2> QED
    BY <2>1 DEF I2cTypeOK, BusInv
<1>8. CASE WaitTimeout
  BY <1>8, <1>1 DEF WaitTimeout
<1>9. at # "out"
  BY DEF I2cStep, Lost, Refused, SendByte, AllSent, ReadByte, AddressTimeout, WaitTimeout
<1> QED
  BY <1>2, <1>3, <1>4, <1>5, <1>6, <1>7, <1>8, <1>9 DEF I2cStep

-----------------------------------------------------------------------------
(* The steps of main, of its interrupts and of its environment. *)

\* The bus is touched by main's two calls of Transfer, by the transfer's own
\* steps and by the sensor.
LEMMA BusPreserved ==
  ASSUME TypeOK, BusInv, TransferInv, Next
  PROVE  I2cTypeOK' /\ BusInv' /\ TransferInv'
<1>0. I2cTypeOK
  BY DEF TypeOK
<1>1. CASE Configure \/ Read
  <2>1. PICK m : Transfer(m) /\ (m = Register \/ (\E rd \in BOOLEAN : m = Content(rd)))
    BY <1>1 DEF Configure, Read
  <2>2. I2cTypeOK' /\ BusInv' /\ at' = "address"
    BY <1>0, <2>1, TransferOK
  <2>3. pc' \in {"reading", "configured"}
    BY <1>1 DEF Configure, Read, Goto
  <2> QED
    BY <2>2, <2>3 DEF TransferInv
<1>2. CASE Step(I2cStep)
  <2>1. pc' = pc
    BY <1>2 DEF Step
  <2>2. I2cTypeOK' /\ BusInv' /\ at # "out" /\ (at' = "out" /\ ret' = "ok" => Moved')
    BY <1>0, <1>2, I2cStepOK DEF Step
  <2> QED
    BY <2>1, <2>2 DEF TransferInv
<1>3. CASE Sensor
  <2>1. pc' = pc /\ I2cTypeOK' /\ BusInv' /\ at' = at /\ at # "out"
    BY <1>0, <1>3, AnswerOK DEF Sensor, Step
  <2> QED
    BY <2>1 DEF TransferInv
<1>4. CASE Boot \/ Configured \/ BeginSample \/ TransferDone \/ EndLine \/ Write \/ ClearRun
  <2>1. UNCHANGED bus /\ at = "out" /\ pc' \notin {"reading", "configured"}
    BY <1>4 DEF Boot, Configured, BeginSample, TransferDone, NextChannel, EndLine, Write,
       ClearRun, At, Goto
  <2> QED
    BY <1>0, <2>1 DEF I2cTypeOK, BusInv, TransferInv, bus
<1>5. CASE Callback \/ Smash \/ Deliver \/ Reconfigure
  <2>1. UNCHANGED bus /\ pc' = pc
    BY <1>5 DEF Callback, Smash, Deliver, Reconfigure
  <2> QED
    BY <1>0, <2>1 DEF I2cTypeOK, BusInv, TransferInv, bus, Moved
<1> QED
  BY <1>1, <1>2, <1>3, <1>4, <1>5 DEF Next, Main

\* The program counter and the reading under way.
LEMMA PlacePreserved ==
  ASSUME TypeOK, SampleInv, Next
  PROVE  /\ pc' \in Booting \cup Errors \cup Sampling \cup {"wait"}
         /\ ch' \in 0..Channels /\ reg' \in {"shunt", "bus"}
         /\ part' \in {"register", "content"} /\ read' \subseteq Readings
<1> USE PowerLogAssumption DEF Booting, Errors, Sampling
<1>1. CASE Boot \/ Configure \/ Configured
  BY <1>1 DEF TypeOK, Boot, Configure, Configured, Goto, sample
<1>2. CASE BeginSample
  BY <1>2 DEF TypeOK, BeginSample, Goto
<1>3. CASE Read \/ EndLine \/ Write \/ ClearRun
  BY <1>3 DEF TypeOK, Read, EndLine, Write, ClearRun, Goto, sample
<1>4. CASE TransferDone
  <2>1. pc = "reading" /\ ch \in 1..Channels
    BY <1>4 DEF TransferDone, At, SampleInv
  <2>2. <<ch, reg>> \in Readings
    BY <2>1 DEF TypeOK, Readings
  <2>3. read' \subseteq Readings
    BY <1>4, <2>2 DEF TransferDone, TypeOK
  <2> QED
    BY <1>4, <2>1, <2>3 DEF TransferDone, NextChannel, Goto, TypeOK
<1>5. CASE Step(I2cStep) \/ Sensor \/ Callback \/ Smash \/ Deliver \/ Reconfigure
  <2>1. pc' = pc /\ UNCHANGED sample
    BY <1>5 DEF Step, Sensor, Callback, Smash, Deliver, Reconfigure
  <2> QED
    BY <2>1 DEF TypeOK, sample
<1> QED
  BY <1>1, <1>2, <1>3, <1>4, <1>5 DEF Next, Main

\* The flags.
LEMMA FlagsPreserved ==
  ASSUME TypeOK, Next
  PROVE  fail' \in BOOLEAN /\ run_sample' \in BOOLEAN /\ open' \in BOOLEAN /\ copied' \in Copies
<1>0. fail \in BOOLEAN /\ run_sample \in BOOLEAN /\ open \in BOOLEAN /\ copied \in Copies
  BY Zenon DEF TypeOK
<1>1. fail' \in BOOLEAN
  <2>1. fail' = fail \/ BeginSample \/ TransferDone
    BY Zenon DEF Next, Main, Boot, Configure, Configured, Read, EndLine, Write, ClearRun, Step,
       Sensor, Callback, Smash, Deliver, Reconfigure, sample
  <2> QED
    BY <1>0, <2>1, Zenon DEF BeginSample, TransferDone, MarkFailed
<1>2. run_sample' \in BOOLEAN
  <2>1. run_sample' = run_sample \/ ClearRun \/ Callback
    BY Zenon DEF Next, Main, Boot, Configure, Configured, BeginSample, Read, TransferDone,
       EndLine, Write, Step, Sensor, Smash, Deliver, Reconfigure
  <2> QED
    BY <1>0, <2>1, Zenon DEF ClearRun, Callback, Request
<1>3. open' \in BOOLEAN
  <2>1. open' = open \/ Write \/ Deliver \/ Reconfigure
    BY Zenon DEF Next, Main, Boot, Configure, Configured, BeginSample, Read, TransferDone,
       EndLine, ClearRun, Step, Sensor, Smash, Callback, usb
  <2> QED
    BY <1>0, <2>1, Zenon DEF Write, Deliver, Reconfigure, Pipe!Submit, Pipe!Deliver,
       Pipe!Reconfigure, usb
<1>4. copied' = copied
  BY Zenon DEF Next, Main, Boot, Configure, Configured, BeginSample, Read, TransferDone,
     EndLine, Write, ClearRun, Step, Sensor, Smash, Callback, Deliver, Reconfigure, memory
<1> QED
  BY <1>0, <1>1, <1>2, <1>3, <1>4

\* The line's memory and its number.
LEMMA BufPreserved ==
  ASSUME TypeOK, Next
  PROVE  sample_id' \in Nat /\ buf' \in Bufs
<1>0. sample_id \in Nat /\ buf \in Bufs
  BY DEF TypeOK
<1>1. CASE BeginSample
  BY <1>0, <1>1 DEF BeginSample, NextId, Bufs, Kinds
<1>2. CASE EndLine
  <2>1. sample_id' = sample_id /\ \E k \in Kinds : buf' = [buf EXCEPT !.kind = k]
    BY <1>2 DEF EndLine, Kinds
  <2> QED
    BY <1>0, <2>1 DEF Bufs
<1>3. CASE Smash
  <2>1. sample_id' = sample_id /\ \E k \in Kinds : buf' = [buf EXCEPT !.kind = k]
    BY <1>3 DEF Smash, Kinds
  <2> QED
    BY <1>0, <2>1 DEF Bufs
<1>4. CASE UNCHANGED memory
  BY <1>0, <1>4 DEF memory
<1> QED
  BY <1>1, <1>2, <1>3, <1>4, Zenon DEF Next, Main, Boot, Configure, Configured, Read,
     TransferDone, Write, ClearRun, Step, Sensor, Callback, Deliver, Reconfigure

\* The line on its way: handed over by Write alone.
LEMMA FlightPreserved ==
  ASSUME TypeOK, Next
  PROVE  flight' \in Bufs \cup {InBuf, NoLine}
<1>0. flight \in Bufs \cup {InBuf, NoLine} /\ buf \in Bufs
  BY DEF TypeOK
<1>1. CASE Write
  BY <1>0, <1>1 DEF Write, Pipe!Submit, Line, usb
<1>2. CASE Deliver \/ Reconfigure
  BY <1>2 DEF Deliver, Reconfigure, Pipe!Deliver, Pipe!Reconfigure
<1>3. CASE UNCHANGED usb
  BY <1>0, <1>3 DEF usb
<1> QED
  BY <1>1, <1>2, <1>3, Zenon DEF Next, Main, Boot, Configure, Configured, BeginSample, Read,
     TransferDone, EndLine, ClearRun, Step, Sensor, Callback, Smash

\* The counters and what the host has seen.
LEMMA CountsPreserved ==
  ASSUME TypeOK, HostInv, Next
  PROVE  /\ ticks' \in Nat /\ done' \in Nat /\ overruns' \in Nat
         /\ last' \in Nat \cup {-1} /\ times' \in Nat
<1>0. /\ ticks \in Nat /\ done \in Nat /\ overruns \in Nat
      /\ last \in Nat \cup {-1} /\ times \in Nat /\ buf \in Bufs
  BY DEF TypeOK
<1>1. CASE ClearRun
  BY <1>0, <1>1 DEF ClearRun, host
<1>2. CASE Callback
  BY <1>0, <1>2 DEF Callback, Request, host
<1>3. CASE Deliver
  <2>1. (IF copied THEN flight ELSE buf) \in Bufs
    BY <1>0, <1>3 DEF Deliver, Pipe!Deliver, HostInv
  <2>2. (IF copied THEN flight ELSE buf).id \in Nat
    BY <2>1 DEF Bufs
  <2> QED
    BY <1>0, <1>3, <2>2 DEF Deliver, counts, host
<1>4. CASE UNCHANGED <<counts, host>>
  BY <1>0, <1>4 DEF counts, host
<1> QED
  BY <1>1, <1>2, <1>3, <1>4, Zenon DEF Next, Main, Boot, Configure, Configured, BeginSample,
     Read, TransferDone, EndLine, Write, Step, Sensor, Smash, Reconfigure

\* A sample that has not failed has every reading before the one under way.
LEMMA SamplePreserved ==
  ASSUME TypeOK, TransferInv, SampleInv, Next
  PROVE  SampleInv'
<1> USE PowerLogAssumption DEF Sampling
<1>1. CASE Boot \/ Configure \/ Configured
  BY <1>1 DEF SampleInv, Boot, Configure, Configured, At, Goto
<1>2. CASE BeginSample
  <2>1. /\ pc' = "read" /\ run_sample /\ run_sample' = run_sample /\ ch' = 1 /\ reg' = "shunt"
        /\ buf'.kind = "partial"
    BY <1>2 DEF BeginSample, Goto
  <2>2. Earlier' = {}
    BY <2>1 DEF Earlier
  <2> QED
    BY <2>1, <2>2 DEF SampleInv
<1>3. CASE Read
  <2>1. pc = "read" /\ pc' = "reading" /\ UNCHANGED <<sample, memory, run_sample>>
    BY <1>3 DEF Read, At, Goto
  <2> QED
    BY <2>1 DEF SampleInv, Earlier, sample, memory
<1>4. CASE TransferDone
  <2>1. /\ pc = "reading" /\ at = "out" /\ run_sample /\ run_sample' = run_sample
        /\ buf' = buf /\ buf.kind = "partial" /\ ch \in 1..Channels
        /\ fail' = (fail \/ ret # "ok") /\ (~fail => Earlier \subseteq read)
        /\ read' = IF part = "content" /\ Moved THEN read \cup {<<ch, reg>>} ELSE read
    BY <1>4 DEF TransferDone, MarkFailed, SampleInv, At, memory
  <2>2. CASE ret # "ok"
    <3>1. fail'
      BY <2>1, <2>2
    <3>2. IF ch < Channels THEN ch' = ch + 1 /\ pc' = "read" ELSE pc' = "line"
      BY <1>4, <2>2 DEF TransferDone, NextChannel, Goto
    <3> QED
      BY <2>1, <3>1, <3>2 DEF SampleInv, TypeOK
  <2>3. CASE ret = "ok" /\ part = "register"
    <3>1. pc' = "read" /\ ch' = ch /\ reg' = reg /\ read' = read /\ fail' = fail
      <4>1. pc' = "read" /\ ch' = ch /\ reg' = reg /\ read' = read
        BY <1>4, <2>1, <2>3 DEF TransferDone, Goto
      <4>2. fail \in BOOLEAN /\ fail' = (fail \/ FALSE)
        BY <2>1, <2>3, Zenon DEF TypeOK
      <4>3. fail' = fail
        BY <4>2, Zenon
      <4> QED
        BY <4>1, <4>3, Zenon
    <3>2. Earlier' = Earlier
      BY <3>1, Zenon DEF Earlier
    <3> QED
      BY <2>1, <3>1, <3>2 DEF SampleInv
  <2>4. CASE ret = "ok" /\ part = "content"
    <3>1. read' = read \cup {<<ch, reg>>} /\ (~fail' => ~fail)
      BY <2>1, <2>4 DEF TransferInv
    <3>2. ~fail' => Earlier \subseteq read
      BY <2>1, <3>1, Zenon
    <3>3. CASE reg = "shunt"
      <4>1. pc' = "read" /\ ch' = ch /\ reg' = "bus"
        BY <1>4, <2>4, <3>3 DEF TransferDone, Goto
      <4>2. Earlier' = Earlier \cup {<<ch, reg>>}
        BY <3>3, <4>1 DEF Earlier
      <4>3. ~fail' => Earlier' \subseteq read'
        BY <3>1, <3>2, <4>2, Zenon
      <4> QED
        BY <2>1, <4>1, <4>3 DEF SampleInv
    <3>4. CASE reg = "bus"
      <4>1. Earlier \cup {<<ch, reg>>} = (1..ch) \X {"shunt", "bus"}
        BY <2>1, <3>4 DEF Earlier
      <4>2. ~fail' => (1..ch) \X {"shunt", "bus"} \subseteq read'
        BY <3>1, <3>2, <4>1, Zenon
      <4>3. /\ reg' = "shunt"
            /\ IF ch < Channels THEN ch' = ch + 1 /\ pc' = "read" ELSE pc' = "line"
        BY <1>4, <2>4, <3>4 DEF TransferDone, NextChannel, Goto
      <4>4. CASE ch < Channels
        <5>1. Earlier' = (1..ch) \X {"shunt", "bus"} /\ ch' \in 1..Channels
          BY <2>1, <4>3, <4>4 DEF Earlier
        <5> QED
          BY <2>1, <4>2, <4>3, <4>4, <5>1 DEF SampleInv
      <4>5. CASE ~(ch < Channels)
        <5>1. (1..ch) \X {"shunt", "bus"} = Readings
          BY <2>1, <4>5 DEF Readings
        <5>2. read' \subseteq Readings
          BY <2>1, <3>1, <3>4 DEF TypeOK, Readings
        <5> QED
          BY <2>1, <4>2, <4>3, <4>5, <5>1, <5>2 DEF SampleInv
      <4> QED
        BY <4>4, <4>5
    <3> QED
      BY <3>3, <3>4 DEF TypeOK
  <2> QED
    BY <2>2, <2>3, <2>4 DEF TypeOK
<1>5. CASE EndLine \/ Write
  <2>1. pc \in {"line", "write"} /\ pc' \in {"write", "clear"} /\ run_sample' = run_sample
    BY <1>5 DEF EndLine, Write, At, Goto
  <2> QED
    BY <2>1 DEF SampleInv
<1>6. CASE ClearRun
  BY <1>6 DEF ClearRun, Goto, SampleInv
<1>7. CASE Callback
  <2>1. pc' = pc /\ UNCHANGED <<sample, memory>> /\ (run_sample => run_sample')
    BY <1>7 DEF Callback, Request
  <2> QED
    BY <2>1 DEF SampleInv, Earlier, sample, memory
<1>8. CASE Smash
  <2>1. pc' = pc /\ pc \in {"clear", "wait"} /\ run_sample' = run_sample
    BY <1>8 DEF Smash
  <2> QED
    BY <2>1 DEF SampleInv
<1>9. CASE Step(I2cStep) \/ Sensor \/ Deliver \/ Reconfigure
  <2>1. pc' = pc /\ UNCHANGED <<sample, memory, run_sample>>
    BY <1>9 DEF Step, Sensor, Deliver, Reconfigure
  <2> QED
    BY <2>1 DEF SampleInv, Earlier, sample, memory
<1> QED
  BY <1>1, <1>2, <1>3, <1>4, <1>5, <1>6, <1>7, <1>8, <1>9 DEF Next, Main

\* A call of the callback is a request or an overrun, and the request it makes is
\* cleared by the end of a sample only.
LEMMA TicksPreserved ==
  ASSUME TypeOK, SampleInv, TicksAccounted, Next
  PROVE  TicksAccounted'
<1>1. CASE ClearRun
  <2>1. run_sample /\ ~run_sample' /\ done' = done + 1 /\ ticks' = ticks /\ overruns' = overruns
    BY <1>1 DEF ClearRun, At, SampleInv, Sampling
  <2> QED
    BY <2>1 DEF TicksAccounted, TypeOK
<1>2. CASE Callback
  <2>1. ticks' = ticks + 1 /\ done' = done
    BY <1>2 DEF Callback
  <2>2. CASE run_sample
    <3>1. overruns' = overruns + 1 /\ run_sample' = run_sample
      BY <1>2, <2>2 DEF Callback, Request
    <3> QED
      BY <2>1, <2>2, <3>1 DEF TicksAccounted, TypeOK
  <2>3. CASE ~run_sample
    <3>1. overruns' = overruns /\ run_sample'
      BY <1>2, <2>3 DEF Callback, Request
    <3> QED
      BY <2>1, <2>3, <3>1 DEF TicksAccounted, TypeOK
  <2> QED
    BY <2>2, <2>3
<1>3. CASE UNCHANGED <<counts, run_sample>>
  BY <1>3 DEF TicksAccounted, counts
<1> QED
  BY <1>1, <1>2, <1>3, Zenon DEF Next, Main, Boot, Configure, Configured, BeginSample,
     Read, TransferDone, EndLine, Write, Step, Sensor, Smash, Deliver, Reconfigure

\* A line becomes one of values only at its end, and the readings are forgotten
\* only when the next line takes its place.
LEMMA LinesPreserved ==
  ASSUME TypeOK, SampleInv, LinesTrue, Next
  PROVE  LinesTrue'
<1>1. CASE BeginSample
  BY <1>1 DEF BeginSample, LinesTrue
<1>2. CASE TransferDone
  BY <1>2 DEF TransferDone, At, SampleInv, LinesTrue, memory
<1>3. CASE EndLine
  <2>1. read' = read /\ pc = "line" /\ buf' = [buf EXCEPT !.kind = IF fail THEN "fail" ELSE "values"]
    BY <1>3 DEF EndLine, At, sample
  <2>2. fail => buf'.kind # "values"
    BY <2>1 DEF TypeOK, Bufs
  <2> QED
    BY <2>1, <2>2 DEF SampleInv, LinesTrue, Readings
<1>4. CASE Smash
  <2>1. read' = read /\ buf' = [buf EXCEPT !.kind = "smashed"]
    BY <1>4 DEF Smash, sample
  <2> QED
    BY <2>1 DEF TypeOK, Bufs, LinesTrue
<1>5. CASE UNCHANGED <<buf, read>>
  BY <1>5 DEF LinesTrue, Readings
<1> QED
  BY <1>1, <1>2, <1>3, <1>4, <1>5, Zenon DEF Next, Main, Boot, Configure, Configured,
     Read, Write, ClearRun, Step, Sensor, Callback, Deliver, Reconfigure, sample, memory

\* Steps that leave the host and the line on its way alone.
LEMMA HostUnmoved ==
  ASSUME HostInv, UNCHANGED <<sample_id, copied, usb, host>>, buf'.id = buf.id,
         Unwritten' => Unwritten
  PROVE  HostInv'
<1>1. /\ sample_id' = sample_id /\ copied' = copied /\ flight' = flight
      /\ last' = last /\ times' = times
  BY DEF usb, host
<1> QED
  BY <1>1 DEF HostInv

\* What the host is given: a line newer than the last one it could read, or,
\* without a copy, the one in buf for the second time at most.
LEMMA Delivered ==
  ASSUME TypeOK, HostInv, Deliver
  PROVE  /\ HostInv'
         /\ \/ UNCHANGED host
            \/ last' > last /\ times' = 1
            \/ ~copied /\ last' = last /\ times' <= 2
<1>1. /\ flight # NoLine /\ flight' = NoLine /\ pc' = pc /\ sample_id' = sample_id
      /\ buf' = buf /\ copied' = copied
  BY DEF Deliver, Pipe!Deliver, memory
<1>2. Unwritten' = Unwritten
  BY <1>1 DEF Unwritten
<1>3. CASE (IF copied THEN flight ELSE buf).kind = "smashed"
  <2>1. last' = last /\ times' = times
    BY <1>3 DEF Deliver, host
  <2> QED
    BY <1>1, <1>2, <2>1 DEF HostInv, host
<1>4. CASE (IF copied THEN flight ELSE buf).kind # "smashed"
  <2>1. /\ last' = (IF copied THEN flight ELSE buf).id
        /\ times' = IF (IF copied THEN flight ELSE buf).id = last THEN times + 1 ELSE 1
    BY <1>4 DEF Deliver
  <2>2. sample_id \in Nat /\ last \in Nat \cup {-1} /\ times \in Nat
    BY DEF TypeOK
  <2>3. CASE copied
    <3>1. last < flight.id /\ flight.id < sample_id /\ (Unwritten => flight.id < sample_id - 1)
          /\ flight.id \in Nat
      BY <1>1, <2>3 DEF HostInv, Bufs
    <3>2. last' = flight.id /\ times' = 1
      BY <2>1, <2>2, <2>3, <3>1
    <3> QED
      BY <1>1, <1>2, <2>2, <2>3, <3>1, <3>2 DEF HostInv
  <2>4. CASE ~copied
    <3>1. sample_id >= 1 /\ buf.id = sample_id - 1 /\ last < sample_id
      BY <1>1, <2>4 DEF HostInv
    <3>2. last' = sample_id - 1 /\ times' = IF sample_id - 1 = last THEN times + 1 ELSE 1
      BY <2>1, <2>4, <3>1
    <3>3. last = sample_id - 1 => ~Unwritten /\ times <= 1
      BY <1>1, <2>4 DEF HostInv
    <3> QED
      BY <1>1, <1>2, <2>2, <2>4, <3>1, <3>2, <3>3 DEF HostInv
  <2> QED
    BY <2>3, <2>4
<1> QED
  BY <1>3, <1>4

\* The host's view and the line on its way keep together.
LEMMA HostPreserved ==
  ASSUME TypeOK, HostInv, Next
  PROVE  HostInv'
<1>0. sample_id \in Nat /\ last \in Nat \cup {-1} /\ times \in Nat /\ buf \in Bufs
  BY DEF TypeOK
<1>1. CASE BeginSample
  <2>1. /\ pc = "wait" /\ pc' = "read" /\ sample_id' = sample_id + 1
        /\ buf'.id = sample_id /\ copied' = copied /\ flight' = flight
        /\ last' = last /\ times' = times
    BY <1>1 DEF BeginSample, At, Goto, NextId, usb, host
  <2>2. flight \in Bufs => flight.id \in Nat
    BY DEF Bufs
  <2> QED
    BY <1>0, <2>1, <2>2 DEF HostInv, Unwritten
<1>2. CASE Write
  <2>1. /\ pc = "write" /\ pc' = "clear" /\ sample_id' = sample_id /\ buf' = buf
        /\ copied' = copied /\ last' = last /\ times' = times
    BY <1>2 DEF Write, At, Goto, memory, host
  <2>2. flight' = flight \/ (flight = NoLine /\ flight' = Line(buf))
    BY <1>2 DEF Write, Pipe!Submit, usb
  <2>3. sample_id >= 1 /\ buf.id = sample_id - 1 /\ Unwritten /\ ~Unwritten'
    BY <2>1 DEF HostInv, Unwritten
  <2>4. CASE copied
    <3>1. last < sample_id - 1
      BY <2>3, <2>4 DEF HostInv
    <3> QED
      BY <1>0, <2>1, <2>2, <2>3, <2>4, <3>1 DEF HostInv, Line
  <2>5. CASE ~copied
    BY <1>0, <2>1, <2>2, <2>3, <2>5 DEF HostInv
  <2> QED
    BY <2>4, <2>5
<1>3. CASE Deliver
  BY <1>3, Delivered
<1>4. CASE Reconfigure
  <2>1. /\ flight' = NoLine /\ pc' = pc /\ sample_id' = sample_id /\ buf' = buf
        /\ copied' = copied /\ last' = last /\ times' = times
    BY <1>4 DEF Reconfigure, Pipe!Reconfigure, memory, host
  <2> QED
    BY <2>1 DEF HostInv, Unwritten
<1>5. CASE EndLine
  <2>1. /\ pc = "line" /\ UNCHANGED <<sample_id, copied, usb, host>>
        /\ \E k : buf' = [buf EXCEPT !.kind = k]
    BY <1>5 DEF EndLine, At
  <2>2. buf'.id = buf.id /\ Unwritten
    BY <1>0, <2>1 DEF Bufs, Unwritten
  <2> QED
    BY <2>1, <2>2, HostUnmoved
<1>6. CASE Smash
  <2>1. pc' = pc /\ UNCHANGED <<sample_id, copied, usb, host>>
        /\ buf' = [buf EXCEPT !.kind = "smashed"]
    BY <1>6 DEF Smash
  <2>2. buf'.id = buf.id /\ Unwritten' = Unwritten
    BY <1>0, <2>1 DEF Bufs, Unwritten
  <2> QED
    BY <2>1, <2>2, HostUnmoved
<1>7. CASE Boot \/ Configure \/ Configured \/ ClearRun
  <2>1. UNCHANGED <<memory, usb, host>>
        /\ pc' \in {"configure", "configured", "wait", "error3", "error4", "error5"}
    BY <1>7 DEF Boot, Configure, Configured, ClearRun, Goto
  <2>2. ~Unwritten'
    BY <2>1 DEF Unwritten
  <2> QED
    BY <2>1, <2>2, HostUnmoved DEF memory
<1>8. CASE Read \/ TransferDone
  <2>1. UNCHANGED <<memory, usb, host>> /\ pc \in {"read", "reading"}
    BY <1>8 DEF Read, TransferDone, At
  <2>2. Unwritten
    BY <2>1 DEF Unwritten
  <2> QED
    BY <2>1, <2>2, HostUnmoved DEF memory
<1>9. CASE Step(I2cStep) \/ Sensor \/ Callback
  <2>1. UNCHANGED <<memory, usb, host>> /\ pc' = pc
    BY <1>9 DEF Step, Sensor, Callback
  <2> QED
    BY <2>1, HostUnmoved DEF memory, Unwritten
<1> QED
  BY <1>1, <1>2, <1>3, <1>4, <1>5, <1>6, <1>7, <1>8, <1>9 DEF Next, Main

\* The invariant is inductive.
LEMMA StepOK == IInv /\ [Next]_vars => IInv'
<1> SUFFICES ASSUME IInv, [Next]_vars PROVE IInv'
  OBVIOUS
<1>0. TypeOK /\ BusInv /\ TransferInv /\ SampleInv /\ TicksAccounted /\ LinesTrue /\ HostInv
  BY DEF IInv
<1>1. CASE Next
  <2>1. I2cTypeOK' /\ BusInv' /\ TransferInv'
    BY <1>0, <1>1, BusPreserved
  <2>2. TypeOK'
    BY <1>0, <1>1, <2>1, PlacePreserved, FlagsPreserved, BufPreserved, FlightPreserved,
       CountsPreserved, Zenon DEF TypeOK
  <2>3. SampleInv' /\ TicksAccounted' /\ LinesTrue' /\ HostInv'
    BY <1>0, <1>1, SamplePreserved, TicksPreserved, LinesPreserved, HostPreserved
  <2> QED
    BY <2>1, <2>2, <2>3 DEF IInv
<1>2. CASE UNCHANGED vars
  <2>1. TypeOK'
    BY <1>0, <1>2 DEF TypeOK, I2cTypeOK, vars, bus, sample, memory, usb, counts, host
  <2>2. BusInv' /\ TransferInv' /\ SampleInv' /\ TicksAccounted' /\ LinesTrue' /\ HostInv'
    BY <1>0, <1>2 DEF BusInv, TransferInv, Moved, SampleInv, Earlier, TicksAccounted, LinesTrue,
       Readings, HostInv, Unwritten, vars, bus, sample, memory, usb, counts, host
  <2> QED
    BY <2>1, <2>2 DEF IInv
<1> QED
  BY <1>1, <1>2

LEMMA Invariance == Spec => []IInv
<1>1. IInv /\ [Next]_vars => IInv'
  BY StepOK
<1> QED
  BY InitOK, <1>1, PTL DEF Spec

-----------------------------------------------------------------------------
\* Every variable keeps to its values.
THEOREM Types == Spec => []TypeOK
<1>1. IInv => TypeOK
  BY DEF IInv
<1> QED
  BY Invariance, <1>1, PTL

\* Every call of the timer's callback is accounted for, whatever it interrupts.
THEOREM TicksKept == Spec => []TicksAccounted
<1>1. IInv => TicksAccounted
  BY DEF IInv
<1> QED
  BY Invariance, <1>1, PTL

\* A line of values stands for readings the bus moved to their last byte.
THEOREM LinesAreTrue == Spec => []LinesTrue
<1>1. IInv => LinesTrue
  BY DEF IInv
<1> QED
  BY Invariance, <1>1, PTL

\* The host sees the lines in order, a copied one once and another at most twice.
THEOREM HostSeesInOrder == Spec => HostInOrder
<1>1. IInv /\ [Next]_vars =>
        [last' # last \/ times' # times =>
           /\ last' > last \/ (~copied /\ last' = last)
           /\ times' <= IF copied THEN 1 ELSE 2]_host
  <2> SUFFICES ASSUME IInv, [Next]_vars, last' # last \/ times' # times
               PROVE  /\ last' > last \/ (~copied /\ last' = last)
                      /\ times' <= IF copied THEN 1 ELSE 2
    OBVIOUS
  <2>1. TypeOK /\ HostInv
    BY DEF IInv
  <2>2. Deliver
    BY Zenon DEF Next, Main, Boot, Configure, Configured, BeginSample, Read, TransferDone, EndLine,
       Write, ClearRun, Step, Sensor, Callback, Smash, Reconfigure, host, vars
  <2>3. \/ UNCHANGED host
        \/ last' > last /\ times' = 1
        \/ ~copied /\ last' = last /\ times' <= 2
    BY <2>1, <2>2, Delivered
  <2> QED
    BY <2>3 DEF host
<1> QED
  BY Invariance, <1>1, PTL DEF Spec, HostInOrder
=============================================================================
