-------------------------------- MODULE PowerLog --------------------------------
(***************************************************************************)
(* The program of the powerlog firmware (main.c, ina3221.c): at every tick *)
(* of its timer it reads the sensor's channels over I2cMaster and writes   *)
(* one line to the host over UsbPipe.  The timer's callback and the USB    *)
(* interrupts come between any two steps.  What a line says is reduced to  *)
(* its number and to whether it is whole.                                  *)
(***************************************************************************)
EXTENDS I2cMaster, Integers

CONSTANTS
  Channels,   \* of the sensor: 3
  Copies,     \* may the driver copy the line?  only if buf is not word-aligned
  MaxTicks    \* bound on the calls of the timer's callback

ASSUME PowerLogAssumption ==
  Channels \in Nat \ {0} /\ Copies \subseteq BOOLEAN /\ Copies # {} /\ MaxTicks \in Nat

VARIABLES
  pc,          \* where main is
  ch, reg,     \* the reading under way: channel, "shunt" or "bus"
  part,        \* the message of its command: "register" or "content"
  fail,        \* fail of sample_report_once
  read,        \* history: the readings of this sample the bus has completed
  sample_id,
  run_sample,
  buf,         \* the line's memory: number and what it holds
  copied,      \* the build copies the line
  open, flight,  \* the USB stack, as in UsbPipe
  ticks, done, overruns,  \* history: callbacks, samples ended, callbacks too early
  last, times  \* history: number of the last line the host can read, how often

sample == <<ch, reg, part, fail, read>>
counts == <<ticks, done, overruns>>
usb == <<open, flight>>
host == <<last, times>>
memory == <<sample_id, buf, copied>>
vars == <<bus, pc, sample, memory, run_sample, usb, counts, host>>

Readings == (1..Channels) \X {"shunt", "bus"}
Kinds == {"none", "partial", "values", "fail", "smashed"}
Bufs == [id : Nat, kind : Kinds]
\* The stack's note of a line handed over: its copy, or that it is in buf.
InBuf == [id |-> 0, kind |-> "in_buf"]
NoLine == [id |-> 0, kind |-> "nothing"]
Line(b) == IF copied THEN b ELSE InBuf
Pipe == INSTANCE UsbPipe WITH Lines <- Bufs \cup {InBuf}

Init ==
  /\ I2cInit
  /\ pc = "boot" /\ ch = 0 /\ reg = "shunt" /\ part = "register" /\ fail = FALSE /\ read = {}
  /\ sample_id = 0 /\ run_sample = TRUE /\ buf = [id |-> 0, kind |-> "none"]
  /\ copied \in Copies
  /\ Pipe!Init
  /\ ticks = 0 /\ done = 0 /\ overruns = 0 /\ last = -1 /\ times = 0

-----------------------------------------------------------------------------
(* main: the initialisation, and after an error a LED that blinks for ever. *)

At(p) == pc = p /\ at = "out"
Goto(p) == pc' = p

\* atmel_start_init, setup_i2c.
Boot ==
  /\ At("boot") /\ \/ Goto("configure") \/ Goto("error3") \/ Goto("error4")
  /\ UNCHANGED <<bus, sample, memory, run_sample, usb, counts, host>>

\* configure_ina3221: a command of two messages.
Configure ==
  /\ At("configure") /\ Transfer(IF part = "register" THEN Register ELSE Content(FALSE))
  /\ Goto("configured")
  /\ UNCHANGED <<sample, memory, run_sample, usb, counts, host>>

\* Then setup_timer.
Configured ==
  /\ At("configured")
  /\ IF ret # "ok" THEN Goto("error5") /\ UNCHANGED part
     ELSE IF part = "register" THEN Goto("configure") /\ part' = "content"
     ELSE Goto("wait") /\ part' = "register"
  /\ UNCHANGED <<bus, ch, reg, fail, read, memory, run_sample, usb, counts, host>>

-----------------------------------------------------------------------------
(* The loop of main: sample_report_once whenever run_sample is set. *)

NextId_OfGood == IF fail THEN sample_id ELSE sample_id + 1
NextId == sample_id + 1

BeginSample ==
  /\ At("wait") /\ run_sample /\ Goto("read")
  /\ sample_id' = NextId /\ buf' = [id |-> sample_id, kind |-> "partial"]
  /\ fail' = FALSE /\ read' = {} /\ ch' = 1 /\ reg' = "shunt" /\ part' = "register"
  /\ UNCHANGED <<bus, copied, run_sample, usb, counts, host>>

\* i2c_m_sync_cmd_read: two messages, the second only behind a good first.
Read ==
  /\ At("read") /\ Transfer(IF part = "register" THEN Register ELSE Content(TRUE))
  /\ Goto("reading")
  /\ UNCHANGED <<sample, memory, run_sample, usb, counts, host>>

\* On to the next channel, or to the end of the line.
NextChannel ==
  /\ reg' = "shunt" /\ part' = "register"
  /\ IF ch < Channels THEN ch' = ch + 1 /\ Goto("read") ELSE ch' = 0 /\ Goto("line")

\* A channel one of whose readings fails leaves the line a FAIL; the others are
\* read all the same.
MarkFailed_Forgets(failed) == fail' = failed
MarkFailed(failed) == fail' = (fail \/ failed)

TransferDone ==
  /\ At("reading")
  /\ read' = IF part = "content" /\ Moved THEN read \cup {<<ch, reg>>} ELSE read
  /\ MarkFailed(ret # "ok")
  /\ IF ret # "ok" THEN NextChannel
     ELSE IF part = "register" THEN part' = "content" /\ Goto("read") /\ UNCHANGED <<ch, reg>>
     ELSE IF reg = "shunt"
     THEN reg' = "bus" /\ part' = "register" /\ Goto("read") /\ UNCHANGED ch
     ELSE NextChannel
  /\ UNCHANGED <<bus, memory, run_sample, usb, counts, host>>

EndLine ==
  /\ At("line") /\ Goto("write")
  /\ buf' = [buf EXCEPT !.kind = IF fail THEN "fail" ELSE "values"]
  /\ UNCHANGED <<bus, sample, sample_id, copied, run_sample, usb, counts, host>>

\* cdcdf_acm_write hands the line over, or denies or refuses it; main does not
\* look at what it returns.
Write ==
  /\ At("write") /\ Goto("clear")
  /\ Pipe!Submit(Line(buf)) \/ UNCHANGED usb
  /\ UNCHANGED <<bus, sample, memory, run_sample, counts, host>>

ClearRun ==
  /\ At("clear") /\ Goto("wait") /\ run_sample' = FALSE /\ done' = done + 1
  /\ UNCHANGED <<bus, sample, memory, usb, ticks, overruns, host>>

Step(A) == A /\ UNCHANGED <<pc, sample, memory, run_sample, usb, counts, host>>

Main ==
  \/ Boot \/ Configure \/ Configured
  \/ BeginSample \/ Read \/ TransferDone \/ EndLine \/ Write \/ ClearRun
  \/ Step(I2cStep)

-----------------------------------------------------------------------------
(* Interrupts, the sensor and the host. *)

\* A request that finds the last one still standing is not kept.
Request_Always == run_sample' = TRUE /\ UNCHANGED overruns
Request ==
  IF run_sample THEN overruns' = overruns + 1 /\ UNCHANGED run_sample
  ELSE run_sample' = TRUE /\ UNCHANGED overruns

\* TIMER0_callback, called from the timer's interrupt once setup_timer has run.
Callback ==
  /\ pc \notin {"boot", "configure", "configured", "error3", "error4", "error5"}
  /\ ticks < MaxTicks /\ ticks' = ticks + 1 /\ Request
  /\ UNCHANGED <<bus, pc, sample, memory, usb, done, host>>

\* Behind sample_report_once the line's memory is free stack, where the frames
\* of an interrupt go.
Smash ==
  /\ pc \in {"clear", "wait"} /\ buf' = [buf EXCEPT !.kind = "smashed"]
  /\ UNCHANGED <<bus, pc, sample, sample_id, copied, run_sample, usb, counts, host>>

\* The host takes the line: the copy, or what its memory holds by now.
Deliver ==
  LET line_ == IF copied THEN flight ELSE buf
  IN /\ Pipe!Deliver
     /\ IF line_.kind = "smashed" THEN UNCHANGED host
        ELSE last' = line_.id /\ times' = IF line_.id = last THEN times + 1 ELSE 1
     /\ UNCHANGED <<bus, pc, sample, memory, run_sample, counts>>

Reconfigure ==
  /\ Pipe!Reconfigure
  /\ UNCHANGED <<bus, pc, sample, memory, run_sample, counts, host>>

Sensor == \E a \in {"acked", "nacked", "lost", "error", "received"} : Step(Answer(a))

Next == Main \/ Callback \/ Smash \/ Deliver \/ Reconfigure \/ Sensor

\* main goes on between interrupts; nothing is asked of the sensor and the host.
Spec == Init /\ [][Next]_vars /\ WF_vars(Main)

-----------------------------------------------------------------------------
(* Properties. *)

Booting == {"boot", "configure", "configured"}
Errors == {"error3", "error4", "error5"}
Sampling == {"read", "reading", "line", "write", "clear"}

TypeOK ==
  /\ I2cTypeOK
  /\ pc \in Booting \cup Errors \cup Sampling \cup {"wait"}
  /\ ch \in 0..Channels /\ reg \in {"shunt", "bus"} /\ part \in {"register", "content"}
  /\ fail \in BOOLEAN /\ read \subseteq Readings
  /\ sample_id \in Nat /\ run_sample \in BOOLEAN /\ buf \in Bufs /\ copied \in Copies
  /\ open \in BOOLEAN /\ flight \in Bufs \cup {InBuf, NoLine}
  /\ ticks \in Nat /\ done \in Nat /\ overruns \in Nat
  /\ last \in Nat \cup {-1} /\ times \in Nat

\* Every call of the timer's callback, and the sample due at the start, is in
\* exactly one place, whatever the interrupt cuts in two: a sample that ended,
\* the request that stands, or an overrun the LED showed.
TicksAccounted == ticks + 1 = done + overruns + (IF run_sample THEN 1 ELSE 0)

\* A line of values stands for a sample in which every reading of every channel
\* was moved over the bus to its last byte: no timeout, refusal or lost bus is
\* ever taken for a value.
LinesTrue == buf.kind = "values" => read = Readings

\* The host never sees an older line behind a newer one.  A copied line it sees
\* once; one left in buf may be overwritten before it is taken, and then the
\* line that overwrote it is seen twice, never three times.
HostInOrder ==
  [][last' # last \/ times' # times =>
       /\ last' > last \/ (~copied /\ last' = last)
       /\ times' <= IF copied THEN 1 ELSE 2]_host

\* A sample that is due is taken and ended, whatever the sensor, the bus and the
\* host do: the I2C timeouts end every transfer.
SampleEnds == (pc \in Sampling \cup {"wait"} /\ run_sample) ~> ~run_sample
=============================================================================
