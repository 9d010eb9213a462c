------------------------------- MODULE I2cMaster -------------------------------
(***************************************************************************)
(* One transfer of the powerlog firmware's I2C master: the loop of         *)
(* _i2c_m_sync_transfer in hpl_sercom.c, which waits for the controller's  *)
(* flags with a timeout and answers each of them.  The controller and the  *)
(* sensor behind it may answer, refuse, lose the bus or say nothing.  Bytes *)
(* are counted, not kept.                                                  *)
(***************************************************************************)
EXTENDS Naturals

VARIABLES
  msg,    \* service.msg: rd, stop, the bytes left (len) and I2C_M_BUSY
  asked,  \* history: the length the message came with
  at,     \* where the transfer is: "out" of it, waiting after the "address", in
          \* the "loop"
  line,   \* what the controller shows: "moving" without a flag, MB with
          \* "acked", "nacked", "lost" or "error", SB with "received"
  acks,   \* history: bytes acknowledged by the sensor, address included, or read
  owner,  \* the bus has been taken and no STOP sent
  ret     \* what the last transfer returned

bus == <<msg, asked, at, line, acks, owner, ret>>

\* The two messages of a command: the register, then its two bytes.
Register == [rd |-> FALSE, len |-> 1, stop |-> FALSE]
Content(rd) == [rd |-> rd, len |-> 2, stop |-> TRUE]

I2cInit ==
  /\ msg = [rd |-> FALSE, len |-> 0, stop |-> FALSE, busy |-> FALSE]
  /\ asked = 0 /\ at = "out" /\ line = "moving" /\ acks = 0 /\ owner = FALSE /\ ret = "ok"

\* A transfer is begun by writing the address, which clears the old flags; one
\* that finds the last still busy is refused.
Transfer(m) ==
  /\ at = "out"
  /\ IF msg.busy THEN ret' = "busy" /\ UNCHANGED <<msg, asked, at, line, acks, owner>>
     ELSE /\ msg' = [rd |-> m.rd, len |-> m.len, stop |-> m.stop, busy |-> TRUE]
          /\ asked' = m.len /\ at' = "address" /\ line' = "moving" /\ acks' = 0
          /\ owner' = TRUE /\ UNCHANGED ret

\* What the bus does next; a read shows bytes, a write acknowledgements.
Answer(a) ==
  /\ at # "out" /\ line = "moving" /\ a # (IF msg.rd THEN "acked" ELSE "received")
  /\ line' = a
  /\ acks' = IF a \in {"acked", "received"} THEN acks + 1 ELSE acks
  /\ owner' = (owner /\ a \notin {"lost", "error"})
  /\ UNCHANGED <<msg, asked, at, ret>>

\* The message is no longer busy; with its STOP, the bus is free.
End(r, stopped) ==
  /\ at' = "out" /\ ret' = r /\ msg' = [msg EXCEPT !.busy = FALSE]
  /\ owner' = (owner /\ ~(stopped /\ msg.stop))

\* analyse_flags: the bus was lost, no STOP is sent.
Lost ==
  /\ at # "out" /\ line \in {"lost", "error"}
  /\ End(IF line = "error" THEN "bus" ELSE "bad_address", FALSE)
  /\ UNCHANGED <<asked, line, acks>>

\* The sensor refuses its address or a byte, the last one too.
Refused ==
  /\ at # "out" /\ line = "nacked" /\ End("nack", TRUE) /\ UNCHANGED <<asked, line, acks>>

SendByte ==
  /\ at # "out" /\ line = "acked" /\ msg.len > 0
  /\ msg' = [msg EXCEPT !.len = @ - 1] /\ at' = "loop" /\ line' = "moving"
  /\ UNCHANGED <<asked, acks, owner, ret>>

AllSent ==
  /\ at # "out" /\ line = "acked" /\ msg.len = 0
  /\ End("ok", TRUE) /\ UNCHANGED <<asked, line, acks>>

\* A byte is read, and the next one asked for; the last is followed by the STOP.
ReadByte ==
  /\ at # "out" /\ line = "received"
  /\ IF msg.len > 1
     THEN /\ msg' = [msg EXCEPT !.len = @ - 1] /\ at' = "loop" /\ line' = "moving"
          /\ UNCHANGED <<owner, ret>>
     ELSE /\ at' = "out" /\ ret' = "ok" /\ msg' = [msg EXCEPT !.len = 0, !.busy = FALSE]
          /\ owner' = (owner /\ ~msg.stop) /\ UNCHANGED line
  /\ UNCHANGED <<asked, acks>>

\* 65536 looks at the flags, of which the last is not for what it shows.  Behind
\* the address a wait that has seen no flag goes unnoticed, and the loop waits
\* again; there it ends the transfer, also when a flag was set at last.
AddressTimeout ==
  /\ at = "address" /\ line = "moving" /\ at' = "loop"
  /\ UNCHANGED <<msg, asked, line, acks, owner, ret>>

WaitTimeout_Never == FALSE /\ UNCHANGED bus
WaitTimeout ==
  /\ at = "loop" /\ End("bus", TRUE) /\ UNCHANGED <<asked, line, acks>>

I2cStep ==
  Lost \/ Refused \/ SendByte \/ AllSent \/ ReadByte \/ AddressTimeout \/ WaitTimeout

\* Every byte of the message was moved, as the bus saw it.
Moved == acks = IF msg.rd THEN asked ELSE asked + 1

-----------------------------------------------------------------------------
I2cTypeOK ==
  /\ msg \in [rd : BOOLEAN, len : 0..2, stop : BOOLEAN, busy : BOOLEAN]
  /\ asked \in 0..2 /\ acks \in 0..3 /\ owner \in BOOLEAN
  /\ at \in {"out", "address", "loop"}
  /\ line \in {"moving", "acked", "nacked", "lost", "error", "received"}
  /\ ret \in {"ok", "nack", "bus", "bad_address", "busy"}
=============================================================================
