------------------------------- MODULE UsbDevice -------------------------------
(***************************************************************************)
(* The USB device stack of the powerlog firmware, from the controller's    *)
(* endpoints (hpl_usb.c) over the transfer layer (hal_usb_device.c) and    *)
(* the device core (usbdc.c) to the serial function (cdcdf_acm.c).  The    *)
(* host's resets, requests and polls arrive as interrupts, each handled to *)
(* its end, between any two steps of the program's cdcdf_acm_write.        *)
(* The sizes of packets and the contents of descriptors are left out.      *)
(***************************************************************************)
EXTENDS Naturals, Sequences

\* The endpoints of the function: notifications IN, data IN, data OUT.
Pipes == {"comm_in", "data_in", "data_out"}
\* The interfaces, in the order of the configuration descriptor.
Ifaces == {"comm", "data"}
EpsOf(f) == IF f = "comm" THEN {"comm_in"} ELSE {"data_in", "data_out"}
InOf(f) == IF f = "comm" THEN "comm_in" ELSE "data_in"

VARIABLES
  acm,   \* _cdcdf_acm_funcd: interfaces, IN endpoints, OUT endpoint, enabled
  hal,   \* state of the slot usb_d_inst has for an endpoint, "free" without
  hw,    \* the controller's side of an endpoint: the driver's flags (used,
         \* busy, halted, in) and the registers (stallrq, stallint, stalled)
  ctl,   \* endpoint 0: state of its transfer, busy, stalled
  dev,   \* usbdc: state and cfg_value
  req,   \* the control request in progress
  app    \* the program's place in cdcdf_acm_write and the endpoint it read

host == <<ctl, dev, req>>
function == <<acm, hal, hw>>
vars == <<function, host, app>>

-----------------------------------------------------------------------------
(* The function driver.  fs is the function's state: acm, hal and hw.        *)

Unused == [used |-> FALSE, busy |-> FALSE, halted |-> FALSE, in |-> FALSE,
           stallrq |-> FALSE, stallint |-> FALSE, stalled |-> FALSE]

\* An endpoint opened or closed: the driver's flags start again, the registers
\* stay, except that a transfer under way is stopped with its interrupts.
Opened_KeepsBusy(h) == [h EXCEPT !.used = TRUE, !.halted = FALSE]
Opened(h) == [h EXCEPT !.used = TRUE, !.busy = FALSE, !.halted = FALSE, !.in = FALSE]
Closed(h) ==
  [h EXCEPT !.used = FALSE, !.busy = FALSE, !.halted = FALSE, !.in = FALSE,
            !.stallint = @ /\ ~h.busy, !.stalled = @ /\ ~h.busy]

\* One round of cdcdf_acm_enable: interface f becomes the i-th of the function.
Install(fs, i, f) ==
  IF fs.acm.iface[i] # "none" THEN [fs EXCEPT !.ok = FALSE]
  ELSE IF \E e \in EpsOf(f) : fs.hal[e] # "free" \/ fs.hw[e].used
  THEN [fs EXCEPT !.ok = FALSE, !.acm.iface[i] = f]
  ELSE [acm |-> [fs.acm EXCEPT !.iface[i] = f, !.epIn[i] = InOf(f),
                               !.epOut = IF f = "data" THEN "data_out" ELSE @],
        hal |-> [e \in Pipes |-> IF e \in EpsOf(f) THEN "IDLE" ELSE fs.hal[e]],
        hw  |-> [e \in Pipes |-> IF e \in EpsOf(f) THEN Opened(fs.hw[e]) ELSE fs.hw[e]],
        ok  |-> fs.ok]

\* From interface f on: the function needs two, and "data" is the last.
Enable(fs, f) ==
  LET first == Install([fs EXCEPT !.ok = TRUE], 1, f)
      both == Install(first, 2, "data")
  IN IF ~first.ok THEN first
     ELSE IF f = "data" THEN [first EXCEPT !.ok = FALSE]
     ELSE IF both.ok THEN [both EXCEPT !.acm.enabled = TRUE] ELSE both

\* The endpoints the function has noted.
Recorded(a) ==
  ({a.epIn[i] : i \in {j \in 1..2 : a.iface[j] # "none"}} \cup {a.epOut}) \cap Pipes

Disable_KeepsOut(fs) ==
  LET gone == Recorded(fs.acm) \ {"data_out"}
  IN [acm |-> [iface |-> <<"none", "none">>, epOut |-> "none", enabled |-> FALSE,
               epIn |-> [i \in 1..2 |-> IF fs.acm.iface[i] = "none"
                                        THEN fs.acm.epIn[i] ELSE "none"]],
      hal |-> [e \in Pipes |-> IF e \in gone THEN "free" ELSE fs.hal[e]],
      hw  |-> [e \in Pipes |-> IF e \in gone THEN Closed(fs.hw[e]) ELSE fs.hw[e]],
      ok  |-> TRUE]
Disable(fs) ==
  LET gone == Recorded(fs.acm)
  IN [acm |-> [iface |-> <<"none", "none">>, epOut |-> "none", enabled |-> FALSE,
               epIn |-> [i \in 1..2 |-> IF fs.acm.iface[i] = "none"
                                        THEN fs.acm.epIn[i] ELSE "none"]],
      hal |-> [e \in Pipes |-> IF e \in gone THEN "free" ELSE fs.hal[e]],
      hw  |-> [e \in Pipes |-> IF e \in gone THEN Closed(fs.hw[e]) ELSE fs.hw[e]],
      ok  |-> TRUE]

\* usbdc_set_config: every interface is offered, the answers are not looked at.
Configure(fs, v) ==
  IF v = 0 THEN Disable(fs)
  ELSE LET a == Enable(fs, "comm") IN IF a.ok THEN a ELSE Enable(a, "data")

Current == [acm |-> acm, hal |-> hal, hw |-> hw, ok |-> TRUE]
Becomes(fs) == acm' = fs.acm /\ hal' = fs.hal /\ hw' = fs.hw

\* The statics of the function are zero, not 0xFF, until the first reset.
Init ==
  /\ acm = [iface |-> <<"comm", "comm">>, epIn |-> <<"ep0", "ep0">>, epOut |-> "ep0",
            enabled |-> FALSE]
  /\ hal = [e \in Pipes |-> "free"] /\ hw = [e \in Pipes |-> Unused]
  /\ ctl = [state |-> "off", busy |-> FALSE, stalled |-> FALSE]
  /\ dev = [state |-> "POWER", cfg |-> 0]
  /\ req = [kind |-> "none", value |-> 0] /\ app = [pc |-> "idle", ep |-> "none"]

-----------------------------------------------------------------------------
(* Bus events and control transfers. *)

\* The controller clears its endpoint registers, the driver ends every transfer
\* and forgets the endpoints, and usbdc_reset closes the function.
BusReset ==
  /\ Becomes(Disable([Current EXCEPT
        !.hal = [e \in Pipes |-> IF hw[e].used /\ hw[e].busy THEN "DISABLED" ELSE hal[e]],
        !.hw = [e \in Pipes |-> Unused]]))
  /\ ctl' = [state |-> "X_SETUP", busy |-> FALSE, stalled |-> FALSE]
  /\ dev' = [state |-> "DEFAULT", cfg |-> 0]
  /\ UNCHANGED <<req, app>>

\* A SETUP ends whatever endpoint 0 was doing; the request is then accepted, and
\* its data or status stage started, or refused, and the endpoint stalled.
Setup(kind, value) == ctl.state # "off" /\ req' = [kind |-> kind, value |-> value]
Accept(stage) == ctl' = [state |-> stage, busy |-> TRUE, stalled |-> FALSE]
Refuse == ctl' = [state |-> "HALTED", busy |-> FALSE, stalled |-> TRUE]

Get == Setup("get", 0) /\ Accept("X_DATA") /\ UNCHANGED <<function, dev, app>>

Unsupported == Setup("unsupported", 0) /\ Refuse /\ UNCHANGED <<function, dev, app>>

SetAddress(a) == Setup("address", a) /\ Accept("X_STATUS") /\ UNCHANGED <<function, dev, app>>

\* The function is opened or closed at once, cfg_value changes only at the end.
SetConfig(v) ==
  /\ Setup("config", v) /\ Accept("X_STATUS") /\ Becomes(Configure(Current, v))
  /\ UNCHANGED <<dev, app>>

\* The function is closed and opened again from interface f on: from the second
\* one it cannot be, and the request is refused with the function closed.
SetInterface(f) ==
  LET reopened == Enable(Disable(Current), f)
  IN /\ Setup("interface", 0)
     /\ IF dev.cfg = 0 THEN Refuse /\ UNCHANGED function
        ELSE /\ IF reopened.ok THEN Accept("X_STATUS") ELSE Refuse
             /\ Becomes(reopened)
     /\ UNCHANGED <<dev, app>>

\* A halt is noted by the driver and requested of the controller; one of an
\* endpoint that is not open touches nothing the stack still reads.
SetHalt(e) ==
  /\ Setup("halt", 0) /\ Accept("X_STATUS")
  /\ hw' = IF hw[e].used
           THEN [hw EXCEPT ![e].halted = TRUE, ![e].stallrq = TRUE, ![e].stallint = TRUE]
           ELSE hw
  /\ UNCHANGED <<acm, hal, dev, app>>

\* _usb_d_ep_halt_clr frees the endpoint, its transfer under way or not.
Resumed_Keeps(e) == hal' = hal
Resumed(e) == hal' = [hal EXCEPT ![e] = "IDLE"]

ClearHalt(e) ==
  /\ Setup("unhalt", 0) /\ Accept("X_STATUS")
  /\ IF hal[e] # "free" /\ hw[e].stallrq
     THEN /\ hw' = [hw EXCEPT ![e].halted = FALSE, ![e].stallrq = FALSE,
                              ![e].stallint = FALSE, ![e].stalled = FALSE]
          /\ Resumed(e)
     ELSE UNCHANGED <<hal, hw>>
  /\ UNCHANGED <<acm, dev, app>>

\* The requests of the serial class, for an interface the function has.
ClassRequest(kind, stage, f) ==
  /\ Setup(kind, 0)
  /\ IF f \in {acm.iface[1], acm.iface[2]} THEN Accept(stage) ELSE Refuse
  /\ UNCHANGED <<function, dev, app>>

\* The data stage ends, or the host cuts it short: the status stage starts.
DataDone ==
  /\ ctl.state = "X_DATA" /\ ctl.busy /\ Accept("X_STATUS")
  /\ UNCHANGED <<function, dev, req, app>>

\* usbdc_ctrl_status_end.
StatusDone ==
  /\ ctl.state = "X_STATUS" /\ ctl.busy
  /\ ctl' = [ctl EXCEPT !.state = "X_SETUP", !.busy = FALSE]
  /\ dev' = CASE req.kind = "config" ->
                   [state |-> IF req.value = 0 THEN "ADDRESS" ELSE "CONFIG", cfg |-> req.value]
              [] req.kind = "address" ->
                   [dev EXCEPT !.state = IF req.value = 0 THEN "DEFAULT" ELSE "ADDRESS"]
              [] OTHER -> dev
  /\ UNCHANGED <<function, req, app>>

\* The host reads the stall: only one of the two banks is cleared, so the
\* endpoint stays marked until the next SETUP.
ControlStalled ==
  /\ ctl.state = "HALTED" /\ ctl.stalled /\ ctl' = [ctl EXCEPT !.state = "X_SETUP"]
  /\ UNCHANGED <<function, dev, req, app>>

-----------------------------------------------------------------------------
(* The function's endpoints. *)

\* The host polls an IN endpoint whose packet is ready: the transfer is done.
Deliver ==
  LET e == "data_in"
  IN /\ hw[e].used /\ hw[e].busy /\ ~hw[e].stallrq
     /\ hw' = [hw EXCEPT ![e].busy = FALSE, ![e].stallint = FALSE]
     /\ hal' = [hal EXCEPT ![e] = "IDLE"]
     /\ UNCHANGED <<acm, host, app>>

\* The host polls a halted endpoint: the controller answers and notes it.
Stall(e) ==
  /\ hw[e].used /\ hw[e].stallrq /\ ~hw[e].stalled
  /\ hw' = [hw EXCEPT ![e].stalled = TRUE]
  /\ UNCHANGED <<acm, hal, host, app>>

\* The stall interrupt.  An IN endpoint that has moved nothing since it was
\* opened is taken for OUT, and its stall is not looked at.
StallRaised(e) == hw[e].stalled /\ hw[e].stallint
StallServed(e) == hw[e].used /\ (hw[e].in \/ e = "data_out")

StallInterrupt(e) ==
  /\ StallRaised(e) /\ StallServed(e)
  /\ hw' = [hw EXCEPT ![e].stallint = FALSE] /\ hal' = [hal EXCEPT ![e] = "HALTED"]
  /\ UNCHANGED <<acm, host, app>>

\* An interrupt nobody serves comes back at once: the program stands still.
Storm == \E e \in Pipes : StallRaised(e) /\ ~StallServed(e)

-----------------------------------------------------------------------------
(* cdcdf_acm_write, called by the program. *)

Write(from) == app.pc = from /\ ~Storm /\ UNCHANGED <<acm, host>>

CheckEnabled_Always ==
  /\ Write("idle") /\ app' = [app EXCEPT !.pc = "read"] /\ UNCHANGED <<hal, hw>>
\* Denied, or on to the endpoint's address.
CheckEnabled ==
  /\ Write("idle") /\ acm.enabled /\ app' = [app EXCEPT !.pc = "read"]
  /\ UNCHANGED <<hal, hw>>

ReadEndpoint ==
  /\ Write("read") /\ app' = [pc |-> "claim", ep |-> acm.epIn[2]]
  /\ UNCHANGED <<hal, hw>>

\* usb_d_ep_transfer takes an idle endpoint; otherwise the write is refused.
Claim ==
  /\ Write("claim")
  /\ IF app.ep \in Pipes /\ hal[app.ep] = "IDLE"
     THEN app' = [app EXCEPT !.pc = "start"] /\ hal' = [hal EXCEPT ![app.ep] = "X_DATA"]
     ELSE app' = [pc |-> "idle", ep |-> "none"] /\ UNCHANGED hal
  /\ UNCHANGED hw

\* _usb_d_dev_ep_trans: refused for a halted or busy endpoint, and then the
\* endpoint stays claimed.  An endpoint closed since is marked busy all the same.
Start ==
  LET h == hw[app.ep]
  IN /\ Write("start") /\ app' = [pc |-> "idle", ep |-> "none"]
     /\ hw' = IF h.halted \/ h.busy THEN hw
              ELSE [hw EXCEPT ![app.ep].busy = TRUE, ![app.ep].in = TRUE,
                              ![app.ep].stallint = h.used]
     /\ UNCHANGED hal

WriteStep == CheckEnabled \/ ReadEndpoint \/ Claim \/ Start

Control ==
  \/ Get \/ Unsupported
  \/ \E v \in {0, 1} : SetAddress(v) \/ SetConfig(v)
  \/ \E f \in Ifaces : SetInterface(f)
  \/ \E e \in Pipes : SetHalt(e) \/ ClearHalt(e)
  \/ \E f \in Ifaces : \/ ClassRequest("set_line", "X_DATA", f)
                       \/ ClassRequest("get_line", "X_DATA", f)
                       \/ ClassRequest("line_state", "X_STATUS", f)
  \/ DataDone \/ StatusDone \/ ControlStalled

Bus == BusReset \/ Control \/ Deliver \/ \E e \in Pipes : Stall(e) \/ StallInterrupt(e)
Next == Bus \/ WriteStep
Spec == Init /\ [][Next]_vars

-----------------------------------------------------------------------------
(* Properties. *)

\* Every variable keeps to its values.  A write never goes for endpoint 0, which
\* the zeroed statics of the function name before the first reset.
TypeOK ==
  /\ acm \in [iface : {<<a, b>> : a, b \in Ifaces \cup {"none"}},
              epIn : {<<a, b>> : a, b \in Pipes \cup {"none", "ep0"}},
              epOut : {"data_out", "none", "ep0"}, enabled : BOOLEAN]
  /\ hal \in [Pipes -> {"free", "IDLE", "X_DATA", "HALTED", "DISABLED"}]
  /\ hw \in [Pipes -> [used : BOOLEAN, busy : BOOLEAN, halted : BOOLEAN, in : BOOLEAN,
                       stallrq : BOOLEAN, stallint : BOOLEAN, stalled : BOOLEAN]]
  /\ ctl \in [state : {"off", "X_SETUP", "X_DATA", "X_STATUS", "HALTED"},
              busy : BOOLEAN, stalled : BOOLEAN]
  /\ dev \in [state : {"POWER", "DEFAULT", "ADDRESS", "CONFIG"}, cfg : {0, 1}]
  /\ app \in [pc : {"idle", "read", "claim", "start"}, ep : Pipes \cup {"none"}]

\* Whatever resets and requests come, refused, repeated or cut short, the
\* endpoints the controller and the transfer layer hold are those the function
\* has noted, so that it can always close them: none is leaked, none is closed
\* under it.  An enabled function has all three.
NoEndpointLeak ==
  /\ \A e \in Pipes : (hal[e] # "free") = hw[e].used /\ hw[e].used = (e \in Recorded(acm))
  /\ acm.enabled => Recorded(acm) = Pipes

\* An endpoint the transfer layer holds for busy has something that will free
\* it: a packet the host can take, a halt the host can clear, or the program on
\* its way to start the packet.  The control endpoint is never left with a stage
\* that was not started or an answer that was not given.
NeverStuck ==
  /\ hal["data_in"] = "X_DATA" =>
       hw["data_in"].busy \/ hw["data_in"].stallrq \/ app.pc = "start"
  /\ ctl.state \in {"X_DATA", "X_STATUS"} => ctl.busy
  /\ ctl.state = "HALTED" => ctl.stalled

\* The stack keeps the promises of UsbPipe.
Pipe == INSTANCE UsbPipe WITH
  Lines <- {"line"}, NoLine <- "nothing", open <- acm.enabled,
  flight <- IF hw["data_in"].used /\ hw["data_in"].busy THEN "line" ELSE "nothing"
PipeSpec == Pipe!Spec
=============================================================================
