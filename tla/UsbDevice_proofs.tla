--------------------------- MODULE UsbDevice_proofs ----------------------------
(***************************************************************************)
(* What the USB stack of the powerlog firmware guarantees in whatever      *)
(* order resets, requests, polls and the steps of a write come: the        *)
(* endpoints it holds are those its function has noted, none is claimed    *)
(* for good, and what it does is what UsbPipe promises the program.        *)
(***************************************************************************)
EXTENDS UsbDevice, TLAPS

HalStates == {"free", "IDLE", "X_DATA", "HALTED", "DISABLED"}
HwStates == [used : BOOLEAN, busy : BOOLEAN, halted : BOOLEAN, in : BOOLEAN,
             stallrq : BOOLEAN, stallint : BOOLEAN, stalled : BOOLEAN]

\* The only four things the function's own record can say: what the statics say
\* before the first reset, nothing, the second interface in the place of the
\* first, and everything.
Zeroed == [iface |-> <<"comm", "comm">>, epIn |-> <<"ep0", "ep0">>, epOut |-> "ep0",
           enabled |-> FALSE]
Shut == [iface |-> <<"none", "none">>, epIn |-> <<"none", "none">>, epOut |-> "none",
         enabled |-> FALSE]
Halfway == [iface |-> <<"data", "none">>, epIn |-> <<"data_in", "none">>,
            epOut |-> "data_out", enabled |-> FALSE]
Whole == [iface |-> <<"comm", "data">>, epIn |-> <<"comm_in", "data_in">>,
          epOut |-> "data_out", enabled |-> TRUE]

\* The transfer layer and the controller hold exactly the endpoints of es, and
\* an endpoint halted by the driver is one the controller was asked to halt.
Holds(es, hl, hd) ==
  /\ hl \in [Pipes -> HalStates] /\ hd \in [Pipes -> HwStates]
  /\ \A e \in Pipes : (hl[e] # "free" <=> e \in es) /\ (hd[e].used <=> e \in es)
  /\ \A e \in Pipes : hd[e].halted => hd[e].stallrq

FunctionInv ==
  /\ acm = Zeroed \/ acm = Shut \/ acm = Halfway \/ acm = Whole
  /\ Holds(Recorded(acm), hal, hw)
  /\ acm = Zeroed => ctl.state = "off" /\ app.pc = "idle"

\* Endpoint 0 and the device core.
HostInv ==
  /\ ctl \in [state : {"off", "X_SETUP", "X_DATA", "X_STATUS", "HALTED"},
              busy : BOOLEAN, stalled : BOOLEAN]
  /\ dev \in [state : {"POWER", "DEFAULT", "ADDRESS", "CONFIG"}, cfg : {0, 1}]
  /\ req.kind = "config" => req.value \in {0, 1}
  /\ ctl.state \in {"X_DATA", "X_STATUS"} => ctl.busy
  /\ ctl.state = "HALTED" => ctl.stalled

\* A write that goes on to start a packet goes for the data endpoint, and the
\* endpoint claimed for a packet is started, halted or about to be.
WriteInv ==
  /\ app \in [pc : {"idle", "read", "claim", "start"}, ep : {"none", "data_in"}]
  /\ app.pc = "start" => app.ep = "data_in"
  /\ hal["data_in"] = "X_DATA" =>
       hw["data_in"].busy \/ hw["data_in"].stallrq \/ app.pc = "start"

IInv == FunctionInv /\ HostInv /\ WriteInv

-----------------------------------------------------------------------------
(* Opening and closing the function. *)

\* The endpoints that each of the four records names.
LEMMA RecordedOf ==
  /\ Recorded(Zeroed) = {} /\ Recorded(Shut) = {}
  /\ Recorded(Halfway) = {"data_in", "data_out"} /\ Recorded(Whole) = Pipes
<1>1. ASSUME NEW a, a.iface[1] # "none", a.iface[2] # "none"
      PROVE  Recorded(a) = {a.epIn[1], a.epIn[2], a.epOut} \cap Pipes
  BY <1>1 DEF Recorded
<1>2. ASSUME NEW a, a.iface[1] # "none", a.iface[2] = "none"
      PROVE  Recorded(a) = {a.epIn[1], a.epOut} \cap Pipes
  BY <1>2 DEF Recorded
<1>3. ASSUME NEW a, a.iface[1] = "none", a.iface[2] = "none"
      PROVE  Recorded(a) = {a.epOut} \cap Pipes
  BY <1>3 DEF Recorded
<1>4. Recorded(Zeroed) = {}  BY <1>1 DEF Zeroed, Pipes
<1>5. Recorded(Shut) = {}  BY <1>3 DEF Shut, Pipes
<1>6. Recorded(Halfway) = {"data_in", "data_out"}
  <2>1. Recorded(Halfway) = {Halfway.epIn[1], Halfway.epOut} \cap Pipes
    BY <1>2 DEF Halfway
  <2> QED  BY <2>1 DEF Halfway, Pipes
<1>7. Recorded(Whole) = Pipes
  <2>1. Recorded(Whole) = {Whole.epIn[1], Whole.epIn[2], Whole.epOut} \cap Pipes
    BY <1>1 DEF Whole
  <2> QED  BY <2>1 DEF Whole, Pipes
<1> QED  BY <1>4, <1>5, <1>6, <1>7

\* What opening an endpoint does to the controller ...
LEMMA OpenedHw ==
  ASSUME NEW h \in HwStates
  PROVE  /\ Opened(h) \in HwStates
         /\ Opened(h).used /\ ~Opened(h).busy /\ ~Opened(h).halted
BY DEF Opened, HwStates

\* ... and closing it.
LEMMA ClosedHw ==
  ASSUME NEW h \in HwStates
  PROVE  Closed(h) \in HwStates /\ ~Closed(h).used /\ ~Closed(h).halted
BY DEF Closed, HwStates

\* Whatever the function has noted, closing it leaves nothing held, provided it
\* holds nothing that was not noted.
LEMMA DisableCloses ==
  ASSUME NEW fs,
         fs.acm = Zeroed \/ fs.acm = Shut \/ fs.acm = Halfway \/ fs.acm = Whole,
         fs.hal \in [Pipes -> HalStates], fs.hw \in [Pipes -> HwStates],
         \A e \in Pipes \ Recorded(fs.acm) : fs.hal[e] = "free" /\ ~fs.hw[e].used,
         \A e \in Pipes : fs.hw[e].halted => fs.hw[e].stallrq
  PROVE  /\ Disable(fs).acm = Shut
         /\ Holds({}, Disable(fs).hal, Disable(fs).hw)
<1>1. /\ Disable(fs).hal = [e \in Pipes |-> IF e \in Recorded(fs.acm) THEN "free"
                                              ELSE fs.hal[e]]
      /\ Disable(fs).hw = [e \in Pipes |-> IF e \in Recorded(fs.acm) THEN Closed(fs.hw[e])
                                             ELSE fs.hw[e]]
  BY DEF Disable
<1>2. \A e \in Pipes : Disable(fs).hal[e] = "free"
  BY <1>1
<1>3. Disable(fs).hal \in [Pipes -> HalStates]
  BY <1>1 DEF HalStates
<1>4. ASSUME NEW e \in Pipes
      PROVE  /\ Disable(fs).hw[e] \in HwStates /\ ~Disable(fs).hw[e].used
             /\ Disable(fs).hw[e].halted => Disable(fs).hw[e].stallrq
  <2>1. CASE e \in Recorded(fs.acm)
    <3>1. Disable(fs).hw[e] = Closed(fs.hw[e])  BY <1>1, <2>1
    <3> QED  BY <3>1, ClosedHw
  <2>2. CASE e \notin Recorded(fs.acm)
    <3>1. Disable(fs).hw[e] = fs.hw[e]  BY <1>1, <2>2
    <3> QED  BY <3>1, <2>2
  <2> QED  BY <2>1, <2>2
<1>5. Disable(fs).hw \in [Pipes -> HwStates]
  BY <1>1, <1>4
<1>6. Holds({}, Disable(fs).hal, Disable(fs).hw)
  BY <1>2, <1>3, <1>4, <1>5 DEF Holds
<1>7. Disable(fs).acm = Shut
  <2>1. ASSUME NEW i \in 1..2
        PROVE  (IF fs.acm.iface[i] = "none" THEN fs.acm.epIn[i] ELSE "none") = "none"
    <3>1. i = 1 \/ i = 2  OBVIOUS
    <3> QED  BY <3>1 DEF Shut, Zeroed, Halfway, Whole
  <2>2. [i \in 1..2 |-> IF fs.acm.iface[i] = "none" THEN fs.acm.epIn[i] ELSE "none"]
          = [i \in 1..2 |-> "none"]
    BY <2>1
  <2>3. [i \in 1..2 |-> "none"] = <<"none", "none">>
    OBVIOUS
  <2>4. [i \in 1..2 |-> IF fs.acm.iface[i] = "none" THEN fs.acm.epIn[i] ELSE "none"]
          = <<"none", "none">>
    BY <2>2, <2>3
  <2> QED  BY <2>4 DEF Disable, Shut
<1> QED  BY <1>6, <1>7

\* The function's state as the code passes it around, with its last answer.
Good(a, hl, hd) == [acm |-> a, hal |-> hl, hw |-> hd, ok |-> TRUE]
Bad(a, hl, hd) == [acm |-> a, hal |-> hl, hw |-> hd, ok |-> FALSE]

\* Setting the answer of a transition ...
LEMMA Answers ==
  ASSUME NEW a, NEW hl, NEW hd, NEW r, r = Good(a, hl, hd) \/ r = Bad(a, hl, hd)
  PROVE  [r EXCEPT !.ok = TRUE] = Good(a, hl, hd) /\ [r EXCEPT !.ok = FALSE] = Bad(a, hl, hd)
<1>1. DOMAIN r = {"acm", "hal", "hw", "ok"} /\ r.acm = a /\ r.hal = hl /\ r.hw = hd
  BY DEF Good, Bad
<1>2. [r EXCEPT !.ok = TRUE] = Good(a, hl, hd)
  <2> PICK q : q = [r EXCEPT !.ok = TRUE]
    OBVIOUS
  <2>1. q.acm = a /\ q.hal = hl /\ q.hw = hd /\ q.ok = TRUE
    BY <1>1
  <2>2. q = [acm |-> q.acm, hal |-> q.hal, hw |-> q.hw, ok |-> q.ok]
    BY <1>1
  <2> QED  BY <2>1, <2>2 DEF Good
<1>3. [r EXCEPT !.ok = FALSE] = Bad(a, hl, hd)
  <2> PICK q : q = [r EXCEPT !.ok = FALSE]
    OBVIOUS
  <2>1. q.acm = a /\ q.hal = hl /\ q.hw = hd /\ q.ok = FALSE
    BY <1>1
  <2>2. q = [acm |-> q.acm, hal |-> q.hal, hw |-> q.hw, ok |-> q.ok]
    BY <1>1
  <2> QED  BY <2>1, <2>2 DEF Bad
<1> QED  BY <1>2, <1>3

\* ... and the enabled flag of its record.
LEMMA AnswerEnabled ==
  ASSUME NEW a, NEW hl, NEW hd, NEW r, r = Good(a, hl, hd)
  PROVE  [r EXCEPT !.acm.enabled = TRUE] = Good([a EXCEPT !.enabled = TRUE], hl, hd)
<1>1. /\ DOMAIN r = {"acm", "hal", "hw", "ok"} /\ r.acm = a /\ r.hal = hl /\ r.hw = hd
      /\ r.ok = TRUE
  BY DEF Good
<1> PICK q : q = [r EXCEPT !.acm.enabled = TRUE]
  OBVIOUS
<1>2. q.acm = [a EXCEPT !.enabled = TRUE] /\ q.hal = hl /\ q.hw = hd /\ q.ok = TRUE
  BY <1>1
<1>3. q = [acm |-> q.acm, hal |-> q.hal, hw |-> q.hw, ok |-> q.ok]
  BY <1>1
<1>4. q = Good([a EXCEPT !.enabled = TRUE], hl, hd)
  BY <1>2, <1>3 DEF Good
<1> QED  BY <1>4

\* The record of a function not enabled, and interface f noted at place i of it.
Acm(f1, f2, e1, e2, o) ==
  [iface |-> <<f1, f2>>, epIn |-> <<e1, e2>>, epOut |-> o, enabled |-> FALSE]
Noted(a, i, f) ==
  [a EXCEPT !.iface[i] = f, !.epIn[i] = InOf(f),
            !.epOut = IF f = "data" THEN "data_out" ELSE @]
OutOf(f, o) == IF f = "data" THEN "data_out" ELSE o

\* What the function notes of an interface.
LEMMA NotedIs ==
  ASSUME NEW f1, NEW f2, NEW e1, NEW e2, NEW o, NEW f
  PROVE  /\ Noted(Acm(f1, f2, e1, e2, o), 1, f) = Acm(f, f2, InOf(f), e2, OutOf(f, o))
         /\ Noted(Acm(f1, f2, e1, e2, o), 2, f) = Acm(f1, f, e1, InOf(f), OutOf(f, o))
<1>1. ASSUME NEW i, NEW t, NEW s, [<<f1, f2>> EXCEPT ![i] = f] = t,
             [<<e1, e2>> EXCEPT ![i] = InOf(f)] = s
      PROVE  Noted(Acm(f1, f2, e1, e2, o), i, f) =
               [iface |-> t, epIn |-> s, epOut |-> OutOf(f, o), enabled |-> FALSE]
  <2> PICK r : r = Acm(f1, f2, e1, e2, o)
    OBVIOUS
  <2>1. r.iface = <<f1, f2>> /\ r.epIn = <<e1, e2>> /\ r.epOut = o /\ r.enabled = FALSE
    BY DEF Acm
  <2>2. DOMAIN r = {"iface", "epIn", "epOut", "enabled"}
    BY DEF Acm
  <2> PICK q : q = Noted(r, i, f)
    OBVIOUS
  <2>3. q.iface = [<<f1, f2>> EXCEPT ![i] = f]  BY <2>1, <2>2 DEF Noted
  <2>4. q.epIn = [<<e1, e2>> EXCEPT ![i] = InOf(f)]  BY <2>1, <2>2 DEF Noted
  <2>5. q.epOut = OutOf(f, o)  BY <2>1, <2>2 DEF Noted, OutOf
  <2>6. q.enabled = FALSE  BY <2>1, <2>2 DEF Noted
  <2>7. q = [iface |-> q.iface, epIn |-> q.epIn, epOut |-> q.epOut, enabled |-> q.enabled]
    BY <2>2 DEF Noted
  <2> QED  BY <1>1, <2>3, <2>4, <2>5, <2>6, <2>7
<1>2. /\ [<<f1, f2>> EXCEPT ![1] = f] = <<f, f2>>
      /\ [<<e1, e2>> EXCEPT ![1] = InOf(f)] = <<InOf(f), e2>>
  OBVIOUS
<1>3. /\ [<<f1, f2>> EXCEPT ![2] = f] = <<f1, f>>
      /\ [<<e1, e2>> EXCEPT ![2] = InOf(f)] = <<e1, InOf(f)>>
  OBVIOUS
<1>4. Noted(Acm(f1, f2, e1, e2, o), 1, f) =
        [iface |-> <<f, f2>>, epIn |-> <<InOf(f), e2>>, epOut |-> OutOf(f, o), enabled |-> FALSE]
  BY ONLY <1>1, <1>2, Zenon
<1>5. Noted(Acm(f1, f2, e1, e2, o), 2, f) =
        [iface |-> <<f1, f>>, epIn |-> <<e1, InOf(f)>>, epOut |-> OutOf(f, o), enabled |-> FALSE]
  BY ONLY <1>1, <1>3, Zenon
<1> QED  BY <1>4, <1>5 DEF Acm

\* Between the two interfaces.
CommOnly == Acm("comm", "none", "comm_in", "none", "none")

\* Noting the interfaces one by one leads from one shape to the next.
LEMMA NotedShapes ==
  /\ Noted(Shut, 1, "data") = Halfway /\ Noted(Shut, 1, "comm") = CommOnly
  /\ [Noted(CommOnly, 2, "data") EXCEPT !.enabled = TRUE] = Whole
<1>1. Shut = Acm("none", "none", "none", "none", "none")
  BY DEF Shut, Acm
<1>2. /\ InOf("data") = "data_in" /\ InOf("comm") = "comm_in"
      /\ \A o : OutOf("data", o) = "data_out" /\ OutOf("comm", o) = o
  BY DEF InOf, OutOf
<1>3. Noted(Shut, 1, "data") = Halfway
  <2>1. Noted(Shut, 1, "data") = Acm("data", "none", "data_in", "none", "data_out")
    BY <1>1, <1>2, NotedIs
  <2> QED  BY <2>1 DEF Halfway, Acm
<1>4. Noted(Shut, 1, "comm") = CommOnly
  BY <1>1, <1>2, NotedIs DEF CommOnly
<1>5. Noted(CommOnly, 2, "data") = Acm("comm", "data", "comm_in", "data_in", "data_out")
  BY <1>2, NotedIs DEF CommOnly
<1>6. [Acm("comm", "data", "comm_in", "data_in", "data_out") EXCEPT !.enabled = TRUE] = Whole
  <2> PICK r : r = Acm("comm", "data", "comm_in", "data_in", "data_out")
    OBVIOUS
  <2>1. /\ DOMAIN r = {"iface", "epIn", "epOut", "enabled"}
        /\ r.iface = <<"comm", "data">> /\ r.epIn = <<"comm_in", "data_in">>
        /\ r.epOut = "data_out"
    BY DEF Acm
  <2> PICK q : q = [r EXCEPT !.enabled = TRUE]
    OBVIOUS
  <2>2. q = [iface |-> q.iface, epIn |-> q.epIn, epOut |-> q.epOut, enabled |-> q.enabled]
    BY <2>1
  <2>3. q.iface = r.iface /\ q.epIn = r.epIn /\ q.epOut = r.epOut /\ q.enabled = TRUE
    BY <2>1
  <2> QED  BY <2>1, <2>2, <2>3 DEF Whole
<1> QED  BY <1>3, <1>4, <1>5, <1>6

\* A function that has noted something is left as it is.
LEMMA EnableRefused ==
  ASSUME NEW a, a = Halfway \/ a = Whole, NEW hl, NEW hd, NEW f, NEW r,
         r = Good(a, hl, hd) \/ r = Bad(a, hl, hd)
  PROVE  Enable(r, f) = Bad(a, hl, hd)
<1>0. PICK g : g = Good(a, hl, hd)
  OBVIOUS
<1>1. g.acm.iface[1] # "none"
  BY <1>0 DEF Good, Halfway, Whole
<1>2. Install(g, 1, f) = Bad(a, hl, hd)
  BY <1>0, <1>1, Answers DEF Install
<1>3. ~Bad(a, hl, hd).ok
  BY DEF Bad
<1>4. r = Good(a, hl, hd) \/ r = Bad(a, hl, hd)
  OBVIOUS
<1>5. [r EXCEPT !.ok = TRUE] = g
  BY ONLY <1>0, <1>4, Answers
<1> QED  BY <1>2, <1>3, <1>5 DEF Enable

OpenedHal(hl, f) == [e \in Pipes |-> IF e \in EpsOf(f) THEN "IDLE" ELSE hl[e]]
OpenedHws(hd, f) == [e \in Pipes |-> IF e \in EpsOf(f) THEN Opened(hd[e]) ELSE hd[e]]

\* An interface whose place and endpoints are free is opened.
LEMMA InstallOpens ==
  ASSUME NEW a, NEW hl, NEW hd, NEW i, NEW f, a.iface[i] = "none",
         \A e \in EpsOf(f) : hl[e] = "free" /\ ~hd[e].used
  PROVE  Install(Good(a, hl, hd), i, f) =
           Good(Noted(a, i, f), OpenedHal(hl, f), OpenedHws(hd, f))
<1>1. Good(a, hl, hd).acm.iface[i] = "none"
  BY DEF Good
<1>2. ~ \E e \in EpsOf(f) : \/ Good(a, hl, hd).hal[e] # "free"
                            \/ Good(a, hl, hd).hw[e].used
  BY DEF Good
<1> QED  BY <1>1, <1>2 DEF Install, Good, Noted, OpenedHal, OpenedHws

\* What the endpoints are after an interface is opened.
LEMMA OpenedHolds ==
  ASSUME NEW es \in SUBSET Pipes, NEW hl, NEW hd, Holds(es, hl, hd), NEW f \in Ifaces
  PROVE  Holds(es \cup EpsOf(f), OpenedHal(hl, f), OpenedHws(hd, f))
<1>1. EpsOf(f) \subseteq Pipes
  BY DEF EpsOf, Pipes
<1>2. hl \in [Pipes -> HalStates] /\ hd \in [Pipes -> HwStates]
  BY DEF Holds
<1>3. OpenedHal(hl, f) \in [Pipes -> HalStates]
  BY <1>2 DEF OpenedHal, HalStates
<1>4. \A e \in Pipes : OpenedHal(hl, f)[e] # "free" <=> e \in es \cup EpsOf(f)
  BY DEF OpenedHal, Holds
<1>5. ASSUME NEW e \in Pipes
      PROVE  /\ OpenedHws(hd, f)[e] \in HwStates
             /\ OpenedHws(hd, f)[e].used <=> e \in es \cup EpsOf(f)
             /\ OpenedHws(hd, f)[e].halted => OpenedHws(hd, f)[e].stallrq
  <2>1. CASE e \in EpsOf(f)
    <3>1. OpenedHws(hd, f)[e] = Opened(hd[e])  BY <2>1 DEF OpenedHws
    <3> QED  BY <1>2, <2>1, <3>1, OpenedHw
  <2>2. CASE e \notin EpsOf(f)
    <3>1. OpenedHws(hd, f)[e] = hd[e]  BY <2>2 DEF OpenedHws
    <3> QED  BY <1>2, <2>2, <3>1 DEF Holds
  <2> QED  BY <2>1, <2>2
<1>6. OpenedHws(hd, f) \in [Pipes -> HwStates]
  BY <1>5 DEF OpenedHws
<1> QED  BY <1>3, <1>4, <1>5, <1>6 DEF Holds

\* Opening the data interface leaves its IN endpoint idle.
LEMMA DataOpened ==
  ASSUME NEW es, NEW hl, NEW hd, Holds(es, hl, hd)
  PROVE  /\ OpenedHal(hl, "data")["data_in"] = "IDLE"
         /\ ~OpenedHws(hd, "data")["data_in"].busy
<1>1. "data_in" \in Pipes /\ "data_in" \in EpsOf("data")
  BY DEF Pipes, EpsOf
<1>2. hd["data_in"] \in HwStates
  BY <1>1 DEF Holds
<1> QED  BY <1>1, <1>2, OpenedHw DEF OpenedHal, OpenedHws

\* A function that has noted nothing opens the interfaces from f on: all of them,
\* or the second one in the place of the first.
LEMMA EnableOpens ==
  ASSUME NEW hl, NEW hd, Holds({}, hl, hd), NEW f \in Ifaces
  PROVE  \E hl2, hd2 :
           /\ Enable(Good(Shut, hl, hd), f) =
                IF f = "comm" THEN Good(Whole, hl2, hd2) ELSE Bad(Halfway, hl2, hd2)
           /\ Holds(IF f = "comm" THEN Pipes ELSE {"data_in", "data_out"}, hl2, hd2)
           /\ hl2["data_in"] = "IDLE" /\ ~hd2["data_in"].busy
<1> PICK g : g = Good(Shut, hl, hd)
  OBVIOUS
<1>1. [g EXCEPT !.ok = TRUE] = Good(Shut, hl, hd)
  BY Answers
<1>2. \A e \in Pipes : hl[e] = "free" /\ ~hd[e].used
  BY DEF Holds
<1>3. EpsOf("comm") = {"comm_in"} /\ EpsOf("data") = {"data_in", "data_out"}
  BY DEF EpsOf
<1>4. CASE f = "data"
  <2>1. Install(Good(Shut, hl, hd), 1, "data") =
          Good(Halfway, OpenedHal(hl, "data"), OpenedHws(hd, "data"))
    <3>1. Shut.iface[1] = "none"  BY DEF Shut
    <3>2. \A e \in EpsOf("data") : hl[e] = "free" /\ ~hd[e].used
      BY <1>2, <1>3 DEF Pipes
    <3>3. Install(Good(Shut, hl, hd), 1, "data") =
            Good(Noted(Shut, 1, "data"), OpenedHal(hl, "data"), OpenedHws(hd, "data"))
      BY <3>1, <3>2, InstallOpens
    <3> QED  BY <3>3, NotedShapes
  <2>2. Good(Halfway, OpenedHal(hl, "data"), OpenedHws(hd, "data")).ok
    BY DEF Good
  <2>3. Enable(Good(Shut, hl, hd), "data") =
          Bad(Halfway, OpenedHal(hl, "data"), OpenedHws(hd, "data"))
    <3>1. PICK n : n = Good(Halfway, OpenedHal(hl, "data"), OpenedHws(hd, "data"))
      OBVIOUS
    <3>2. Enable(g, "data") = [n EXCEPT !.ok = FALSE]
      BY <1>1, <2>1, <2>2, <3>1 DEF Enable
    <3>3. [n EXCEPT !.ok = FALSE] = Bad(Halfway, OpenedHal(hl, "data"), OpenedHws(hd, "data"))
      BY ONLY <3>1, Answers
    <3> QED  BY <3>2, <3>3
  <2>4. Holds({} \cup EpsOf("data"), OpenedHal(hl, "data"), OpenedHws(hd, "data"))
    BY OpenedHolds DEF Ifaces
  <2>5. Holds({"data_in", "data_out"}, OpenedHal(hl, "data"), OpenedHws(hd, "data"))
    BY <1>3, <2>4
  <2> QED  BY <1>4, <2>3, <2>5, DataOpened
<1>5. CASE f = "comm"
  <2>1. Install(Good(Shut, hl, hd), 1, "comm") =
          Good(CommOnly, OpenedHal(hl, "comm"), OpenedHws(hd, "comm"))
    <3>1. Shut.iface[1] = "none"  BY DEF Shut
    <3>2. \A e \in EpsOf("comm") : hl[e] = "free" /\ ~hd[e].used
      BY <1>2, <1>3 DEF Pipes
    <3>3. Install(Good(Shut, hl, hd), 1, "comm") =
            Good(Noted(Shut, 1, "comm"), OpenedHal(hl, "comm"), OpenedHws(hd, "comm"))
      BY <3>1, <3>2, InstallOpens
    <3> QED  BY <3>3, NotedShapes
  <2> PICK hl1, hd1 : hl1 = OpenedHal(hl, "comm") /\ hd1 = OpenedHws(hd, "comm")
    OBVIOUS
  <2>3. Holds({"comm_in"}, hl1, hd1)
    <3>1. Holds({} \cup EpsOf("comm"), hl1, hd1)
      BY OpenedHolds DEF Ifaces
    <3> QED  BY <1>3, <3>1
  <2>4. Install(Good(CommOnly, hl1, hd1), 2, "data") =
          Good(Noted(CommOnly, 2, "data"), OpenedHal(hl1, "data"), OpenedHws(hd1, "data"))
    <3>1. CommOnly.iface[2] = "none"  BY DEF CommOnly, Acm
    <3>2. \A e \in EpsOf("data") : hl1[e] = "free" /\ ~hd1[e].used
      BY <1>3, <2>3 DEF Holds, Pipes
    <3> QED  BY <3>1, <3>2, InstallOpens
  <2>5. PICK n : n = Good(Noted(CommOnly, 2, "data"), OpenedHal(hl1, "data"),
                          OpenedHws(hd1, "data"))
    OBVIOUS
  <2>6. Enable(Good(Shut, hl, hd), "comm") =
          Good(Whole, OpenedHal(hl1, "data"), OpenedHws(hd1, "data"))
    <3>1. n.ok
      BY <2>5 DEF Good
    <3>2. Good(CommOnly, hl1, hd1).ok
      BY DEF Good
    <3>3. Enable(g, "comm") = [n EXCEPT !.acm.enabled = TRUE]
      BY <1>1, <2>1, <2>4, <2>5, <3>1, <3>2 DEF Enable
    <3>4. [n EXCEPT !.acm.enabled = TRUE] =
            Good([Noted(CommOnly, 2, "data") EXCEPT !.enabled = TRUE],
                 OpenedHal(hl1, "data"), OpenedHws(hd1, "data"))
      BY ONLY <2>5, AnswerEnabled
    <3> QED  BY <3>3, <3>4, NotedShapes
  <2>7. Holds({"comm_in"} \cup EpsOf("data"), OpenedHal(hl1, "data"), OpenedHws(hd1, "data"))
    BY <2>3, OpenedHolds DEF Ifaces, Pipes
  <2>8. Holds(Pipes, OpenedHal(hl1, "data"), OpenedHws(hd1, "data"))
    BY <1>3, <2>7 DEF Pipes
  <2> QED  BY <1>5, <2>3, <2>6, <2>8, DataOpened
<1> QED  BY <1>4, <1>5 DEF Ifaces

-----------------------------------------------------------------------------
(* The steps that open or close the function. *)

\* After one of them nothing is on its way and nothing is claimed.
Reopened ==
  /\ acm' = Shut \/ acm' = Halfway \/ acm' = Whole
  /\ Holds(Recorded(acm'), hal', hw')
  /\ hal'["data_in"] # "X_DATA" /\ ~(hw'["data_in"].used /\ hw'["data_in"].busy)

\* The record before the first reset is none of the others.
LEMMA ShapesDiffer == Zeroed # Shut /\ Zeroed # Halfway /\ Zeroed # Whole
<1>1. Zeroed.epOut = "ep0" /\ Shut.epOut = "none" /\ Halfway.epOut = "data_out"
      /\ Whole.epOut = "data_out"
  BY DEF Zeroed, Shut, Halfway, Whole
<1> QED  BY <1>1

\* An endpoint that is not held is free in both layers.
LEMMA HeldOutside ==
  ASSUME NEW es, NEW hl, NEW hd, Holds(es, hl, hd)
  PROVE  /\ hl \in [Pipes -> HalStates] /\ hd \in [Pipes -> HwStates]
         /\ \A e \in Pipes \ es : hl[e] = "free" /\ ~hd[e].used
         /\ \A e \in Pipes : hd[e].halted => hd[e].stallrq
BY DEF Holds

\* A closed function holds nothing.
LEMMA ShutFresh ==
  ASSUME acm' = Shut, Holds({}, hal', hw')
  PROVE  Reopened
<1>1. hal'["data_in"] = "free" /\ ~hw'["data_in"].used
  BY DEF Holds, Pipes
<1> QED  BY <1>1, RecordedOf DEF Reopened

\* Closing the function as it is.
LEMMA DisableCurrent ==
  ASSUME FunctionInv
  PROVE  \E hl, hd : Disable(Current) = Good(Shut, hl, hd) /\ Holds({}, hl, hd)
<1>1. Current.acm = acm /\ Current.hal = hal /\ Current.hw = hw
  BY DEF Current
<1>2. Disable(Current).acm = Shut /\ Holds({}, Disable(Current).hal, Disable(Current).hw)
  BY <1>1, DisableCloses, HeldOutside DEF FunctionInv
<1>3. \E a, hl, hd : Disable(Current) = Good(a, hl, hd)
  BY DEF Disable, Good
<1>4. PICK a, hl, hd : Disable(Current) = Good(a, hl, hd)
  BY <1>3
<1>5. Good(a, hl, hd).acm = a /\ Good(a, hl, hd).hal = hl /\ Good(a, hl, hd).hw = hd
  BY DEF Good
<1> QED  BY <1>2, <1>4, <1>5

\* A bus reset closes the function.
LEMMA BusResetReopens ==
  ASSUME FunctionInv, BusReset
  PROVE  Reopened
<1>1. PICK fs : /\ fs.acm = acm
               /\ fs.hal = [e \in Pipes |-> IF hw[e].used /\ hw[e].busy THEN "DISABLED"
                                             ELSE hal[e]]
               /\ fs.hw = [e \in Pipes |-> Unused]
               /\ Becomes(Disable(fs))
  <2>1. BusReset => Becomes(Disable([Current EXCEPT
          !.hal = [e \in Pipes |-> IF hw[e].used /\ hw[e].busy THEN "DISABLED" ELSE hal[e]],
          !.hw = [e \in Pipes |-> Unused]]))
    BY DEF BusReset
  <2> QED  BY <2>1 DEF Current
<1>2. Unused \in HwStates /\ ~Unused.used /\ ~Unused.halted
  BY DEF Unused, HwStates
<1>3. fs.hw \in [Pipes -> HwStates] /\ \A e \in Pipes : ~fs.hw[e].used /\ ~fs.hw[e].halted
  BY <1>1, <1>2
<1>4. fs.hal \in [Pipes -> HalStates]
  BY <1>1 DEF FunctionInv, Holds, HalStates
<1>5. \A e \in Pipes \ Recorded(fs.acm) : fs.hal[e] = "free"
  BY <1>1 DEF FunctionInv, Holds
<1>6. Disable(fs).acm = Shut /\ Holds({}, Disable(fs).hal, Disable(fs).hw)
  BY <1>1, <1>3, <1>4, <1>5, DisableCloses DEF FunctionInv
<1>7. acm' = Shut /\ Holds({}, hal', hw')
  BY <1>1, <1>6 DEF Becomes
<1> QED  BY <1>7, ShutFresh

\* The state opened by EnableOpens is a fresh one.
LEMMA OpenedReopens ==
  ASSUME NEW hl, NEW hd, Holds({}, hl, hd), NEW f \in Ifaces,
         Becomes(Enable(Good(Shut, hl, hd), f))
  PROVE  Reopened
<1>1. PICK hl2, hd2 :
           /\ Enable(Good(Shut, hl, hd), f) =
                IF f = "comm" THEN Good(Whole, hl2, hd2) ELSE Bad(Halfway, hl2, hd2)
           /\ Holds(IF f = "comm" THEN Pipes ELSE {"data_in", "data_out"}, hl2, hd2)
           /\ hl2["data_in"] = "IDLE" /\ ~hd2["data_in"].busy
  BY EnableOpens
<1>2. hal' = hl2 /\ hw' = hd2 /\ acm' = IF f = "comm" THEN Whole ELSE Halfway
  BY <1>1 DEF Becomes, Good, Bad
<1>3. Recorded(acm') = IF f = "comm" THEN Pipes ELSE {"data_in", "data_out"}
  BY <1>2, RecordedOf
<1> QED  BY <1>1, <1>2, <1>3 DEF Reopened

\* After SET_CONFIGURATION nothing is on its way, whatever it answers.
LEMMA SetConfigReopens ==
  ASSUME FunctionInv, NEW v \in {0, 1}, SetConfig(v)
  PROVE  Reopened \/ UNCHANGED function
<1>1. Becomes(Configure(Current, v)) /\ ctl.state # "off"
  BY DEF SetConfig, Setup
<1>2. Current = Good(acm, hal, hw)
  BY DEF Current, Good
<1>3. CASE v = 0
  <2>1. Becomes(Disable(Current))
    BY <1>1, <1>3 DEF Configure
  <2>2. PICK hl, hd : Disable(Current) = Good(Shut, hl, hd) /\ Holds({}, hl, hd)
    BY DisableCurrent
  <2>3. acm' = Shut /\ Holds({}, hal', hw')
    BY <2>1, <2>2 DEF Becomes, Good
  <2> QED  BY <2>3, ShutFresh
<1>4. CASE v = 1
  <2>1. Configure(Current, v) = IF Enable(Current, "comm").ok THEN Enable(Current, "comm")
                                ELSE Enable(Enable(Current, "comm"), "data")
    BY <1>4 DEF Configure
  <2>2. CASE acm = Shut
    <3>1. Holds({}, hal, hw)
      BY <2>2, RecordedOf DEF FunctionInv
    <3>2. Enable(Current, "comm").ok
      <4>1. PICK hl2, hd2 : Enable(Good(Shut, hal, hw), "comm") = Good(Whole, hl2, hd2)
        BY <3>1, EnableOpens DEF Ifaces
      <4> QED  BY <1>2, <2>2, <4>1 DEF Good
    <3>3. Becomes(Enable(Good(Shut, hal, hw), "comm"))
      BY <1>1, <1>2, <2>1, <2>2, <3>2
    <3> QED  BY <3>1, <3>3, OpenedReopens DEF Ifaces
  <2>3. CASE acm = Halfway \/ acm = Whole
    <3>1. Enable(Current, "comm") = Bad(acm, hal, hw)
      BY <1>2, <2>3, EnableRefused
    <3>2. Enable(Bad(acm, hal, hw), "data") = Bad(acm, hal, hw)
      BY <2>3, EnableRefused
    <3>3. ~Bad(acm, hal, hw).ok
      BY DEF Bad
    <3>4. Becomes(Bad(acm, hal, hw))
      BY <1>1, <2>1, <3>1, <3>2, <3>3
    <3> QED  BY <3>4 DEF Becomes, Bad, function
  <2>4. acm # Zeroed
    BY <1>1 DEF FunctionInv
  <2> QED  BY <2>2, <2>3, <2>4 DEF FunctionInv
<1> QED  BY <1>3, <1>4

\* Nor is it after SET_INTERFACE.
LEMMA SetInterfaceReopens ==
  ASSUME FunctionInv, NEW f \in Ifaces, SetInterface(f)
  PROVE  Reopened \/ UNCHANGED function
<1>1. CASE dev.cfg = 0
  BY <1>1 DEF SetInterface
<1>2. CASE dev.cfg # 0
  <2>1. Becomes(Enable(Disable(Current), f))
    BY <1>2 DEF SetInterface
  <2>2. PICK hl, hd : Disable(Current) = Good(Shut, hl, hd) /\ Holds({}, hl, hd)
    BY DisableCurrent
  <2> QED  BY <2>1, <2>2, OpenedReopens
<1> QED  BY <1>1, <1>2

-----------------------------------------------------------------------------
(* The steps that change one endpoint. *)

\* The driver's side of endpoint e changes from h to g without the endpoint
\* being opened or closed.
LEMMA HoldsHw ==
  ASSUME NEW es, NEW hl, NEW hd, Holds(es, hl, hd), NEW e \in Pipes, NEW g \in HwStates,
         g.used = hd[e].used, g.halted => g.stallrq
  PROVE  Holds(es, hl, [hd EXCEPT ![e] = g])
<1> PICK hd2 : hd2 = [hd EXCEPT ![e] = g]
  OBVIOUS
<1>1. hd2[e] = g /\ \A d \in Pipes : d # e => hd2[d] = hd[d]
  BY DEF Holds
<1>2. hd2 \in [Pipes -> HwStates]
  BY DEF Holds
<1>3. \A d \in Pipes : (hd2[d].used <=> d \in es) /\ (hd2[d].halted => hd2[d].stallrq)
  BY <1>1 DEF Holds
<1> QED  BY <1>2, <1>3 DEF Holds

\* The transfer layer's side.
LEMMA HoldsHal ==
  ASSUME NEW es, NEW hl, NEW hd, Holds(es, hl, hd), NEW e \in Pipes, NEW x \in HalStates,
         x # "free", hl[e] # "free"
  PROVE  Holds(es, [hl EXCEPT ![e] = x], hd)
BY DEF Holds

\* What each request or interrupt makes of an endpoint.
LEMMA HwChanges ==
  ASSUME NEW h \in HwStates
  PROVE  /\ [h EXCEPT !.halted = TRUE, !.stallrq = TRUE, !.stallint = TRUE] \in HwStates
         /\ [h EXCEPT !.halted = FALSE, !.stallrq = FALSE, !.stallint = FALSE,
                      !.stalled = FALSE] \in HwStates
         /\ [h EXCEPT !.busy = FALSE, !.stallint = FALSE] \in HwStates
         /\ [h EXCEPT !.stalled = TRUE] \in HwStates
         /\ [h EXCEPT !.stallint = FALSE] \in HwStates
         /\ [h EXCEPT !.busy = TRUE, !.in = TRUE, !.stallint = h.used] \in HwStates
BY DEF HwStates

\* A step that keeps what the function holds and does not free or fail to free a
\* claimed endpoint.
Kept ==
  /\ Holds(Recorded(acm), hal', hw')
  /\ hal'["data_in"] = "X_DATA" =>
       hw'["data_in"].busy \/ hw'["data_in"].stallrq \/ app'.pc = "start"

\* A halt leaves what is held, and a claim can still be ended.
LEMMA SetHaltKeeps ==
  ASSUME FunctionInv, WriteInv, NEW e \in Pipes, SetHalt(e)
  PROVE  Kept
<1>1. CASE hw[e].used
  <2>1. hw' = [hw EXCEPT ![e] = [hw[e] EXCEPT !.halted = TRUE, !.stallrq = TRUE,
                                              !.stallint = TRUE]]
    BY <1>1 DEF SetHalt, FunctionInv, Holds
  <2> PICK g : g = [hw[e] EXCEPT !.halted = TRUE, !.stallrq = TRUE, !.stallint = TRUE]
    OBVIOUS
  <2>2. hw[e] \in HwStates
    BY DEF FunctionInv, Holds
  <2>3. g \in HwStates /\ g.used = hw[e].used /\ g.busy = hw[e].busy /\ g.stallrq
    <3>1. g \in HwStates
      BY <2>2, HwChanges
    <3>2. g.used = hw[e].used /\ g.busy = hw[e].busy /\ g.stallrq
      BY <2>2 DEF HwStates
    <3> QED  BY <3>1, <3>2
  <2>4. Holds(Recorded(acm), hal, hw')
    BY <2>1, <2>3, HoldsHw DEF FunctionInv
  <2>5. hw'["data_in"].busy = hw["data_in"].busy
        /\ (hw["data_in"].stallrq => hw'["data_in"].stallrq)
    BY <2>1, <2>3 DEF FunctionInv, Holds, Pipes
  <2> QED  BY <2>4, <2>5 DEF Kept, SetHalt, WriteInv
<1>2. CASE ~hw[e].used
  BY <1>2 DEF SetHalt, Kept, FunctionInv, WriteInv
<1> QED  BY <1>1, <1>2

\* The end of a halt frees what was claimed.
LEMMA ClearHaltKeeps ==
  ASSUME FunctionInv, WriteInv, NEW e \in Pipes, ClearHalt(e)
  PROVE  Kept
<1>1. CASE hal[e] # "free" /\ hw[e].stallrq
  <2> PICK g : g = [hw[e] EXCEPT !.halted = FALSE, !.stallrq = FALSE, !.stallint = FALSE,
                                 !.stalled = FALSE]
    OBVIOUS
  <2>1. hw' = [hw EXCEPT ![e] = g] /\ hal' = [hal EXCEPT ![e] = "IDLE"]
    BY <1>1 DEF ClearHalt, Resumed, FunctionInv, Holds
  <2>2. hw[e] \in HwStates
    BY DEF FunctionInv, Holds
  <2>3. g \in HwStates /\ g.used = hw[e].used /\ ~g.halted
    <3>1. g \in HwStates
      BY <2>2, HwChanges
    <3>2. g.used = hw[e].used /\ g.halted = FALSE
      BY <2>2 DEF HwStates
    <3> QED  BY <3>1, <3>2
  <2>4. Holds(Recorded(acm), hal, hw')
    BY <2>1, <2>3, HoldsHw DEF FunctionInv
  <2>5. Holds(Recorded(acm), hal', hw')
    BY <1>1, <2>1, <2>4, HoldsHal DEF HalStates
  <2>6. CASE e = "data_in"
    BY <2>1, <2>5, <2>6 DEF Kept, FunctionInv, Holds
  <2>7. CASE e # "data_in"
    <3>1. hal'["data_in"] = hal["data_in"] /\ hw'["data_in"] = hw["data_in"]
      BY <2>1, <2>7 DEF FunctionInv, Holds, Pipes
    <3> QED  BY <2>5, <3>1 DEF Kept, WriteInv, ClearHalt
  <2> QED  BY <2>6, <2>7
<1>2. CASE ~(hal[e] # "free" /\ hw[e].stallrq)
  BY <1>2 DEF ClearHalt, Kept, FunctionInv, WriteInv
<1> QED  BY <1>1, <1>2

\* A delivered packet frees its endpoint.
LEMMA DeliverKeeps ==
  ASSUME FunctionInv, WriteInv, Deliver
  PROVE  Kept
<1>1. "data_in" \in Pipes
  BY DEF Pipes
<1> PICK g : g = [hw["data_in"] EXCEPT !.busy = FALSE, !.stallint = FALSE]
  OBVIOUS
<1>2. hw' = [hw EXCEPT !["data_in"] = g] /\ hal' = [hal EXCEPT !["data_in"] = "IDLE"]
  BY DEF Deliver, FunctionInv, Holds
<1>3. hw["data_in"] \in HwStates /\ hw["data_in"].used
  BY <1>1 DEF FunctionInv, Holds, Deliver
<1>4. g \in HwStates /\ g.used = hw["data_in"].used /\ g.halted = hw["data_in"].halted
      /\ g.stallrq = hw["data_in"].stallrq
  <2>1. g \in HwStates
    BY <1>3, HwChanges
  <2>2. g.used = hw["data_in"].used /\ g.halted = hw["data_in"].halted
        /\ g.stallrq = hw["data_in"].stallrq
    BY <1>3 DEF HwStates
  <2> QED  BY <2>1, <2>2
<1>5. g.halted => g.stallrq
  BY <1>1, <1>4 DEF FunctionInv, Holds
<1>6. Holds(Recorded(acm), hal, hw')
  BY <1>1, <1>2, <1>4, <1>5, HoldsHw DEF FunctionInv
<1>7. hal["data_in"] # "free"
  BY <1>1, <1>3 DEF FunctionInv, Holds
<1>8. Holds(Recorded(acm), hal', hw')
  BY <1>1, <1>2, <1>6, <1>7, HoldsHal DEF HalStates
<1>9. hal'["data_in"] = "IDLE"
  BY <1>1, <1>2 DEF FunctionInv, Holds
<1> QED  BY <1>8, <1>9 DEF Kept

\* A refused poll leaves what is held as it was.
LEMMA StallKeeps ==
  ASSUME FunctionInv, WriteInv, NEW e \in Pipes, Stall(e)
  PROVE  Kept
<1> PICK g : g = [hw[e] EXCEPT !.stalled = TRUE]
  OBVIOUS
<1>1. hw' = [hw EXCEPT ![e] = g] /\ hal' = hal
  BY DEF Stall, FunctionInv, Holds
<1>2. hw[e] \in HwStates
  BY DEF FunctionInv, Holds
<1>3. g \in HwStates
  BY <1>2, HwChanges
<1>4. /\ g.used = hw[e].used /\ g.busy = hw[e].busy /\ g.halted = hw[e].halted
      /\ g.stallrq = hw[e].stallrq
  BY <1>2 DEF HwStates
<1>5. g.halted => g.stallrq
  BY <1>4 DEF FunctionInv, Holds
<1>6. Holds(Recorded(acm), hal', hw')
  BY <1>1, <1>3, <1>4, <1>5, HoldsHw DEF FunctionInv
<1>7. hw'["data_in"].busy = hw["data_in"].busy
      /\ hw'["data_in"].stallrq = hw["data_in"].stallrq
  BY <1>1, <1>4 DEF FunctionInv, Holds, Pipes
<1> QED  BY <1>1, <1>6, <1>7 DEF Kept, Stall, host, WriteInv

\* So does the interrupt it raises.
LEMMA StallInterruptKeeps ==
  ASSUME FunctionInv, WriteInv, NEW e \in Pipes, StallInterrupt(e)
  PROVE  Kept
<1> PICK g : g = [hw[e] EXCEPT !.stallint = FALSE]
  OBVIOUS
<1>1. hw' = [hw EXCEPT ![e] = g] /\ hal' = [hal EXCEPT ![e] = "HALTED"]
  BY DEF StallInterrupt, FunctionInv, Holds
<1>2. hw[e] \in HwStates /\ hal[e] # "free"
  BY DEF FunctionInv, Holds, StallInterrupt, StallServed
<1>3. g \in HwStates
  BY <1>2, HwChanges
<1>4. /\ g.used = hw[e].used /\ g.busy = hw[e].busy /\ g.halted = hw[e].halted
      /\ g.stallrq = hw[e].stallrq
  BY <1>2 DEF HwStates
<1>5. g.halted => g.stallrq
  BY <1>4 DEF FunctionInv, Holds
<1>6. Holds(Recorded(acm), hal, hw')
  BY <1>1, <1>3, <1>4, <1>5, HoldsHw DEF FunctionInv
<1>7. Holds(Recorded(acm), hal', hw')
  BY <1>1, <1>2, <1>6, HoldsHal DEF HalStates
<1>8. hw'["data_in"].busy = hw["data_in"].busy
      /\ hw'["data_in"].stallrq = hw["data_in"].stallrq
  BY <1>1, <1>4 DEF FunctionInv, Holds, Pipes
<1>9. hal'["data_in"] = "X_DATA" => hal["data_in"] = "X_DATA"
  BY <1>1 DEF FunctionInv, Holds, Pipes
<1> QED  BY <1>7, <1>8, <1>9 DEF Kept, StallInterrupt, host, WriteInv

\* A write claims the endpoint only when it goes on to start the packet.
LEMMA ClaimKeeps ==
  ASSUME FunctionInv, WriteInv, Claim
  PROVE  Kept
<1>1. "data_in" \in Pipes
  BY DEF Pipes
<1>2. CASE app.ep \in Pipes /\ hal[app.ep] = "IDLE"
  <2>1. app.ep = "data_in"
    BY <1>2 DEF WriteInv, Pipes
  <2>2. hal' = [hal EXCEPT !["data_in"] = "X_DATA"] /\ hw' = hw /\ hal["data_in"] # "free"
    BY <1>2, <2>1 DEF Claim, Write
  <2>3. app'.pc = "start"
    BY <1>2 DEF Claim, WriteInv
  <2>4. Holds(Recorded(acm), hal', hw')
    BY <1>1, <2>2, HoldsHal DEF HalStates, FunctionInv
  <2> QED  BY <2>3, <2>4 DEF Kept
<1>3. CASE ~(app.ep \in Pipes /\ hal[app.ep] = "IDLE")
  <2>1. hal' = hal /\ hw' = hw /\ app.pc = "claim"
    BY <1>3 DEF Claim, Write
  <2> QED  BY <2>1 DEF Kept, FunctionInv, WriteInv
<1> QED  BY <1>2, <1>3

\* A packet that cannot be started is one under way or one of a halted endpoint.
LEMMA StartKeeps ==
  ASSUME FunctionInv, WriteInv, Start
  PROVE  Kept
<1>1. "data_in" \in Pipes /\ app.ep = "data_in" /\ hal' = hal
  BY DEF Pipes, Start, Write, WriteInv
<1>2. hw["data_in"] \in HwStates
  BY <1>1 DEF FunctionInv, Holds
<1>3. CASE hw["data_in"].halted \/ hw["data_in"].busy
  <2>1. hw' = hw
    BY <1>1, <1>3 DEF Start
  <2>2. hw["data_in"].busy \/ hw["data_in"].stallrq
    BY <1>1, <1>3 DEF FunctionInv, Holds
  <2> QED  BY <1>1, <2>1, <2>2 DEF Kept, FunctionInv
<1>4. CASE ~(hw["data_in"].halted \/ hw["data_in"].busy)
  <2> PICK g : g = [hw["data_in"] EXCEPT !.busy = TRUE, !.in = TRUE,
                                         !.stallint = hw["data_in"].used]
    OBVIOUS
  <2>1. hw' = [hw EXCEPT !["data_in"] = g]
    BY <1>1, <1>4 DEF Start, FunctionInv, Holds
  <2>2. g \in HwStates
    BY <1>2, HwChanges
  <2>3. g.used = hw["data_in"].used /\ g.busy /\ g.halted = hw["data_in"].halted
    BY <1>2 DEF HwStates
  <2>4. Holds(Recorded(acm), hal', hw')
    BY <1>1, <1>4, <2>1, <2>2, <2>3, HoldsHw DEF FunctionInv
  <2>5. hw'["data_in"].busy
    BY <1>1, <2>1, <2>3 DEF FunctionInv, Holds
  <2> QED  BY <2>4, <2>5 DEF Kept
<1> QED  BY <1>3, <1>4

-----------------------------------------------------------------------------
(* The invariant is inductive. *)

\* The invariant at the start.
LEMMA InitHolds == Init => IInv
<1> SUFFICES ASSUME Init PROVE IInv
  OBVIOUS
<1>1. acm = Zeroed
  BY DEF Init, Zeroed
<1>2. Holds({}, hal, hw)
  <2>1. Unused \in HwStates /\ ~Unused.used /\ ~Unused.halted
    BY DEF Unused, HwStates
  <2> QED  BY <2>1 DEF Init, Holds, HalStates
<1>3. FunctionInv
  BY <1>1, <1>2, RecordedOf DEF FunctionInv, Init
<1>4. HostInv
  BY DEF HostInv, Init
<1>5. WriteInv
  BY DEF WriteInv, Init, Pipes
<1> QED  BY <1>3, <1>4, <1>5 DEF IInv

\* Endpoint 0 and the device core see only bus events and requests.
LEMMA HostStep == IInv /\ [Next]_vars => HostInv'
<1> SUFFICES ASSUME IInv, [Next]_vars PROVE HostInv'
  OBVIOUS
<1> USE DEF IInv
<1>1. CASE UNCHANGED host
  BY <1>1 DEF host, HostInv
<1>2. ASSUME NEW k, NEW v, Setup(k, v), k # "config" \/ v \in {0, 1},
             (\E s \in {"X_DATA", "X_STATUS"} : Accept(s)) \/ Refuse, UNCHANGED dev
      PROVE  HostInv'
  <2>1. req'.kind = k /\ req'.value = v
    BY <1>2 DEF Setup
  <2>2. CASE Refuse
    BY <1>2, <2>1, <2>2 DEF Refuse, HostInv
  <2>3. ASSUME NEW s \in {"X_DATA", "X_STATUS"}, Accept(s)
        PROVE  HostInv'
    <3>1. ctl'.state = s /\ ctl'.busy
      BY <2>3 DEF Accept
    <3>2. ctl' \in [state : {"X_DATA", "X_STATUS"}, busy : BOOLEAN, stalled : BOOLEAN]
      BY <2>3 DEF Accept
    <3> QED  BY <1>2, <2>1, <3>1, <3>2 DEF HostInv
  <2> QED  BY <1>2, <2>2, <2>3
<1>3. CASE BusReset
  BY <1>3 DEF BusReset, HostInv
<1>4. CASE Get \/ Unsupported \/ (\E v \in {0, 1} : SetAddress(v))
  BY <1>2, <1>4 DEF Get, Unsupported, SetAddress
<1>5. ASSUME NEW v \in {0, 1}, SetConfig(v)
      PROVE  HostInv'
  BY <1>2, <1>5 DEF SetConfig
<1>6. ASSUME NEW f \in Ifaces, SetInterface(f)
      PROVE  HostInv'
  BY <1>2, <1>6 DEF SetInterface
<1>7. ASSUME NEW e \in Pipes, SetHalt(e) \/ ClearHalt(e)
      PROVE  HostInv'
  BY <1>2, <1>7 DEF SetHalt, ClearHalt
<1>8. ASSUME NEW f \in Ifaces,
             \/ ClassRequest("set_line", "X_DATA", f) \/ ClassRequest("get_line", "X_DATA", f)
             \/ ClassRequest("line_state", "X_STATUS", f)
      PROVE  HostInv'
  BY <1>2, <1>8 DEF ClassRequest
<1>9. CASE DataDone
  BY <1>9 DEF DataDone, Accept, HostInv
<1>10. CASE StatusDone
  <2>1. ctl' \in [state : {"X_SETUP"}, busy : BOOLEAN, stalled : BOOLEAN] /\ req' = req
    BY <1>10 DEF StatusDone, HostInv
  <2>2. dev' \in [state : {"POWER", "DEFAULT", "ADDRESS", "CONFIG"}, cfg : {0, 1}]
    BY <1>10 DEF StatusDone, HostInv
  <2> QED  BY <2>1, <2>2 DEF HostInv
<1>11. CASE ControlStalled
  BY <1>11 DEF ControlStalled, HostInv
<1>12. CASE Deliver \/ (\E e \in Pipes : Stall(e) \/ StallInterrupt(e)) \/ WriteStep
  BY <1>1, <1>12 DEF Deliver, Stall, StallInterrupt, WriteStep, CheckEnabled, ReadEndpoint,
                     Claim, Start, Write, host
<1>13. CASE UNCHANGED vars
  BY <1>1, <1>13 DEF vars
<1> QED  BY <1>3, <1>4, <1>5, <1>6, <1>7, <1>8, <1>9, <1>10, <1>11, <1>12, <1>13
         DEF Next, Bus, Control

\* What becomes of the function and of the write.
LEMMA FunctionStep ==
  ASSUME IInv, [Next]_vars
  PROVE  \/ Reopened /\ UNCHANGED app
         \/ Kept /\ acm' = acm
<1> USE DEF IInv
<1>1. CASE UNCHANGED <<acm, hal, hw, app>>
  BY <1>1 DEF Kept, FunctionInv, WriteInv
<1>2. CASE BusReset
  BY <1>2, BusResetReopens DEF BusReset
<1>3. CASE Get \/ Unsupported \/ (\E v \in {0, 1} : SetAddress(v)) \/ DataDone \/ StatusDone \/ ControlStalled
  BY <1>1, <1>3 DEF Get, Unsupported, SetAddress, DataDone, StatusDone, ControlStalled,
                    function
<1>4. ASSUME NEW v \in {0, 1}, SetConfig(v)
      PROVE  (Reopened /\ UNCHANGED app) \/ (Kept /\ acm' = acm)
  BY <1>1, <1>4, SetConfigReopens DEF SetConfig, function
<1>5. ASSUME NEW f \in Ifaces, SetInterface(f)
      PROVE  (Reopened /\ UNCHANGED app) \/ (Kept /\ acm' = acm)
  <2>1. UNCHANGED app
    BY <1>5 DEF SetInterface
  <2> QED  BY <1>1, <1>5, <2>1, SetInterfaceReopens DEF function
<1>6. ASSUME NEW e \in Pipes, SetHalt(e)
      PROVE  Kept /\ acm' = acm
  BY <1>6, SetHaltKeeps DEF SetHalt
<1>7. ASSUME NEW e \in Pipes, ClearHalt(e)
      PROVE  Kept /\ acm' = acm
  BY <1>7, ClearHaltKeeps DEF ClearHalt
<1>8. ASSUME NEW f \in Ifaces,
             \/ ClassRequest("set_line", "X_DATA", f) \/ ClassRequest("get_line", "X_DATA", f)
             \/ ClassRequest("line_state", "X_STATUS", f)
      PROVE  Kept /\ acm' = acm
  <2>1. UNCHANGED <<acm, hal, hw, app>>
    BY <1>8 DEF ClassRequest, function
  <2> QED  BY <2>1 DEF Kept, FunctionInv, WriteInv
<1>9. CASE Deliver
  BY <1>9, DeliverKeeps DEF Deliver
<1>10. ASSUME NEW e \in Pipes, Stall(e) \/ StallInterrupt(e)
       PROVE  Kept /\ acm' = acm
  BY <1>10, StallKeeps, StallInterruptKeeps DEF Stall, StallInterrupt
<1>11. CASE CheckEnabled \/ ReadEndpoint
  <2>1. UNCHANGED <<acm, hal, hw>> /\ app.pc # "start"
    BY <1>11 DEF CheckEnabled, ReadEndpoint, Write
  <2> QED  BY <2>1 DEF Kept, FunctionInv, WriteInv
<1>12. CASE Claim
  BY <1>12, ClaimKeeps DEF Claim, Write
<1>13. CASE Start
  BY <1>13, StartKeeps DEF Start, Write
<1>14. CASE UNCHANGED vars
  BY <1>1, <1>14 DEF vars, function
<1> QED  BY <1>2, <1>3, <1>4, <1>5, <1>6, <1>7, <1>8, <1>9, <1>10, <1>11, <1>12, <1>13, <1>14
         DEF Next, Bus, Control, WriteStep

\* The zeroed record is gone with the first reset, before which nothing happens.
LEMMA ZeroedStep ==
  ASSUME IInv, [Next]_vars, acm' = Zeroed
  PROVE  ctl'.state = "off" /\ app'.pc = "idle"
<1>1. acm = Zeroed
  BY FunctionStep, ShapesDiffer DEF Reopened
<1>2. ctl.state = "off" /\ app.pc = "idle" /\ ~acm.enabled /\ Recorded(acm) = {}
  BY <1>1, RecordedOf DEF IInv, FunctionInv, Zeroed
<1>3. ~hw["data_in"].used /\ \A e \in Pipes : ~hw[e].used
  BY <1>2 DEF IInv, FunctionInv, Holds, Pipes
<1>4. ~BusReset
  <2>1. BusReset => Reopened
    BY BusResetReopens DEF IInv
  <2> QED  BY <2>1, ShapesDiffer DEF Reopened
<1>5. ~Control
  BY <1>2 DEF Control, Get, Unsupported, SetAddress, SetConfig, SetInterface, SetHalt,
              ClearHalt, ClassRequest, Setup, DataDone, StatusDone, ControlStalled
<1>6. UNCHANGED vars
  BY <1>2, <1>3, <1>4, <1>5 DEF Next, Bus, Deliver, Stall, StallInterrupt, StallServed,
     WriteStep, CheckEnabled, ReadEndpoint, Claim, Start, Write
<1> QED  BY <1>2, <1>6 DEF vars, host

\* The endpoint a write goes for.
LEMMA WriteStepInv ==
  ASSUME IInv, [Next]_vars
  PROVE  /\ app' \in [pc : {"idle", "read", "claim", "start"}, ep : {"none", "data_in"}]
         /\ app'.pc = "start" => app'.ep = "data_in"
<1> USE DEF IInv
<1>1. CASE UNCHANGED app
  BY <1>1 DEF WriteInv
<1>2. CASE CheckEnabled
  BY <1>2 DEF CheckEnabled, WriteInv
<1>3. CASE ReadEndpoint
  <2>1. acm # Zeroed
    BY <1>3 DEF ReadEndpoint, Write, FunctionInv
  <2>2. acm.epIn[2] \in {"none", "data_in"}
    BY <2>1 DEF FunctionInv, Shut, Halfway, Whole
  <2> QED  BY <1>3, <2>2 DEF ReadEndpoint
<1>4. CASE Claim
  BY <1>4 DEF Claim, Write, WriteInv, Pipes
<1>5. CASE Start
  BY <1>5 DEF Start
<1>6. CASE Bus
  BY <1>1, <1>6 DEF Bus, BusReset, Control, Get, Unsupported, SetAddress, SetConfig,
                    SetInterface, SetHalt, ClearHalt, ClassRequest, DataDone, StatusDone,
                    ControlStalled, Deliver, Stall, StallInterrupt
<1>7. CASE UNCHANGED vars
  BY <1>1, <1>7 DEF vars
<1> QED  BY <1>2, <1>3, <1>4, <1>5, <1>6, <1>7 DEF Next, WriteStep

\* Every step keeps the invariant.
LEMMA Inductive == IInv /\ [Next]_vars => IInv'
<1> SUFFICES ASSUME IInv, [Next]_vars PROVE IInv'
  OBVIOUS
<1>1. HostInv'
  BY HostStep
<1>2. CASE Reopened /\ UNCHANGED app
  <2>1. acm' # Zeroed
    BY <1>2, ShapesDiffer DEF Reopened
  <2>2. FunctionInv'
    BY <1>2, <2>1 DEF Reopened, FunctionInv
  <2>3. WriteInv'
    BY <1>2, WriteStepInv DEF Reopened, WriteInv
  <2> QED  BY <1>1, <2>2, <2>3 DEF IInv
<1>3. CASE Kept /\ acm' = acm
  <2>1. FunctionInv'
    <3>1. (acm = Zeroed \/ acm = Shut \/ acm = Halfway \/ acm = Whole)'
      BY <1>3 DEF IInv, FunctionInv
    <3>2. Holds(Recorded(acm'), hal', hw')
      BY <1>3 DEF Kept
    <3>3. acm' = Zeroed => ctl'.state = "off" /\ app'.pc = "idle"
      BY ZeroedStep
    <3> QED  BY <3>1, <3>2, <3>3 DEF FunctionInv
  <2>2. WriteInv'
    BY <1>3, WriteStepInv DEF Kept, WriteInv
  <2> QED  BY <1>1, <2>1, <2>2 DEF IInv
<1> QED  BY <1>2, <1>3, FunctionStep

\* The function's record is one of four, what the controller and the transfer
\* layer hold is what it names, and a claimed endpoint will be freed.
THEOREM AlwaysIInv == Spec => []IInv
<1> QED  BY InitHolds, Inductive, PTL DEF Spec

\* Every variable keeps to its values, and no write goes for endpoint 0.
THEOREM TypesKept == Spec => []TypeOK
<1>1. IInv => TypeOK
  <2> SUFFICES ASSUME IInv PROVE TypeOK
    OBVIOUS
  <2>1. acm \in [iface : {<<a, b>> : a, b \in Ifaces \cup {"none"}},
                epIn : {<<a, b>> : a, b \in Pipes \cup {"none", "ep0"}},
                epOut : {"data_out", "none", "ep0"}, enabled : BOOLEAN]
    <3>1. CASE acm = Zeroed
      BY <3>1 DEF Zeroed, Ifaces, Pipes
    <3>2. CASE acm = Shut
      BY <3>2 DEF Shut, Ifaces, Pipes
    <3>3. CASE acm = Halfway
      BY <3>3 DEF Halfway, Ifaces, Pipes
    <3>4. CASE acm = Whole
      BY <3>4 DEF Whole, Ifaces, Pipes
    <3> QED  BY <3>1, <3>2, <3>3, <3>4 DEF IInv, FunctionInv
  <2>2. hal \in [Pipes -> HalStates] /\ hw \in [Pipes -> HwStates]
    BY DEF IInv, FunctionInv, Holds
  <2>3. app \in [pc : {"idle", "read", "claim", "start"}, ep : Pipes \cup {"none"}]
    BY DEF IInv, WriteInv, Pipes
  <2> QED  BY <2>1, <2>2, <2>3 DEF IInv, HostInv, TypeOK, HalStates, HwStates
<1> QED  BY <1>1, AlwaysIInv, PTL

\* In whatever order resets and requests come, refused, repeated or cut short, no
\* endpoint is leaked or closed under the function.
THEOREM EndpointsBalance == Spec => []NoEndpointLeak
<1>1. IInv => NoEndpointLeak
  <2> SUFFICES ASSUME IInv PROVE NoEndpointLeak
    OBVIOUS
  <2>1. ASSUME NEW e \in Pipes
        PROVE  (hal[e] # "free") = hw[e].used /\ hw[e].used = (e \in Recorded(acm))
    <3>1. hw[e].used \in BOOLEAN
      BY DEF IInv, FunctionInv, Holds, HwStates
    <3>2. (hal[e] # "free" <=> e \in Recorded(acm)) /\ (hw[e].used <=> e \in Recorded(acm))
      BY DEF IInv, FunctionInv, Holds
    <3> QED  BY <3>1, <3>2
  <2>2. acm.enabled => Recorded(acm) = Pipes
    <3>1. acm = Whole \/ ~acm.enabled
      BY DEF IInv, FunctionInv, Zeroed, Shut, Halfway
    <3> QED  BY <3>1, RecordedOf
  <2> QED  BY <2>1, <2>2 DEF NoEndpointLeak
<1> QED  BY <1>1, AlwaysIInv, PTL

\* An endpoint claimed for a packet has something that will free it, and the
\* control endpoint is never left with a stage nobody started.
THEOREM ClaimsAreFreed == Spec => []NeverStuck
<1>1. IInv => NeverStuck
  BY DEF IInv, HostInv, WriteInv, NeverStuck
<1> QED  BY <1>1, AlwaysIInv, PTL

-----------------------------------------------------------------------------
(* The stack implements UsbPipe. *)

\* The line on its way to the host, as the refinement sees it.
Flying == hw["data_in"].used /\ hw["data_in"].busy

\* Only these steps hand a line over, deliver it or lose it.
LEMMA FlightStep ==
  ASSUME IInv, [Next]_vars
  PROVE  \/ Reopened
         \/ Deliver /\ acm' = acm /\ ~Flying'
         \/ Start /\ acm' = acm /\ (Flying => Flying')
         \/ acm' = acm /\ (Flying' <=> Flying)
<1> USE DEF IInv
<1>1. "data_in" \in Pipes /\ hw["data_in"] \in HwStates
  BY DEF Pipes, FunctionInv, Holds
<1>2. CASE UNCHANGED <<acm, hw>>
  BY <1>2 DEF Flying
<1>3. ASSUME NEW e \in Pipes, NEW g, acm' = acm, hw' = [hw EXCEPT ![e] = g],
             g.used = hw[e].used, g.busy = hw[e].busy
      PROVE  acm' = acm /\ (Flying' <=> Flying)
  <2>1. hw'["data_in"].used = hw["data_in"].used /\ hw'["data_in"].busy = hw["data_in"].busy
    BY <1>1, <1>3 DEF FunctionInv, Holds
  <2> QED  BY <1>3, <2>1 DEF Flying
<1>4. ASSUME NEW e \in Pipes, SetHalt(e)
      PROVE  acm' = acm /\ (Flying' <=> Flying)
  <2>1. CASE ~hw[e].used
    <3>1. acm' = acm /\ hw' = hw
      BY <1>4, <2>1 DEF SetHalt
    <3> QED  BY <3>1 DEF Flying
  <2>2. CASE hw[e].used
    <3>1. PICK g : g = [hw[e] EXCEPT !.halted = TRUE, !.stallrq = TRUE, !.stallint = TRUE]
      OBVIOUS
    <3>2. hw[e] \in HwStates
      BY DEF FunctionInv, Holds
    <3>3. g.used = hw[e].used /\ g.busy = hw[e].busy
      BY <3>1, <3>2 DEF HwStates
    <3>4. hw' = [hw EXCEPT ![e] = g] /\ acm' = acm
      BY <1>4, <2>2, <3>1 DEF SetHalt, FunctionInv, Holds
    <3> QED  BY <1>3, <3>3, <3>4
  <2> QED  BY <2>1, <2>2
<1>5. ASSUME NEW e \in Pipes, ClearHalt(e)
      PROVE  acm' = acm /\ (Flying' <=> Flying)
  <2>1. CASE ~(hal[e] # "free" /\ hw[e].stallrq)
    <3>1. acm' = acm /\ hw' = hw
      BY <1>5, <2>1 DEF ClearHalt
    <3> QED  BY <3>1 DEF Flying
  <2>2. CASE hal[e] # "free" /\ hw[e].stallrq
    <3>1. PICK g : g = [hw[e] EXCEPT !.halted = FALSE, !.stallrq = FALSE,
                                     !.stallint = FALSE, !.stalled = FALSE]
      OBVIOUS
    <3>2. hw[e] \in HwStates
      BY DEF FunctionInv, Holds
    <3>3. g.used = hw[e].used /\ g.busy = hw[e].busy
      BY <3>1, <3>2 DEF HwStates
    <3>4. hw' = [hw EXCEPT ![e] = g] /\ acm' = acm
      BY <1>5, <2>2, <3>1 DEF ClearHalt, FunctionInv, Holds
    <3> QED  BY <1>3, <3>3, <3>4
  <2> QED  BY <2>1, <2>2
<1>6. ASSUME NEW e \in Pipes, Stall(e)
      PROVE  acm' = acm /\ (Flying' <=> Flying)
  <2>1. PICK g : g = [hw[e] EXCEPT !.stalled = TRUE]
    OBVIOUS
  <2>2. hw[e] \in HwStates
    BY DEF FunctionInv, Holds
  <2>3. g.used = hw[e].used /\ g.busy = hw[e].busy
    BY <2>1, <2>2 DEF HwStates
  <2>4. hw' = [hw EXCEPT ![e] = g] /\ acm' = acm
    BY <1>6, <2>1 DEF Stall, FunctionInv, Holds
  <2> QED  BY <1>3, <2>3, <2>4
<1>7. ASSUME NEW e \in Pipes, StallInterrupt(e)
      PROVE  acm' = acm /\ (Flying' <=> Flying)
  <2>1. PICK g : g = [hw[e] EXCEPT !.stallint = FALSE]
    OBVIOUS
  <2>2. hw[e] \in HwStates
    BY DEF FunctionInv, Holds
  <2>3. g.used = hw[e].used /\ g.busy = hw[e].busy
    BY <2>1, <2>2 DEF HwStates
  <2>4. hw' = [hw EXCEPT ![e] = g] /\ acm' = acm
    BY <1>7, <2>1 DEF StallInterrupt, FunctionInv, Holds
  <2> QED  BY <1>3, <2>3, <2>4
<1>8. CASE Deliver
  <2>1. hw'["data_in"].busy = FALSE /\ acm' = acm
    BY <1>1, <1>8 DEF Deliver, FunctionInv, Holds, HwStates
  <2> QED  BY <1>8, <2>1 DEF Flying
<1>9. CASE Start
  <2>1. acm' = acm /\ app.ep = "data_in"
    BY <1>9 DEF Start, Write, WriteInv
  <2>2. Flying => hw' = hw
    BY <1>9, <2>1 DEF Start, Flying
  <2> QED  BY <1>9, <2>1, <2>2 DEF Flying
<1>10. CASE Get \/ Unsupported \/ (\E v \in {0, 1} : SetAddress(v)) \/ DataDone \/ StatusDone \/ ControlStalled
            \/ CheckEnabled \/ ReadEndpoint \/ Claim
  BY <1>2, <1>10 DEF Get, Unsupported, SetAddress, DataDone, StatusDone, ControlStalled,
                     CheckEnabled, ReadEndpoint, Claim, Write, function
<1>11. ASSUME NEW f \in Ifaces,
              \/ ClassRequest("set_line", "X_DATA", f) \/ ClassRequest("get_line", "X_DATA", f)
              \/ ClassRequest("line_state", "X_STATUS", f)
       PROVE  UNCHANGED <<acm, hw>>
  BY <1>11 DEF ClassRequest, function
<1>12. CASE BusReset
  BY <1>12, BusResetReopens
<1>13. ASSUME NEW v \in {0, 1}, SetConfig(v)
       PROVE  Reopened \/ UNCHANGED <<acm, hw>>
  BY <1>13, SetConfigReopens DEF function
<1>14. ASSUME NEW f \in Ifaces, SetInterface(f)
       PROVE  Reopened \/ UNCHANGED <<acm, hw>>
  BY <1>14, SetInterfaceReopens DEF function
<1>15. CASE UNCHANGED vars
  BY <1>2, <1>15 DEF vars, function
<1> QED  BY <1>2, <1>4, <1>5, <1>6, <1>7, <1>8, <1>9, <1>10, <1>11, <1>12, <1>13, <1>14, <1>15
         DEF Next, Bus, Control, WriteStep

\* At most one line is on its way, it is delivered at most once, and it is lost
\* only with the configuration: each step of the stack is one UsbPipe allows.
THEOREM ImplementsPipe == Spec => PipeSpec
<1>1. Init => Pipe!Init
  <2> SUFFICES ASSUME Init PROVE Pipe!Init
    OBVIOUS
  <2>1. acm.enabled = FALSE
    BY DEF Init
  <2>2. ~Flying
    BY DEF Init, Flying, Unused, Pipes
  <2> QED  BY <2>1, <2>2 DEF Pipe!Init, Flying
<1>2. IInv /\ [Next]_vars => [Pipe!Next]_(Pipe!pipe)
  <2> SUFFICES ASSUME IInv, [Next]_vars PROVE [Pipe!Next]_(Pipe!pipe)
    OBVIOUS
  <2>1. CASE Reopened
    <3>1. ~Flying'
      BY <2>1 DEF Reopened, Flying
    <3>2. acm'.enabled \in BOOLEAN
      <4>1. Shut.enabled = FALSE /\ Halfway.enabled = FALSE /\ Whole.enabled = TRUE
        BY DEF Shut, Halfway, Whole
      <4>2. acm' = Shut \/ acm' = Halfway \/ acm' = Whole
        BY <2>1 DEF Reopened
      <4> QED  BY <4>1, <4>2
    <3>3. Pipe!Reconfigure
      BY <3>1, <3>2 DEF Pipe!Reconfigure, Flying
    <3> QED  BY <3>3 DEF Pipe!Next
  <2>2. CASE acm' = acm /\ (Flying' <=> Flying)
    BY <2>2 DEF Flying, Pipe!pipe
  <2>3. CASE Deliver /\ acm' = acm /\ ~Flying'
    <3>1. Flying
      BY <2>3 DEF Deliver, Flying
    <3>2. Pipe!Deliver
      BY <2>3, <3>1 DEF Pipe!Deliver, Flying
    <3> QED  BY <3>2 DEF Pipe!Next
  <2>4. CASE Start /\ acm' = acm /\ (Flying => Flying')
    <3>1. CASE Flying' <=> Flying
      BY <2>2, <2>4, <3>1
    <3>2. CASE Flying' /\ ~Flying
      <4>1. Pipe!Submit("line")
        BY <2>4, <3>2 DEF Pipe!Submit, Flying
      <4> QED  BY <4>1 DEF Pipe!Next
    <3> QED  BY <2>4, <3>1, <3>2
  <2> QED  BY <2>1, <2>2, <2>3, <2>4, FlightStep
<1> QED  BY <1>1, <1>2, AlwaysIInv, PTL DEF Spec, PipeSpec, Pipe!Spec
=============================================================================
