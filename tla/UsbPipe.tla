-------------------------------- MODULE UsbPipe --------------------------------
(***************************************************************************)
(* What the USB stack of the powerlog firmware promises the program that   *)
(* writes lines to the host: at most one line is on its way, it is         *)
(* delivered at most once, and it is lost only when the host changes the   *)
(* configuration of the device.  UsbDevice implements it.                  *)
(***************************************************************************)
CONSTANTS
  Lines,   \* what is written
  NoLine   \* nothing

VARIABLES
  open,    \* the function is enabled: writes are not denied
  flight   \* the line handed over and not yet taken by the host

pipe == <<open, flight>>

Init == open = FALSE /\ flight = NoLine

\* A line is accepted.  The function may have been closed since the program
\* looked, so an accepted write does not mean an open pipe.
Submit(l) == flight = NoLine /\ flight' = l /\ UNCHANGED open

\* The host takes the line.
Deliver == flight # NoLine /\ flight' = NoLine /\ UNCHANGED open

\* A reset, a SET_CONFIGURATION or a SET_INTERFACE.
Reconfigure == open' \in BOOLEAN /\ flight' = NoLine

Next == (\E l \in Lines : Submit(l)) \/ Deliver \/ Reconfigure
Spec == Init /\ [][Next]_pipe
=============================================================================
