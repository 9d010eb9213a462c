---------------------------- MODULE DatagramLink ----------------------------
(***************************************************************************)
(* What one direction of a udptoy connection promises, whatever goroutines *)
(* and timers carry the datagrams: each datagram offered is settled once,  *)
(* either delivered or lost, and none is invented.  The two parameters say *)
(* which faults the link may inject.                                       *)
(***************************************************************************)
EXTENDS Naturals, FiniteSetsExt, SequencesExt

CONSTANTS
  MaxDgrams,    \* datagrams offered, numbered in the order they are offered
  MayLose,      \* whether a datagram may vanish
  MayReorder    \* whether a later datagram may be delivered first

VARIABLES
  offered,      \* how many datagrams have been offered
  delivered,    \* the datagrams delivered, in order of delivery
  lost          \* the datagrams that will never be delivered

vars == <<offered, delivered, lost>>

InTransit == (1..offered) \ (ToSet(delivered) \cup lost)

Init == offered = 0 /\ delivered = <<>> /\ lost = {}

Offer == /\ offered < MaxDgrams
         /\ offered' = offered + 1
         /\ UNCHANGED <<delivered, lost>>

Deliver(d) == /\ d \in InTransit
              /\ MayReorder \/ \A e \in InTransit : d <= e
              /\ delivered' = Append(delivered, d)
              /\ UNCHANGED <<offered, lost>>

Lose(d) == /\ MayLose
           /\ d \in InTransit
           /\ lost' = lost \cup {d}
           /\ UNCHANGED <<offered, delivered>>

Settle(d) == Deliver(d) \/ Lose(d)

Next == Offer \/ \E d \in 1..MaxDgrams : Settle(d)

Spec == Init /\ [][Next]_vars /\ WF_vars(\E d \in 1..MaxDgrams : Settle(d))
=============================================================================
