---------------------------- MODULE MCOrnamentFw ----------------------------
(* Three small patterns in place of those of pattern.c: the first with every *)
(* LED state and a frame longer than the ramp, the second a single frame, as *)
(* all_on is, the third a frame that is over before it is drawn.             *)
EXTENDS OrnamentFw

MCFrame(d, a, b) == [duration |-> d, leds |-> [i \in Leds |-> IF i = 1 THEN a ELSE b]]

MCPatterns ==
  << <<MCFrame(5, "RAMP_UP", "OFF"), MCFrame(2, "RAMP_DN", "ON")>>,
     <<MCFrame(3, "ON", "ON")>>,
     <<MCFrame(1, "ON", "OFF"), MCFrame(2, "OFF", "RAMP_DN")>> >>

MCGammaTable == [b \in 0..(PwmSteps - 1) |-> b]
=============================================================================
