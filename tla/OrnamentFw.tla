----------------------------- MODULE OrnamentFw -----------------------------
(***************************************************************************)
(* The firmware of the 2020 ornament: the main loop, which draws patterns  *)
(* on LEDs by software PWM, and the two interrupt handlers that share its  *)
(* variables, the timer's and the touch sensor's.                          *)
(*                                                                         *)
(* The main loop advances from one access of a shared variable to the      *)
(* next; an interrupt may be taken between any two of these steps, except  *)
(* in the section main brackets with cli and sei, which is one step.       *)
(***************************************************************************)
EXTENDS Integers, Sequences

CONSTANTS
  Patterns,       \* patterns[]: sequences of frames, the NULL at the end left out
  Leds,           \* the LEDs, NUM_LEDS of them
  PwmSteps,       \* PWM_RESOLUTION_STEPS
  GammaTable,     \* gamma_table[], generated with PwmSteps entries
  RampTime,       \* RAMP_TIME
  AutoOffFrames,  \* AUTO_OFF_TIME_SECS * DESIRED_FRAMERATE
  MaxPatternId    \* bound on pattern_id, which touches during boot can raise

LedStates == {"OFF", "ON", "RAMP_UP", "RAMP_DN"}

\* A frame with duration 0 ends a pattern's array and is left out of the sequence.
Frame == [duration : Nat \ {0}, leds : [Leds -> LedStates]]

ASSUME OrnamentAssumption ==
  /\ Patterns \in Seq(Seq(Frame)) /\ Patterns # <<>>
  /\ \A n \in DOMAIN Patterns : Patterns[n] # <<>>
  /\ PwmSteps \in Nat \ {0}
  /\ GammaTable \in [0..(PwmSteps - 1) -> 0..PwmSteps]
  /\ RampTime \in Nat \ {0}
  /\ AutoOffFrames \in Nat
  /\ MaxPatternId \in Nat /\ MaxPatternId > Len(Patterns)

NumPatterns == Len(Patterns)

\* MAX_BRIGHTNESS is PWM_RESOLUTION_STEPS: the Makefile's own value is only
\* given to gentable.py.
MaxBrightness == PwmSteps

\* What master.frames points to when patterns[] was read beyond its end.
Wild == NumPatterns

VARIABLES
  pc,            \* where main is
  ret,           \* what the sleep in progress returns to
  patternId,     \* pattern_id of next_pattern
  bootId,        \* main's own copy of it while it runs next_pattern
  current,       \* current_pattern: "NULL" or "master"
  frames,        \* master.frames, the index of a pattern in patterns[]
  frame,         \* master.frame_id, counted from 1
  frameTimer,    \* master.frame_timer
  updateFrame,   \* update_frame
  frameId,       \* frame_id, the frames shown since the last touch
  pwmFrame,      \* pwm_frame of update_loop_step
  brightness,    \* brightness[] of update_loop_step
  out,           \* the LEDs that are lit
  timerOn,       \* PRTIM0 is clear: the timer runs
  crashed        \* main has gone through a NULL pattern

master == <<frames, frame, frameTimer>>
draw == <<updateFrame, frameId, pwmFrame, brightness>>
boot == <<patternId, bootId>>
vars == <<pc, ret, boot, current, master, draw, out, timerOn, crashed>>

Init ==
  /\ pc = "boot_load" /\ ret = "none"
  /\ patternId = 0 /\ bootId = 0
  /\ current = "NULL" /\ frames = 0 /\ frame = 1 /\ frameTimer = 0
  /\ updateFrame = TRUE /\ frameId = 0 /\ pwmFrame = 0
  /\ brightness = [i \in Leds |-> 0]
  /\ out = {} /\ timerOn = TRUE /\ crashed = FALSE

-----------------------------------------------------------------------------
(* next_pattern and new_pattern.  The array holds NumPatterns patterns, then *)
(* NULL, then whatever the linker put there.                                 *)

\* The patterns a lookup of patterns[id] may yield, NULL replaced by the first.
Lookup(id) ==
  IF id < NumPatterns THEN {id} ELSE IF id = NumPatterns THEN {0} ELSE {0, Wild}

\* Faulty variant: the timer of the previous pattern is kept.
NewPattern_KeepsTimer(p) == frames' = p /\ frame' = 1 /\ UNCHANGED frameTimer

\* master is filled in for the pattern p.
NewPattern(p) == frames' = p /\ frame' = 1 /\ frameTimer' = 0

\* Faulty variant: the index is not set back at the end of the array.
NextPattern_NoReset ==
  /\ patternId < MaxPatternId
  /\ \E p \in Lookup(patternId + 1) : NewPattern(p)
  /\ patternId' = patternId + 1

\* next_pattern without interruption, as the touch handler runs it.
NextPattern ==
  /\ patternId < MaxPatternId
  /\ \E p \in Lookup(patternId + 1) :
       /\ NewPattern(p)
       /\ patternId' = IF p = 0 THEN 0 ELSE patternId + 1

-----------------------------------------------------------------------------
(* main, before its loop: interrupts are on, so next_pattern can be          *)
(* interrupted between its accesses.                                         *)

BootLoad ==
  /\ pc = "boot_load" /\ pc' = "boot_store"
  /\ bootId' = patternId + 1
  /\ UNCHANGED <<ret, patternId, current, master, draw, out, timerOn, crashed>>

BootStore ==
  /\ pc = "boot_store" /\ pc' = "boot_reset"
  /\ patternId' = bootId
  /\ UNCHANGED <<ret, bootId, current, master, draw, out, timerOn, crashed>>

BootReset ==
  /\ pc = "boot_reset" /\ pc' = "boot_assign"
  /\ IF bootId = NumPatterns THEN patternId' = 0 /\ bootId' = 0
                             ELSE UNCHANGED boot
  /\ UNCHANGED <<ret, current, master, draw, out, timerOn, crashed>>

BootAssign ==
  /\ pc = "boot_assign" /\ pc' = "boot_publish"
  /\ NewPattern(bootId)
  /\ UNCHANGED <<ret, boot, current, draw, out, timerOn, crashed>>

BootPublish ==
  /\ pc = "boot_publish" /\ pc' = "check"
  /\ current' = "master"
  /\ UNCHANGED <<ret, boot, master, draw, out, timerOn, crashed>>

-----------------------------------------------------------------------------
(* The main loop. *)

Check ==
  /\ pc = "check"
  /\ pc' = IF current = "NULL" THEN "forget" ELSE "update"
  /\ UNCHANGED <<ret, boot, current, master, draw, out, timerOn, crashed>>

\* sleep_until_touch, called with interrupts on: first current_pattern = NULL,
Forget ==
  /\ pc = "forget" /\ pc' = "darken"
  /\ current' = "NULL"
  /\ UNCHANGED <<ret, boot, master, draw, out, timerOn, crashed>>

\* Faulty variant: an idle with the timer running, and a new iteration after it.
Darken_Idle ==
  /\ pc = "darken" /\ pc' = "drowsy"
  /\ ret' = "check"
  /\ out' = {}
  /\ UNCHANGED <<boot, current, master, draw, timerOn, crashed>>

\* then update_out(0) and the timer stopped.
Darken ==
  /\ pc = "darken" /\ pc' = "drowsy"
  /\ ret' = "update"
  /\ out' = {} /\ timerOn' = FALSE
  /\ UNCHANGED <<boot, current, master, draw, crashed>>

\* sleep_mode: an interrupt taken before the sleep instruction does not end it.
Sleep ==
  /\ pc = "drowsy" /\ pc' = "asleep"
  /\ UNCHANGED <<ret, boot, current, master, draw, out, timerOn, crashed>>

\* With no update due main goes idle.
SkipUpdate ==
  /\ pc = "update" /\ ~updateFrame
  /\ pc' = "drowsy" /\ ret' = "check"
  /\ UNCHANGED <<boot, current, master, draw, out, timerOn, crashed>>

\* The brightness of one LED, t frames into a frame.
Brightness(state, t) ==
  LET prop == (MaxBrightness * t) \div RampTime IN
  CASE state = "OFF" -> 0
    [] state = "ON" -> MaxBrightness
    [] state = "RAMP_UP" -> IF t < RampTime THEN prop ELSE MaxBrightness
    [] state = "RAMP_DN" -> IF t < RampTime THEN MaxBrightness - prop ELSE 0

CurrentFrame == Patterns[frames + 1][frame]

\* get_brightness_from_pattern: count the frame's time, move on to the next
\* frame when it is used up, otherwise compute the brightness of every LED.
GetBrightness ==
  LET t == frameTimer + 1 IN
  IF t = CurrentFrame.duration
    THEN /\ frameTimer' = 0
         /\ frame' = IF frame = Len(Patterns[frames + 1]) THEN 1 ELSE frame + 1
         /\ UNCHANGED brightness
    ELSE /\ frameTimer' = t
         /\ brightness' = [i \in Leds |-> Brightness(CurrentFrame.leds[i], t)]
         /\ UNCHANGED frame

\* pwm_frame_update.  A brightness beyond the table reads a byte of something
\* else, which may be above the PWM frame or not.
PwmFrameUpdate(bright) ==
  LET lit(b) == CASE b = 0 -> {FALSE}
                  [] b \in 1..(PwmSteps - 1) -> {GammaTable[b] > pwmFrame}
                  [] b >= PwmSteps -> BOOLEAN
  IN \E on \in [Leds -> BOOLEAN] :
       /\ \A i \in Leds : on[i] \in lit(bright[i])
       /\ out' = {i \in Leds : on[i]}

\* update_loop_step in its cli section, then update_frame = 0 and idle.
UpdateStep ==
  /\ pc = "update" /\ updateFrame
  /\ pwmFrame = 0 => frameId < AutoOffFrames /\ current = "master"
  /\ IF pwmFrame = 0
       THEN frameId' = frameId + 1 /\ GetBrightness
       ELSE UNCHANGED <<frameId, brightness, frame, frameTimer>>
  /\ PwmFrameUpdate(brightness')
  /\ pwmFrame' = (pwmFrame + 1) % PwmSteps
  /\ updateFrame' = FALSE
  /\ pc' = "drowsy" /\ ret' = "check"
  /\ UNCHANGED <<boot, current, frames, timerOn, crashed>>

\* The same with no pattern: it is tested for NULL and used all the same.
NullPattern ==
  /\ pc = "update" /\ updateFrame /\ pwmFrame = 0
  /\ frameId < AutoOffFrames /\ current = "NULL"
  /\ crashed' = TRUE
  /\ UNCHANGED <<pc, ret, boot, current, master, draw, out, timerOn>>

\* Faulty variant: the counter starts again and the pattern stays.
AutoOff_Stays ==
  /\ pc = "update" /\ updateFrame /\ pwmFrame = 0 /\ frameId >= AutoOffFrames
  /\ frameId' = 0
  /\ pc' = "drowsy" /\ ret' = "clear"
  /\ UNCHANGED <<boot, current, master, updateFrame, pwmFrame, brightness,
                 out, timerOn, crashed>>

\* Auto-off: sleep_until_touch called in the cli section, which its sei ends.
AutoOff ==
  /\ pc = "update" /\ updateFrame /\ pwmFrame = 0 /\ frameId >= AutoOffFrames
  /\ frameId' = 0
  /\ current' = "NULL" /\ out' = {} /\ timerOn' = FALSE
  /\ pc' = "drowsy" /\ ret' = "clear"
  /\ UNCHANGED <<boot, master, updateFrame, pwmFrame, brightness, crashed>>

\* update_loop_step returns after the touch; the update is taken as made.
Clear ==
  /\ pc = "clear"
  /\ updateFrame' = FALSE
  /\ pc' = "drowsy" /\ ret' = "check"
  /\ UNCHANGED <<boot, current, master, frameId, pwmFrame, brightness, out,
                 timerOn, crashed>>

Main ==
  \/ BootLoad \/ BootStore \/ BootReset \/ BootAssign \/ BootPublish
  \/ Check \/ Forget \/ Darken \/ Sleep \/ SkipUpdate \/ UpdateStep \/ NullPattern
  \/ AutoOff \/ Clear

-----------------------------------------------------------------------------
(* Interrupts.  Any of them ends the sleep in progress. *)

Wake == IF pc = "asleep" THEN pc' = ret /\ ret' = "none" ELSE UNCHANGED <<pc, ret>>

TimerInterrupt ==
  /\ timerOn
  /\ updateFrame' = TRUE
  /\ Wake
  /\ UNCHANGED <<boot, current, master, frameId, pwmFrame, brightness, out,
                 timerOn, crashed>>

\* The touch pin goes up but is low again in one of the samples.
TouchBounce ==
  /\ out' = {}
  /\ Wake
  /\ UNCHANGED <<boot, current, master, draw, timerOn, crashed>>

\* A touch: the timer runs, and the pattern is switched off or to the next.
Touch ==
  /\ out' = {}
  /\ timerOn' = TRUE
  /\ \/ /\ current = "master" /\ current' = "NULL"
        /\ UNCHANGED <<patternId, master>>
     \/ /\ current = "NULL" /\ current' = "master"
        /\ NextPattern
  /\ frameId' = 0
  /\ Wake
  /\ UNCHANGED <<bootId, updateFrame, pwmFrame, brightness, crashed>>

Next == ~crashed /\ (Main \/ TimerInterrupt \/ TouchBounce \/ Touch)

\* The processor runs and the running timer ticks; nobody has to touch it.
Fairness == WF_vars(~crashed /\ Main) /\ WF_vars(~crashed /\ TimerInterrupt)

Spec == Init /\ [][Next]_vars /\ Fairness

-----------------------------------------------------------------------------
(* Properties. *)

BootLabels == {"boot_load", "boot_store", "boot_reset", "boot_assign", "boot_publish"}

TypeOK ==
  /\ pc \in BootLabels \cup {"check", "forget", "darken", "drowsy", "asleep", "update", "clear"}
  /\ ret \in {"none", "check", "update", "clear"}
  /\ patternId \in 0..MaxPatternId /\ bootId \in 0..NumPatterns
  /\ current \in {"NULL", "master"} /\ crashed \in BOOLEAN
  /\ frames \in 0..Wild /\ frame \in Nat /\ frameTimer \in Nat
  /\ updateFrame \in BOOLEAN /\ frameId \in 0..AutoOffFrames
  /\ pwmFrame \in 0..(PwmSteps - 1) /\ brightness \in [Leds -> 0..MaxBrightness]
  /\ out \subseteq Leds /\ timerOn \in BOOLEAN

\* Whenever the loop runs, master points at a real frame of a real pattern and
\* its timer is below the frame's duration, which the code only compares with
\* ==.  Neither a touch at any moment nor the interrupted next_pattern at boot
\* leaves it elsewhere.
FrameInBounds ==
  pc \notin BootLabels =>
    /\ frames < NumPatterns
    /\ frame \in 1..Len(Patterns[frames + 1])
    /\ frameTimer < CurrentFrame.duration

\* The pattern index is back inside patterns[] whenever the loop runs.
PatternIdInBounds == pc \notin BootLabels => patternId < NumPatterns

\* get_brightness_from_pattern handles p == NULL.  It goes on to use p.
NullPatternHandled == ~crashed

\* A touch that switches the pattern off leads to sleep with the timer stopped,
\* unless another touch comes or the update that is due crashes.
OffSleeps ==
  current = "NULL" /\ pc \notin BootLabels ~>
    current = "master" \/ crashed \/ (pc = "asleep" /\ ~timerOn)

\* A pattern that is on goes off in the end, by a touch or by the auto-off,
\* unless the touch came while main was about to stop the timer.
OnGoesOff ==
  current = "master" ~>
    current = "NULL" \/ crashed \/ (pc = "asleep" /\ ~timerOn)
=============================================================================
