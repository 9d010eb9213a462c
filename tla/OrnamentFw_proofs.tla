-------------------------- MODULE OrnamentFw_proofs --------------------------
(***************************************************************************)
(* What the firmware guarantees for every set of patterns, every number of *)
(* LEDs and every PWM resolution, with touches at any moment.              *)
(***************************************************************************)
EXTENDS OrnamentFw, TLAPS

\* The frame that master points at exists and is not used up.
MasterInBounds ==
  /\ frames \in 0..(NumPatterns - 1)
  /\ frame \in 1..Len(Patterns[frames + 1])
  /\ frameTimer \in 0..(CurrentFrame.duration - 1)

\* While main runs next_pattern, its own copy of the index is one step ahead.
BootInBounds ==
  /\ bootId \in 0..NumPatterns
  /\ pc = "boot_assign" => bootId < NumPatterns
  /\ pc = "boot_reset" /\ bootId < NumPatterns => patternId < NumPatterns

\* The inductive invariant.  Only between main's store of an index that is one
\* too far and its reset can a touch go further in patterns[], and only until
\* main assigns its own pattern can master point at what it found there.
LoopInv ==
  /\ patternId \in 0..MaxPatternId
  /\ ret \in {"none", "check", "update", "clear"}
  /\ BootInBounds
  /\ pc # "boot_reset" => patternId < NumPatterns
  /\ pc \notin {"boot_reset", "boot_assign"} => MasterInBounds

-----------------------------------------------------------------------------

\* Every pattern has a first frame, and it lasts.
LEMMA PatternsUsable ==
  /\ NumPatterns \in Nat \ {0} /\ MaxPatternId \in Nat /\ NumPatterns < MaxPatternId
  /\ \A p \in 0..(NumPatterns - 1) :
       /\ Len(Patterns[p + 1]) \in Nat \ {0}
       /\ \A n \in 1..Len(Patterns[p + 1]) : Patterns[p + 1][n].duration \in Nat \ {0}
<1>1. NumPatterns \in Nat \ {0} /\ MaxPatternId \in Nat /\ NumPatterns < MaxPatternId
  BY OrnamentAssumption DEF NumPatterns
<1>2. ASSUME NEW p \in 0..(NumPatterns - 1)
      PROVE  /\ Len(Patterns[p + 1]) \in Nat \ {0}
             /\ \A n \in 1..Len(Patterns[p + 1]) : Patterns[p + 1][n].duration \in Nat \ {0}
  <2>1. p + 1 \in DOMAIN Patterns
    BY <1>1, OrnamentAssumption DEF NumPatterns
  <2>2. Patterns[p + 1] \in Seq(Frame) /\ Patterns[p + 1] # <<>>
    BY <2>1, OrnamentAssumption
  <2>3. \A n \in 1..Len(Patterns[p + 1]) : Patterns[p + 1][n] \in Frame
    BY <2>2
  <2> QED
    BY <2>2, <2>3 DEF Frame
<1> QED
  BY <1>1, <1>2

\* A pattern just chosen starts in bounds.
LEMMA NewPatternInBounds ==
  ASSUME NEW p \in 0..(NumPatterns - 1), NewPattern(p)
  PROVE  MasterInBounds'
<1>1. frames' = p /\ frame' = 1 /\ frameTimer' = 0
  BY DEF NewPattern
<1>2. CurrentFrame' = Patterns[p + 1][1]
  BY <1>1 DEF CurrentFrame
<1>3. Len(Patterns[p + 1]) \in Nat \ {0} /\ Patterns[p + 1][1].duration \in Nat \ {0}
  BY PatternsUsable
<1> QED
  BY <1>1, <1>2, <1>3 DEF MasterInBounds

\* Counting a frame's time never passes its duration, which the code only
\* compares with ==.
LEMMA GetBrightnessInBounds ==
  ASSUME MasterInBounds, frames' = frames, GetBrightness
  PROVE  MasterInBounds'
<1>1. /\ frames \in 0..(NumPatterns - 1)
      /\ Len(Patterns[frames + 1]) \in Nat \ {0}
      /\ \A n \in 1..Len(Patterns[frames + 1]) : Patterns[frames + 1][n].duration \in Nat \ {0}
  BY PatternsUsable DEF MasterInBounds
<1>2. CASE frameTimer + 1 = CurrentFrame.duration
  <2>1. frameTimer' = 0 /\ frame' \in 1..Len(Patterns[frames + 1])
    BY <1>1, <1>2 DEF GetBrightness, MasterInBounds
  <2>2. CurrentFrame'.duration = Patterns[frames + 1][frame'].duration
    BY DEF CurrentFrame
  <2>3. CurrentFrame'.duration \in Nat \ {0}
    BY <1>1, <2>1, <2>2
  <2> QED
    BY <1>1, <2>1, <2>3 DEF MasterInBounds
<1>3. CASE frameTimer + 1 # CurrentFrame.duration
  <2>1. frameTimer' = frameTimer + 1 /\ frame' = frame
    BY <1>3 DEF GetBrightness
  <2>2. CurrentFrame' = CurrentFrame
    BY <2>1 DEF CurrentFrame
  <2>3. CurrentFrame.duration \in Nat \ {0}
    BY <1>1 DEF CurrentFrame, MasterInBounds
  <2> QED
    BY <1>1, <1>3, <2>1, <2>2, <2>3 DEF MasterInBounds
<1> QED
  BY <1>2, <1>3

LEMMA MasterUnchanged ==
  ASSUME MasterInBounds, UNCHANGED master
  PROVE  MasterInBounds'
BY DEF MasterInBounds, master, CurrentFrame

-----------------------------------------------------------------------------
(* The inductive invariant holds initially and after every action. *)

LEMMA InitInv == Init => LoopInv
<1> SUFFICES ASSUME Init PROVE LoopInv
  OBVIOUS
<1>1. frames \in 0..(NumPatterns - 1)
  BY PatternsUsable DEF Init
<1>2. frame \in 1..Len(Patterns[frames + 1])
  BY <1>1, PatternsUsable DEF Init
<1>3. frameTimer \in 0..(CurrentFrame.duration - 1)
  <2>1. CurrentFrame.duration \in Nat \ {0}
    BY <1>1, <1>2, PatternsUsable DEF CurrentFrame
  <2> QED
    BY <2>1 DEF Init
<1> QED
  BY <1>1, <1>2, <1>3, PatternsUsable DEF Init, LoopInv, BootInBounds, MasterInBounds

\* A touch keeps the index in patterns[] if it was there, and always leaves it
\* within the bound.
LEMMA NextPatternInBounds ==
  ASSUME NextPattern, patternId \in 0..MaxPatternId
  PROVE  /\ patternId' \in 0..MaxPatternId
         /\ patternId < NumPatterns => patternId' < NumPatterns /\ MasterInBounds'
<1>1. PICK p \in Lookup(patternId + 1) :
        NewPattern(p) /\ patternId' = IF p = 0 THEN 0 ELSE patternId + 1
  BY DEF NextPattern
<1>2. patternId' \in 0..MaxPatternId
  BY <1>1, PatternsUsable DEF NextPattern
<1>3. ASSUME patternId < NumPatterns
      PROVE  patternId' < NumPatterns /\ MasterInBounds'
  <2>1. p \in 0..(NumPatterns - 1) /\ (p # 0 => p = patternId + 1)
    BY <1>3, PatternsUsable DEF Lookup
  <2> QED
    BY <1>1, <2>1, NewPatternInBounds, PatternsUsable
<1> QED
  BY <1>2, <1>3

LEMMA TouchInv ==
  ASSUME LoopInv, Touch
  PROVE  LoopInv'
<1>1. bootId' = bootId /\ ret' \in {"none", "check", "update", "clear"}
      /\ pc' \in {pc, "none", "check", "update", "clear"}
  BY DEF Touch, Wake, LoopInv
<1>2. pc' \in {"boot_reset", "boot_assign"} => pc' = pc
  BY <1>1
<1>3. CASE UNCHANGED <<patternId, master>>
  <2>1. pc' \notin {"boot_reset", "boot_assign"} => MasterInBounds'
    BY <1>3, MasterUnchanged, <1>1, <1>2 DEF LoopInv, Touch, Wake
  <2> QED
    BY <1>1, <1>2, <1>3, <2>1 DEF LoopInv, BootInBounds, Touch, Wake
<1>4. CASE NextPattern
  BY <1>1, <1>2, <1>4, NextPatternInBounds DEF LoopInv, BootInBounds, Touch, Wake
<1> QED
  BY <1>3, <1>4 DEF Touch

\* Any other action after boot: none of them touches the indices.
LEMMA LoopActionInv ==
  ASSUME LoopInv, UNCHANGED boot, ret' \in {"none", "check", "update", "clear"},
         pc' \notin {"boot_reset", "boot_assign"}, pc # "boot_reset",
         MasterInBounds'
  PROVE  LoopInv'
BY DEF LoopInv, BootInBounds, boot

LEMMA StepInv == LoopInv /\ [Next]_vars => LoopInv'
<1> SUFFICES ASSUME LoopInv, [Next]_vars PROVE LoopInv'
  OBVIOUS
<1>1. CASE BootLoad
  BY <1>1, MasterUnchanged, PatternsUsable DEF BootLoad, LoopInv, BootInBounds
<1>2. CASE BootStore
  BY <1>2, PatternsUsable DEF BootStore, LoopInv, BootInBounds
<1>3. CASE BootReset
  BY <1>3, PatternsUsable DEF BootReset, LoopInv, BootInBounds, boot
<1>4. CASE BootAssign
  <2>1. bootId \in 0..(NumPatterns - 1)
    BY <1>4, PatternsUsable DEF BootAssign, LoopInv, BootInBounds
  <2>2. MasterInBounds'
    BY <1>4, <2>1, NewPatternInBounds DEF BootAssign
  <2> QED
    BY <1>4, <2>2, LoopActionInv DEF BootAssign, LoopInv
<1>5. CASE UpdateStep
  <2>1. MasterInBounds
    BY <1>5 DEF UpdateStep, LoopInv
  <2>2. MasterInBounds'
    <3>1. CASE pwmFrame = 0
      BY <1>5, <2>1, <3>1, GetBrightnessInBounds DEF UpdateStep
    <3>2. CASE pwmFrame # 0
      BY <1>5, <2>1, <3>2, MasterUnchanged DEF UpdateStep, master
    <3> QED
      BY <3>1, <3>2
  <2> QED
    BY <1>5, <2>2, LoopActionInv DEF UpdateStep
<1>6. CASE BootPublish \/ Check \/ Forget \/ Darken \/ Sleep \/ SkipUpdate \/ NullPattern
           \/ AutoOff \/ Clear
  <2>1. /\ UNCHANGED boot /\ UNCHANGED master
        /\ ret' \in {"none", "check", "update", "clear"}
        /\ pc \notin {"boot_reset", "boot_assign"} /\ pc' \notin {"boot_reset", "boot_assign"}
    BY <1>6 DEF BootPublish, Check, Forget, Darken, Sleep, SkipUpdate, NullPattern, AutoOff,
                Clear, LoopInv
  <2>2. MasterInBounds'
    BY <2>1, MasterUnchanged DEF LoopInv
  <2> QED
    BY <2>1, <2>2, LoopActionInv
<1>7. CASE TimerInterrupt \/ TouchBounce \/ UNCHANGED vars
  <2>1. /\ UNCHANGED boot /\ UNCHANGED master
        /\ ret' \in {"none", "check", "update", "clear"}
        /\ pc' \in {pc, "none", "check", "update", "clear"}
        /\ pc' = pc \/ pc = "asleep"
    BY <1>7 DEF TimerInterrupt, TouchBounce, Wake, vars, draw, LoopInv
  <2>2. pc \notin {"boot_reset", "boot_assign"} => MasterInBounds'
    BY <2>1, MasterUnchanged DEF LoopInv
  <2> QED
    BY <2>1, <2>2 DEF LoopInv, BootInBounds, boot
<1>8. CASE Touch
  BY <1>8, TouchInv
<1> QED
  BY <1>1, <1>2, <1>3, <1>4, <1>5, <1>6, <1>7, <1>8 DEF Next, Main

LEMMA LoopInvAlways == Spec => []LoopInv
<1>1. Init => LoopInv
  BY InitInv
<1>2. LoopInv /\ [Next]_vars => LoopInv'
  BY StepInv
<1> QED
  BY <1>1, <1>2, PTL DEF Spec

-----------------------------------------------------------------------------
(* Types.  A sleep knows where it returns to, and the ramps stay between dark *)
(* and full brightness because t is below RampTime on them.                   *)

SleepReturns == pc \in {"drowsy", "asleep"} => ret \in {"check", "update", "clear"}

LEMMA RampInBounds ==
  ASSUME NEW t \in Nat, t < RampTime
  PROVE  (MaxBrightness * t) \div RampTime \in 0..MaxBrightness
<1> DEFINE q == (MaxBrightness * t) \div RampTime
<1>1. RampTime \in Nat \ {0} /\ MaxBrightness \in Nat
  BY OrnamentAssumption DEF MaxBrightness
<1>2. MaxBrightness * t \in Nat /\ MaxBrightness * t <= MaxBrightness * RampTime
  BY <1>1, SMTT(30)
<1>3. q \in Nat /\ q * RampTime <= MaxBrightness * t
  BY <1>1, <1>2, SMTT(30)
<1>4. q * RampTime <= MaxBrightness * RampTime
  <2>1. q * RampTime \in Nat /\ MaxBrightness * RampTime \in Nat
    BY <1>1, <1>3, SMTT(30)
  <2> QED
    BY <2>1, <1>2, <1>3
<1>5. q <= MaxBrightness
  <2>1. ASSUME NEW a \in Nat, NEW b \in Nat, NEW r \in Nat \ {0}, a * r <= b * r
        PROVE  a <= b
    BY <2>1, SMTT(30)
  <2> QED
    BY <1>1, <1>3, <1>4, <2>1
<1> QED
  BY <1>1, <1>3, <1>5

LEMMA BrightnessInBounds ==
  ASSUME NEW state \in LedStates, NEW t \in Nat
  PROVE  Brightness(state, t) \in 0..MaxBrightness
<1>1. MaxBrightness \in Nat /\ RampTime \in Nat
  BY OrnamentAssumption DEF MaxBrightness
<1>2. t < RampTime => (MaxBrightness * t) \div RampTime \in 0..MaxBrightness
  BY RampInBounds
<1> DEFINE q == (MaxBrightness * t) \div RampTime
<1>3. Brightness(state, t) =
        CASE state = "OFF" -> 0
          [] state = "ON" -> MaxBrightness
          [] state = "RAMP_UP" -> IF t < RampTime THEN q ELSE MaxBrightness
          [] state = "RAMP_DN" -> IF t < RampTime THEN MaxBrightness - q ELSE 0
  BY DEF Brightness
<1> HIDE DEF q
<1>4. t < RampTime => q \in 0..MaxBrightness
  BY <1>2 DEF q
<1> QED
  BY <1>1, <1>3, <1>4 DEF LedStates

\* Drawing keeps the brightness of every LED and the position typed.
LEMMA UpdateTypes ==
  ASSUME TypeOK, MasterInBounds, UpdateStep
  PROVE  /\ brightness' \in [Leds -> 0..MaxBrightness]
         /\ frame' \in Nat /\ frameTimer' \in Nat
         /\ frameId' \in 0..AutoOffFrames /\ pwmFrame' \in 0..(PwmSteps - 1)
         /\ out' \subseteq Leds
<1> USE OrnamentAssumption
<1>1. /\ frames + 1 \in DOMAIN Patterns /\ frame \in DOMAIN Patterns[frames + 1]
      /\ Len(Patterns[frames + 1]) \in Nat
  BY PatternsUsable DEF MasterInBounds, NumPatterns
<1>2. CurrentFrame.leds \in [Leds -> LedStates]
  <2>1. Patterns[frames + 1] \in Seq(Frame)
    BY <1>1
  <2>2. Patterns[frames + 1][frame] \in Frame
    BY <1>1, <2>1
  <2> QED
    BY <2>2 DEF CurrentFrame, Frame
<1>0. pwmFrame' \in 0..(PwmSteps - 1)
  <2>1. pwmFrame' = (pwmFrame + 1) % PwmSteps
    BY Zenon DEF UpdateStep
  <2>2. pwmFrame \in Nat
    BY DEF TypeOK
  <2> QED
    BY <2>1, <2>2
<1>5. out' \subseteq Leds
  BY Zenon DEF UpdateStep, PwmFrameUpdate
<1>3. CASE UNCHANGED <<frameId, brightness, frame, frameTimer>>
  <2>1. /\ brightness \in [Leds -> 0..MaxBrightness] /\ frameId \in 0..AutoOffFrames
        /\ frame \in Nat /\ frameTimer \in Nat
    BY Zenon DEF TypeOK
  <2> QED
    BY <1>0, <1>3, <1>5, <2>1
<1>4. CASE frameId < AutoOffFrames /\ frameId' = frameId + 1 /\ GetBrightness
  <2>1. frameId' \in 0..AutoOffFrames
    BY <1>4 DEF TypeOK
  <2>2. frame' \in Nat /\ frameTimer' \in Nat
    <3>1. frame \in Nat /\ frameTimer \in Nat
      BY Zenon DEF TypeOK
    <3>2. frameTimer' \in {0, frameTimer + 1} /\ frame' \in {1, frame, frame + 1}
      BY <1>4, Zenon DEF GetBrightness
    <3> QED
      BY <3>1, <3>2
  <2>3. brightness' \in [Leds -> 0..MaxBrightness]
    <3>1. CASE UNCHANGED brightness
      BY <3>1 DEF TypeOK
    <3>2. CASE brightness' = [i \in Leds |-> Brightness(CurrentFrame.leds[i], frameTimer + 1)]
      <4>1. \A i \in Leds : CurrentFrame.leds[i] \in LedStates
        BY <1>2
      <4>2. frameTimer + 1 \in Nat
        BY DEF TypeOK
      <4>3. \A i \in Leds : Brightness(CurrentFrame.leds[i], frameTimer + 1) \in 0..MaxBrightness
        BY <4>1, <4>2, BrightnessInBounds
      <4> QED
        BY <3>2, <4>3, Zenon
    <3> QED
      BY <1>4, <3>1, <3>2, Zenon DEF GetBrightness
  <2> QED
    BY <1>0, <1>5, <2>1, <2>2, <2>3
<1> QED
  BY <1>3, <1>4, Zenon DEF UpdateStep

TypesInv == TypeOK /\ SleepReturns /\ LoopInv

LEMMA TypesInit == Init => TypeOK /\ SleepReturns
<1> SUFFICES ASSUME Init PROVE TypeOK /\ SleepReturns
  OBVIOUS
<1> USE OrnamentAssumption, PatternsUsable
<1>1. /\ patternId \in 0..MaxPatternId /\ bootId \in 0..NumPatterns /\ frames \in 0..Wild
      /\ frame \in Nat /\ frameTimer \in Nat /\ frameId \in 0..AutoOffFrames
      /\ pwmFrame \in 0..(PwmSteps - 1)
  BY DEF Init, Wild
<1>2. brightness \in [Leds -> 0..MaxBrightness]
  BY DEF Init, MaxBrightness
<1>3. crashed \in BOOLEAN /\ updateFrame \in BOOLEAN /\ timerOn \in BOOLEAN /\ out \subseteq Leds
  BY DEF Init
<1> QED
  BY <1>1, <1>2, <1>3 DEF Init, TypeOK, SleepReturns, BootLabels

LEMMA TypesStep == TypesInv /\ LoopInv' /\ [Next]_vars => TypeOK' /\ SleepReturns'
<1> SUFFICES ASSUME TypesInv, LoopInv', [Next]_vars PROVE TypeOK' /\ SleepReturns'
  OBVIOUS
<1> USE OrnamentAssumption, PatternsUsable DEF TypesInv
<1>0. bootId' \in 0..NumPatterns /\ patternId' \in 0..MaxPatternId
  BY DEF LoopInv, BootInBounds
<1>1. CASE BootLoad \/ BootStore \/ BootReset \/ BootPublish \/ Check \/ Forget \/ Darken
           \/ Sleep \/ SkipUpdate \/ Clear \/ NullPattern \/ AutoOff
  <2>1. UNCHANGED <<master, pwmFrame, brightness>>
    BY <1>1 DEF BootLoad, BootStore, BootReset, BootPublish, Check, Forget, Darken, Sleep,
                SkipUpdate, Clear, NullPattern, AutoOff, draw, master
  <2>2. /\ pc' \in BootLabels \cup {"check", "forget", "darken", "drowsy", "asleep", "update", "clear"}
        /\ ret' \in {"none", "check", "update", "clear"} /\ SleepReturns'
        /\ current' \in {"NULL", "master"} /\ crashed' \in BOOLEAN
    BY <1>1 DEF BootLoad, BootStore, BootReset, BootPublish, Check, Forget, Darken, Sleep,
                SkipUpdate, Clear, NullPattern, AutoOff, TypeOK, SleepReturns, BootLabels
  <2>3. /\ updateFrame' \in {updateFrame, FALSE} /\ timerOn' \in {timerOn, FALSE}
        /\ frameId' \in {frameId, 0} /\ out' \in {out, {}}
    BY <1>1 DEF BootLoad, BootStore, BootReset, BootPublish, Check, Forget, Darken, Sleep,
                SkipUpdate, Clear, NullPattern, AutoOff, draw
  <2>4. updateFrame' \in BOOLEAN /\ timerOn' \in BOOLEAN
    BY <2>3, Zenon DEF TypeOK
  <2>5. frameId' \in 0..AutoOffFrames /\ out' \subseteq Leds
    BY <2>3 DEF TypeOK
  <2> QED
    BY <1>0, <2>1, <2>2, <2>4, <2>5 DEF TypeOK, master
<1>2. CASE BootAssign
  BY <1>0, <1>2 DEF BootAssign, NewPattern, TypeOK, SleepReturns, BootLabels, boot, draw, Wild,
                    LoopInv, BootInBounds
<1>3. CASE UpdateStep
  <2>1. MasterInBounds
    BY <1>3 DEF UpdateStep, LoopInv
  <2> QED
    BY <1>0, <1>3, <2>1, UpdateTypes DEF UpdateStep, TypeOK, SleepReturns
<1>4. CASE TimerInterrupt \/ TouchBounce \/ Touch
  <2>1. /\ pc' \in BootLabels \cup {"check", "forget", "darken", "drowsy", "asleep", "update", "clear"}
        /\ ret' \in {"none", "check", "update", "clear"} /\ SleepReturns'
    BY <1>4 DEF TimerInterrupt, TouchBounce, Touch, Wake, TypeOK, SleepReturns
  <2>2. frames' \in 0..Wild /\ frame' \in Nat /\ frameTimer' \in Nat
    <3>1. CASE UNCHANGED master
      BY <3>1 DEF master, TypeOK
    <3>2. CASE NextPattern
      <4>1. PICK p \in Lookup(patternId + 1) : NewPattern(p)
        BY <3>2 DEF NextPattern
      <4>2. p \in 0..NumPatterns
        BY DEF Lookup, Wild, TypeOK
      <4> QED
        BY <4>1, <4>2 DEF NewPattern, Wild
    <3> QED
      BY <1>4, <3>1, <3>2 DEF TimerInterrupt, TouchBounce, Touch, master
  <2>3. /\ current' \in {current, "NULL", "master"} /\ crashed' = crashed
        /\ timerOn' \in {timerOn, TRUE} /\ updateFrame' \in {updateFrame, TRUE}
        /\ frameId' \in {frameId, 0} /\ out' \in {out, {}}
        /\ pwmFrame' = pwmFrame /\ brightness' = brightness
    BY <1>4 DEF TimerInterrupt, TouchBounce, Touch, draw
  <2>4. updateFrame' \in BOOLEAN /\ timerOn' \in BOOLEAN /\ crashed' \in BOOLEAN
    BY <2>3, Zenon DEF TypeOK
  <2>5. frameId' \in 0..AutoOffFrames /\ out' \subseteq Leds /\ current' \in {"NULL", "master"}
    BY <2>3 DEF TypeOK
  <2> QED
    BY <1>0, <2>1, <2>2, <2>3, <2>4, <2>5 DEF TypeOK
<1>5. CASE UNCHANGED vars
  BY <1>5 DEF vars, boot, master, draw, TypeOK, SleepReturns
<1> QED
  BY <1>1, <1>2, <1>3, <1>4, <1>5 DEF Next, Main

-----------------------------------------------------------------------------
(* The theorems. *)

\* Whenever the loop runs, master points at a frame of a pattern and its timer
\* is below that frame's duration.
THEOREM FramesStayInBounds == Spec => []FrameInBounds
<1>1. LoopInv => FrameInBounds
  <2> SUFFICES ASSUME LoopInv, pc \notin BootLabels PROVE MasterInBounds /\ FrameInBounds
    BY DEF FrameInBounds
  <2>1. MasterInBounds
    BY DEF LoopInv, BootLabels
  <2>2. CurrentFrame.duration \in Nat \ {0}
    BY <2>1, PatternsUsable DEF MasterInBounds, CurrentFrame
  <2>3. frames < NumPatterns /\ frameTimer < CurrentFrame.duration
    BY <2>1, <2>2, PatternsUsable DEF MasterInBounds
  <2> QED
    BY <2>1, <2>3 DEF MasterInBounds, FrameInBounds
<1> QED
  BY <1>1, LoopInvAlways, PTL

\* Whenever the loop runs, the pattern index is inside patterns[].
THEOREM PatternIdStaysInBounds == Spec => []PatternIdInBounds
<1>1. LoopInv => PatternIdInBounds
  BY DEF LoopInv, PatternIdInBounds, BootLabels
<1> QED
  BY <1>1, LoopInvAlways, PTL

\* Every variable keeps its type: in particular no ramp leaves the brightness
\* below dark or above full, whatever RampTime and the frames' durations are.
THEOREM Types == Spec => []TypeOK
<1>1. Init => TypesInv
  BY TypesInit, InitInv DEF TypesInv
<1>2. TypesInv /\ [Next]_vars => TypesInv'
  BY TypesStep, StepInv DEF TypesInv
<1>3. TypesInv => TypeOK
  BY DEF TypesInv
<1> QED
  BY <1>1, <1>2, <1>3, PTL DEF Spec
=============================================================================
