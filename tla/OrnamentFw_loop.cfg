CONSTANTS
  Patterns <- MCPatterns
  Leds = {1, 2}
  PwmSteps = 4
  GammaTable <- MCGammaTable
  RampTime = 3
  AutoOffFrames = 5
  MaxPatternId = 6
CHECK_DEADLOCK FALSE
SPECIFICATION Spec
INVARIANTS FrameInBounds PatternIdInBounds
PROPERTIES OffSleeps OnGoesOff
