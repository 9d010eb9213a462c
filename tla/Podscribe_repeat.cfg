SPECIFICATION Spec
CONSTANTS
  Files = {f1}
  Stages = {"all"}
  TWorkers = 1
  PWorkers = 1
  MaxTroubles = 1
PROPERTY NoRepeatedTranscription
