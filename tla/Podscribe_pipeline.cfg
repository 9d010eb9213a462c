SPECIFICATION Spec
CONSTANTS
  Files = {f1, f2}
  Stages = {"all", "transcribe", "postprocess"}
  TWorkers = 2
  PWorkers = 1
  MaxTroubles = 2
INVARIANTS StateBehindFiles CallsHaveACause CompletedIsWhole
PROPERTIES CompletedStays AllCompleted
