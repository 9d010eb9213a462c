\* Three channels, two ticks of the timer, builds with and without a copy.
CONSTANTS
  Channels = 3
  Copies = {TRUE, FALSE}
  MaxTicks = 2
SPECIFICATION Spec
INVARIANTS
  TicksAccounted
  LinesTrue
PROPERTIES
  HostInOrder
  SampleEnds
