SPECIFICATION SamplerSpec
CONSTANTS
  Paths = {"live"}
  Sessions = {c1, c2, r}
  Relays = {r}
  NoOne = NoOne
  Window = 3
  Interval = 2
  Second = 2
  Sizes = {1}
  MaxBytes = 2
  MaxCarried = 2
  MaxTicks = 4
SYMMETRY Symmetry
INVARIANTS
  RatesAreCarried
  SamplesAreSpread
CHECK_DEADLOCK FALSE
