SPECIFICATION Spec
CONSTANTS
  Point <- Few
  Target = 2
  RawMinPoints = 2
  MergeMin = 3
  MaxSeries = 2
  MaxInput = 2
  Stretch = 1
  Stretches = 2
  Request <- Requests
  Legacy <- Legacies
  Expiry = {3}
  MaxRow = 3
  OtherProcess = TRUE
INVARIANTS EachPointOnce DrainedIsDone
PROPERTIES SweepEnds
