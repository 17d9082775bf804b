SPECIFICATION Spec
CONSTANTS
  Reader = {r1}
  Key = {a, b}
  AskedKey = a
  MaxId = 2
  MaxBumps = 3
  MaxEpoch = 4
INVARIANTS StatsMatchSnapshot NoPhantomSeries
