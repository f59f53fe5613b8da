SPECIFICATION FairSpec
CONSTANTS
  Size = 5
  Writers = {w1, w2}
  Readers = {r1}
  AppendLengths = {1, 3, 4}
  ReadLengths = {2, 3}
  Waittimes = {1}
  MaxCalls = 3
INVARIANTS
  TypeOK SemHeld
PROPERTIES
  ImplementsByteQueue
  AppendEnds
