CONSTANTS
  NumRouters = 2
  TypedMtus <- MCTypedMtus
  Source <- MCSource
  Payload <- MCPayload
  Garbage <- MCGarbage
  Flips <- MCFlips
SPECIFICATION FairSpec
INVARIANTS
  TypeOK
  ChecksumRight
PROPERTIES
  SmallOnesAreSafe
  DamageStops
  FragmentsShrink
  LoopEnds
