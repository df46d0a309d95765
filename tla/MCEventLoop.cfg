SPECIFICATION FairSpec
CONSTANTS
  EventCount = 4
  Kind <- MCKind
  Key <- MCKey
  MaxKey = 3
  SanityLimit = 1
INVARIANTS
  LoopNeverEnds
  NoneOvertakesAMapping
  KeyBeforeEldersChanged
PROPERTIES
  EventsAreHandled
