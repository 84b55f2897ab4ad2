CONSTANTS
  MaxSends = 2
  MaxEvents = 2
SPECIFICATION FairSpec
INVARIANTS TypeOK OneJob HandleEnds CardShowsJob OneEnd
PROPERTY CardEnds
CHECK_DEADLOCK FALSE
