CONSTANTS
  MaxCall = 2
  MaxTurn = 2
  MaxRound = 2
  MaxCompaction = 2
  MaxAccident = 1
  MaxEffort = 7
SPECIFICATION Spec
INVARIANT TypeOK
INVARIANT AnsweredOnceInPlace
INVARIANT NoRoundLeftOpen
INVARIANT SentIsAcceptable
INVARIANT OrphanOnlyIfTorn
INVARIANT QuietCompactionKeepsAll
INVARIANT DenialStopsTheRest
INVARIANT MarkedAfterAnswered
PROPERTY KeepsRounds
CHECK_DEADLOCK FALSE
