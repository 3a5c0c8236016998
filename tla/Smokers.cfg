SPECIFICATION FairSpec
CONSTANTS
  MATCH = MATCH
  TOBACCO = TOBACCO
  PAPER = PAPER
  NoPusher = NoPusher
  Component <- MCComponent
INVARIANT TypeOK
INVARIANT RightSmoker
INVARIANT QuietReset
PROPERTY ImplementsRounds
