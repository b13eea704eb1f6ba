CONSTANTS
  Configs <- ValidConfigs
  MaxPoints = 8
SPECIFICATION FairSpec
INVARIANT MatchesReference
INVARIANT TicksAsReference
PROPERTY Terminates
