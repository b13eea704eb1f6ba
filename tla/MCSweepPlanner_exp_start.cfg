CONSTANTS
  Configs <- NonPositiveExpConfigs
  MaxPoints = 3
SPECIFICATION FairSpec
PROPERTY Terminates
