SPECIFICATION LiveSpec
CONSTANTS
  Sessions <- TwoSessions
  Modules <- SharedModules
  PublicUses <- SharedPublic
  PrivateUses <- CircularPrivate
  Commands <- MainAndOther
  Applications <- Apps
  MaxEdits = 0
  MaxStarts = 2
  MayDie = TRUE
INVARIANTS NoCircularWait BuildsAreSound
PROPERTY EveryBuildEnds
