SPECIFICATION Spec
CONSTANTS
  Sessions <- OneSession
  Modules <- MainModules
  PublicUses <- MixedPublic
  PrivateUses <- MixedPrivate
  Commands <- MainAlone
  Applications <- Apps
  MaxEdits = 0
  MaxStarts = 1
  MayDie = FALSE
INVARIANT EveryBuildSucceeds
