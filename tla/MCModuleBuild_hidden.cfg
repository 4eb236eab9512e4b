SPECIFICATION Spec
CONSTANTS
  Sessions <- OneSession
  Modules <- MainModules
  PublicUses <- HiddenPublic
  PrivateUses <- HiddenPrivate
  Commands <- MainAlone
  Applications <- Apps
  MaxEdits = 1
  MaxStarts = 2
  MayDie = FALSE
PROPERTY LinksCurrentObjects
