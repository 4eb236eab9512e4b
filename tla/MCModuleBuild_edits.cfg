SPECIFICATION LiveSpec
CONSTANTS
  Sessions <- OneSession
  Modules <- EditModules
  PublicUses <- EditPublic
  PrivateUses <- NoUses
  Commands <- EditCommands
  Applications <- Apps
  MaxEdits = 1
  MaxStarts = 2
  MayDie = TRUE
PROPERTY LinksCurrentObjects
