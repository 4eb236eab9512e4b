SPECIFICATION MCSpec
CONSTANTS
  Modules <- MCModules
  Worlds <- MCWorlds
  Sources <- MCSources
  Apps = {"p", "q"}
  Graphs <- MCGraphs
  ModuleTexts <- MCDeclared
  TypeNames <- MCTypeNames
  Contents <- MCContents
  CellValues = {0, 1, 2, 3, 4}
  Versions = {2, 3}
CHECK_DEADLOCK FALSE
INVARIANTS InterfacesKeepMeaning ModulesStartInOrder CleanupAsDocumented ExpressionsAsDocumented
INVARIANTS OverloadsAsDocumented LoopsAsDocumented
