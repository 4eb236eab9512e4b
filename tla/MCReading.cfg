SPECIFICATION MCSpec
CONSTANTS
  Vars = {"v"}
  Words = {"endif", "else", "elif", "endwhile", "endfor", "except", "finally", "endtry", "endfunc", "endsubfn"}
  Styles = {"colon", "brace"}
  MaxLength = 5
  MaxDepth = 3
  Types <- MCTypes
  Declarations <- MCDeclarations
  MaxSteps = 2
  MaxStatements = 2
  Directories <- MCDirectories
  SourceFiles <- MCSourceFiles
  PackagePaths <- MCPackagePaths
  PackageBuild <- MCPackageBuild
  Mains <- MCMains
  UseTexts <- MCUseTexts
  MaxUses = 4
  Targets <- MCTargets
  Host = "host"
  DefaultRoots <- MCRoots
  Installed <- MCInstalled
  Projects <- MCProjects
  Arguments <- MCArguments
  MaxArguments = 3
  MaxChildren = 2
  Files = {"main", "inc", "header", "gone"}
  Main = "main"
  Header = "header"
  Missing = {"gone"}
  Directives <- MCDirectives
  MaxDirectives <- MCMaxDirectives
  MaxIncludes = 3
  Markers <- MCMarkers
  OutLines <- MCOutLines
  DiagLines <- MCDiagLines
  ExitCodes = {0, 1}
  MaxMarkers = 2
  MaxLines = 2
  HostArchitecture = "x64"
CHECK_DEADLOCK FALSE
INVARIANTS FeederSelects AssignmentsTracked AccessRespected ModulesAreFound OptionsAsDocumented TestVerdicts StorageAsDocumented
