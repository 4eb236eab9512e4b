SPECIFICATION MCLive
CONSTANTS
  Runners <- MCRunners
  Programs <- MCPrograms
  WithInput = {"r1"}
  MaxRuns <- MCMaxRuns
  Inputs = {0, 2}
  PipeSize = 1
  MonitorFaults <- MCFaulty
  Pids <- MCPids
  SigpipeIgnored = TRUE
  Runs <- MCRuns
  Interactive = {}
  Children <- MCChildren
  Faults <- MCFaults
  HasTimeout = {"p1"}
  MaxOutput = 2
  Workers = {"w1", "w2"}
  MaxFiles = 3
  Results = {0, 1}
  Uris = {"a", "b"}
  Sources = {"a", "b"}
  Texts = {"t1", "t2"}
  Symbols <- MCSymbols
  UsesOf <- MCUsesOf
  Disk <- MCDisk
  Broken = {"t2"}
  MaxVersion = 2
CHECK_DEADLOCK FALSE
CONSTRAINT FewCommands
INVARIANTS CommandsLeaveNothing RunsAreComplete BatchesAreComplete EditorIsCurrent
PROPERTY EverythingEnds
