---------------------------- MODULE MCProcesses ----------------------------
(* What works with other processes, one in each behaviour: the shell       *)
(* package, the compiler's process runner, the worker pool of the test     *)
(* runner, the language server.  None of their fair actions is enabled     *)
(* before the component's first step, so the ones a behaviour leaves out   *)
(* are fair.                                                               *)
EXTENDS ShellRunner, ProcessRunner, WorkerPool, LanguageServer, TLC

VARIABLE part
mcVars == <<shellVars, runnerVars, poolVars, serverVars, part>>

(* The server makes no difference between queries, between didOpen and     *)
(* didChange, nor between messages without parameters.                     *)
MCMessages ==
  {m \in Messages : /\ m.method \notin {"documentSymbol", "completion", "didOpen"}
                    /\ m.params \/ m.method \in {"definition", "didChange"}}

MCInit == ShellInit /\ RunnerInit /\ PoolInit /\ ServerInit
          /\ part \in {"shell", "runner", "pool", "server"}

MCNext ==
  /\ UNCHANGED part
  /\ \/ part = "shell"  /\ ShellNext  /\ UNCHANGED <<runnerVars, poolVars, serverVars>>
     \/ part = "runner" /\ RunnerNext /\ UNCHANGED <<shellVars, poolVars, serverVars>>
     \/ part = "pool"   /\ PoolNext   /\ UNCHANGED <<shellVars, runnerVars, serverVars>>
     \/ /\ part = "server" /\ (\E m \in MCMessages : Handle(m))
        /\ UNCHANGED <<shellVars, runnerVars, poolVars>>

MCSpec == MCInit /\ [][MCNext]_mcVars
MCLive == MCSpec /\ ShellFairness /\ RunnerFairness /\ PoolLive

(* A command that is reported finished has left no descriptor behind, no   *)
(* child unless waitpid failed, and no output unless poll or read failed;  *)
(* what an echo wrote is there in full, and its runner takes the next      *)
(* command (OShellRunner).                                                 *)
CommandsLeaveNothing ==
  part = "shell" => ShellTypeOK /\ NothingLeftOver /\ EchoCaptured /\ JoinedIsReusable

(* A call of the process runner that has returned has closed everything,   *)
(* and has reaped its child or, when waitpid failed, returned false; true  *)
(* means executed, reaped, and, unless a read failed, ended by itself with *)
(* all output read (OProcessRunner::Run).                                  *)
RunsAreComplete == part = "runner" => RunnerTypeOK /\ RunLeavesNothing /\ TrueMeansComplete

(* Every test file of a batch is processed once, by one worker, before the *)
(* results are added up (OAutoTestRunner::RunBatch).                       *)
BatchesAreComplete == part = "pool" => PoolTypeOK /\ ResultsComplete /\ OneWorkerPerFile

(* What the server shows and answers comes from the newest texts, and      *)
(* every request is answered (OLangServer::Handle, Reanalyze).             *)
EditorIsCurrent ==
  part = "server" =>
    ServerTypeOK /\ FreshDiagnostics /\ SymbolsAreCurrent /\ DefinitionIsCertain /\ RequestsAnswered

(* Every command that was accepted, every run of a tool and every batch    *)
(* ends.                                                                   *)
EverythingEnds == CommandFinishes /\ EveryRunEnds /\ BatchEnds

(* Bound: two runners have a command each and nothing fails in their       *)
(* monitors, or one of them is alone with two and any call may fail.       *)
(* No action that has to be taken leads out of it.                         *)
FewCommands == (\A r \in Runners : broken[r] = {} /\ sh[r].runs <= 1) \/ sh["r2"].runs = 0

MCRunners  == {"r1", "r2"}
MCPrograms == "r1" :> {"echo", "quit"} @@ "r2" :> {"kids"}
MCMaxRuns  == "r1" :> 2 @@ "r2" :> 1
MCPids     == "r1" :> {1} @@ "r2" :> {2}
FewPids    == "r1" :> {1} @@ "r2" :> {1, 2}
MCFaulty   == "r1" :> {"poll", "read", "write", "wait"} @@ "r2" :> {}
OneOfEach  == "r1" :> 1 @@ "r2" :> 1
TwoEchoes  == "r1" :> {"echo"} @@ "r2" :> {"echo"}

MCRuns     == {"p1", "p2"}
MCChildren == "p1" :> {"ends", "hangs"} @@ "p2" :> {"ends", "forks"}
MCFaults   == "p1" :> {"pipe", "execpipe", "cloexec", "fork", "poll", "exec"}
              @@ "p2" :> {"errpipe", "nonblock", "read", "wait"}

(* Two documents, one of which uses the other.                             *)
MCSymbols == "t1" :> ("x" :> {"m"}) @@ "t2" :> ("x" :> {} @@ "y" :> {"m"})
MCUsesOf  == "t1" :> {"b"} @@ "t2" :> {}
MCDisk    == "a" :> "t1" @@ "b" :> "t2"
=============================================================================
