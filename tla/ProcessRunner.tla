--------------------------- MODULE ProcessRunner ---------------------------
(***************************************************************************)
(* OProcessRunner::Run and RunInteractiveProcess                           *)
(* (src/compiler/utils/processrunner.cpp, POSIX): the runs of several      *)
(* threads of one program, which share its descriptors.                    *)
(* The compiler runs its child compilers this way and every worker of the  *)
(* autotest runner has a runner of its own.                                *)
(*                                                                         *)
(* stdout and stderr are handled alike and are one pipe here; that the     *)
(* second may fail when the first is open is a step of its own. The write  *)
(* end of the pipe for exec errors exists in two forms: raw as pipe made   *)
(* it, and marked close-on-exec.                                           *)
(***************************************************************************)
EXTENDS Integers, PipeEnds

CONSTANTS Runs,          (* the calls, each in a thread of its own         *)
          Interactive,   (* those of RunInteractiveProcess: no output pipe *)
          Children,      (* Children[r]: how the child may behave          *)
          Faults,        (* Faults[r]: the system calls that may fail      *)
          HasTimeout,    (* the runs with exec_timeout_ms >= 0             *)
          MaxOutput      (* bound: units a child writes                    *)

ASSUME ProcessRunnerAssumption ==
  /\ MaxOutput \in Nat
  /\ HasTimeout \cup Interactive \subseteq Runs
  /\ HasTimeout \cap Interactive = {}
  /\ \A r \in Runs : /\ Children[r] \subseteq {"ends", "hangs", "forks"}
                     /\ Faults[r] \subseteq {"pipe", "errpipe", "execpipe", "cloexec", "fork", "nonblock",
                                              "poll", "read", "wait", "exec"}

VARIABLES at,         (* at[r]: where the call is                          *)
          run,        (* run[r]: its locals and its result                 *)
          child,      (* child[r]: the child, as the kernel knows it       *)
          fds,        (* who holds which end of which pipe                 *)
          unread      (* unread[r]: units in the output pipe               *)

runnerVars == <<at, run, child, fds, unread>>

Caller    == <<"the", "parent">>
Descendant(r)    == <<r, "kid">>
ChildOf(r) == <<r, "child">>
Holders   == {Caller} \cup {ChildOf(r) : r \in Runs} \cup {Descendant(r) : r \in Runs}

readEnd(r)  == <<r, "out", "read">>
writeEnd(r)  == <<r, "out", "write">>
rawW(r)  == <<r, "execerr", "raw">>
execW(r) == <<r, "execerr", "cloexec">>
execR(r) == <<r, "execerr", "read">>
EndsOf(r) == {readEnd(r), writeEnd(r), rawW(r), execW(r), execR(r)}
AllFds   == UNION {EndsOf(r) : r \in Runs}

RunnerInit ==
  /\ at     = [r \in Runs |-> "none"]
  /\ run    = [r \in Runs |-> [timed_out |-> FALSE, failed |-> {}, ok |-> FALSE, exit_code |-> "none"]]
  /\ child  = [r \in Runs |-> [state |-> "none", status |-> "none", kid |-> FALSE, wrote |-> 0, execerr |-> FALSE]]
  /\ fds    = [e \in AllFds |-> {}]
  /\ unread = [r \in Runs |-> 0]

Move(r, from, to) == at[r] = from /\ at' = [at EXCEPT ![r] = to]

(* return false, after CloseFd of everything that is open.                 *)
Abort(r, from, fault, code) ==
  /\ fault \in Faults[r]
  /\ Move(r, from, "done")
  /\ run' = [run EXCEPT ![r].exit_code = code]
  /\ fds' = Closed(Caller, EndsOf(r), fds)
  /\ UNCHANGED <<child, unread>>
-----------------------------------------------------------------------------
(* The call: without arguments it returns at once.                         *)
Run(r, args) ==
  /\ Move(r, "none", IF args THEN "pipes" ELSE "done")
  /\ run' = [run EXCEPT ![r].exit_code = IF args THEN "none" ELSE "INVALID_ARGS"]
  /\ UNCHANGED <<child, fds, unread>>

(* The pipe of stdout, and the one of stderr.                              *)
CreatePipes(r) ==
  \/ /\ Move(r, "pipes", IF r \in Interactive THEN "execpipe" ELSE "errpipe")
     /\ fds' = IF r \in Interactive THEN fds ELSE Opened(Caller, {readEnd(r), writeEnd(r)}, fds)
     /\ UNCHANGED <<run, child, unread>>
  \/ Move(r, "errpipe", "execpipe") /\ UNCHANGED <<run, child, fds, unread>>
  \/ r \notin Interactive /\ Abort(r, "pipes", "pipe", "PIPE_CREATE")
  \/ Abort(r, "errpipe", "errpipe", "PIPE_CREATE")

(* PrepareExecErrorPipe: pipe, then SetCloseOnExec of its write end.       *)
PrepareExecErrorPipe(r) ==
  \/ /\ Move(r, "execpipe", "cloexec")
     /\ fds' = Opened(Caller, {execR(r), rawW(r)}, fds)
     /\ UNCHANGED <<run, child, unread>>
  \/ Abort(r, "execpipe", "execpipe", "SETUP")

SetCloseOnExec(r) ==
  \/ /\ Move(r, "cloexec", "fork")
     /\ fds' = Opened(Caller, {execW(r)}, Closed(Caller, {rawW(r)}, fds))
     /\ UNCHANGED <<run, child, unread>>
  \/ Abort(r, "cloexec", "cloexec", "SETUP")

ForkChild(r) ==
  \/ /\ Move(r, "fork", "parent")
     /\ child' = [child EXCEPT ![r].state = "forked"]
     /\ fds' = Forked(Caller, ChildOf(r), fds)
     /\ UNCHANGED <<run, unread>>
  \/ Abort(r, "fork", "fork", "FORK")

(* The write ends are closed in the parent; SetNonBlocking may throw: then *)
(* the read end is closed too, and the child is waited for.                *)
CloseWriteEnds(r) ==
  \/ /\ Move(r, "parent", IF r \in Interactive THEN "wait" ELSE "poll")
     /\ fds' = Closed(Caller, {writeEnd(r), execW(r)}, fds)
     /\ UNCHANGED <<run, child, unread>>
  \/ /\ "nonblock" \in Faults[r] /\ r \notin Interactive
     /\ Move(r, "parent", "abandon")
     /\ fds' = Closed(Caller, EndsOf(r), fds)
     /\ UNCHANGED <<run, child, unread>>

(* waitpid is called once. It returns when the child has ended; a signal   *)
(* the program handles makes it fail before (EINTR is not repeated), and   *)
(* whoever else has reaped the child makes it fail after (ECHILD).         *)
WaitSucceeds(r) ==
  /\ child[r].state = "zombie"
  /\ child' = [child EXCEPT ![r].state = "reaped"]
WaitFails(r) == "wait" \in Faults[r] /\ UNCHANGED child

Failed(r, call) == run[r].failed \cup {call}

(* Its result is not looked at.                                            *)
Abandon(r) ==
  /\ Move(r, "abandon", "done")
  /\ \/ WaitSucceeds(r) /\ run' = [run EXCEPT ![r].exit_code = "SETUP"]
     \/ WaitFails(r) /\ run' = [run EXCEPT ![r].exit_code = "SETUP", ![r].failed = Failed(r, "wait")]
  /\ UNCHANGED <<fds, unread>>

(* kill(pid, SIGKILL): the child, not its descendants.                     *)
Killed(r) ==
  IF child[r].state \in {"forked", "running"}
    THEN [child EXCEPT ![r].state = "zombie", ![r].status = "SIGKILL"]
    ELSE child
DropsEnds(r) == IF child[r].state \in {"forked", "running"} THEN Exited(ChildOf(r), fds) ELSE fds

(* As it would be if the deadline were only noted.                         *)
TimeoutNoted(r) ==
  /\ at[r] = "poll" /\ r \in HasTimeout /\ ~ run[r].timed_out
  /\ run' = [run EXCEPT ![r].timed_out = TRUE]
  /\ UNCHANGED <<at, child, fds, unread>>

(* The deadline passes; from then on poll waits without a limit.           *)
Timeout(r) ==
  /\ at[r] = "poll" /\ r \in HasTimeout /\ ~ run[r].timed_out
  /\ run' = [run EXCEPT ![r].timed_out = TRUE]
  /\ child' = Killed(r)
  /\ fds' = DropsEnds(r)
  /\ UNCHANGED <<at, unread>>

PollFails(r) ==
  /\ "poll" \in Faults[r]
  /\ Move(r, "poll", "wait")
  /\ run' = [run EXCEPT ![r].failed = Failed(r, "poll")]
  /\ child' = Killed(r)
  /\ fds' = Closed(Caller, {readEnd(r)}, DropsEnds(r))
  /\ UNCHANGED unread

(* Data, the end of the stream, or a read that fails, which is taken for   *)
(* the end: nothing is reported, and the rest of the output is lost.       *)
ReadPipeData(r) ==
  /\ at[r] = "poll"
  /\ \/ /\ unread[r] > 0
        /\ unread' = [unread EXCEPT ![r] = 0]
        /\ UNCHANGED <<at, run, child, fds>>
     \/ /\ unread[r] = 0 /\ fds[writeEnd(r)] = {}
        /\ Move(r, "poll", "wait")
        /\ fds' = Closed(Caller, {readEnd(r)}, fds)
        /\ UNCHANGED <<run, child, unread>>
     \/ /\ "read" \in Faults[r] /\ (unread[r] > 0 \/ fds[writeEnd(r)] = {})
        /\ Move(r, "poll", "wait")
        /\ run' = [run EXCEPT ![r].failed = Failed(r, "read")]
        /\ fds' = Closed(Caller, {readEnd(r)}, fds)
        /\ UNCHANGED <<child, unread>>

WaitPid(r) ==
  /\ Move(r, "wait", "execerr")
  /\ \/ WaitSucceeds(r) /\ UNCHANGED run
     \/ WaitFails(r) /\ run' = [run EXCEPT ![r].failed = Failed(r, "wait")]
  /\ UNCHANGED <<fds, unread>>

(* ReadExecError returns when the child has written to the pipe or nobody  *)
(* can write any more, and closes its end of it.                           *)
ExecErrorKnown(r) ==
  /\ child[r].execerr \/ fds[rawW(r)] \cup fds[execW(r)] = {}
  /\ Move(r, "execerr", "done")
  /\ fds' = Closed(Caller, {execR(r)}, fds)
  /\ UNCHANGED <<child, unread>>

(* As it would be if a failed poll were forgotten.                         *)
ReadExecErrorOnly(r) ==
  /\ ExecErrorKnown(r)
  /\ run' = [run EXCEPT ![r].ok = ~ (child[r].execerr \/ run[r].timed_out \/ "wait" \in run[r].failed),
                        ![r].exit_code = IF run[r].timed_out THEN "TIMEOUT" ELSE child[r].status]

(* The result: a failed waitpid is reported at once; in Run the exit       *)
(* status replaces the code ReadExecError gave, a timeout and a failed     *)
(* poll replace the status; RunInteractiveProcess keeps the code of an     *)
(* exec error. A failed read is not known any more.                        *)
ReadExecError(r) ==
  /\ ExecErrorKnown(r)
  /\ run' = [run EXCEPT
       ![r].ok = ~ (child[r].execerr \/ run[r].timed_out \/ {"poll", "wait"} \cap run[r].failed # {}),
       ![r].exit_code = IF "wait" \in run[r].failed THEN "WAIT"
                        ELSE IF child[r].execerr     THEN IF r \in Interactive THEN "EXEC" ELSE child[r].status
                        ELSE IF run[r].timed_out     THEN "TIMEOUT"
                        ELSE IF "poll" \in run[r].failed THEN "POLL" ELSE child[r].status]
-----------------------------------------------------------------------------
(* The child: setenv, chdir, dup2 and execvp, or ReportAndExit.            *)
ExecChild(r) ==
  /\ child[r].state = "forked"
  /\ \/ /\ child' = [child EXCEPT ![r].state = "running"]
        /\ fds' = Closed(ChildOf(r), {readEnd(r), execR(r)} \cup {execW(q) : q \in Runs}, fds)
     \/ /\ "exec" \in Faults[r]
        /\ child' = [child EXCEPT ![r].state = "zombie", ![r].status = "exited", ![r].execerr = TRUE]
        /\ fds' = Exited(ChildOf(r), fds)
  /\ UNCHANGED <<at, run, unread>>

(* A write to a pipe nobody reads ends the child by SIGPIPE.               *)
Write(r) ==
  /\ child[r].state = "running" /\ child[r].wrote < MaxOutput /\ r \notin Interactive
  /\ IF fds[readEnd(r)] = {}
       THEN /\ child' = [child EXCEPT ![r].state = "zombie", ![r].status = "SIGPIPE"]
            /\ fds' = Exited(ChildOf(r), fds)
            /\ UNCHANGED unread
       ELSE /\ child' = [child EXCEPT ![r].wrote = @ + 1]
            /\ unread' = [unread EXCEPT ![r] = @ + 1]
            /\ UNCHANGED fds
  /\ UNCHANGED <<at, run>>

ForkKid(r) ==
  /\ child[r].state = "running" /\ "forks" \in Children[r] /\ ~ child[r].kid
  /\ child' = [child EXCEPT ![r].kid = TRUE]
  /\ fds' = Forked(ChildOf(r), Descendant(r), fds)
  /\ UNCHANGED <<at, run, unread>>

End(r) ==
  /\ child[r].state = "running" /\ "hangs" \notin Children[r]
  /\ child' = [child EXCEPT ![r].state = "zombie", ![r].status = "exited"]
  /\ fds' = Exited(ChildOf(r), fds)
  /\ UNCHANGED <<at, run, unread>>

KidEnds(r) ==
  /\ child[r].kid
  /\ child' = [child EXCEPT ![r].kid = FALSE]
  /\ fds' = Exited(Descendant(r), fds)
  /\ UNCHANGED <<at, run, unread>>
-----------------------------------------------------------------------------
Launching(r) == CreatePipes(r) \/ PrepareExecErrorPipe(r) \/ SetCloseOnExec(r) \/ ForkChild(r) \/ CloseWriteEnds(r)
Waiting(r)  == ReadPipeData(r) \/ WaitPid(r) \/ ReadExecError(r) \/ Abandon(r)

RunnerNext ==
  \E r \in Runs : \/ \E args \in BOOLEAN : Run(r, args)
                  \/ Launching(r) \/ Waiting(r) \/ Timeout(r) \/ PollFails(r)
                  \/ ExecChild(r) \/ Write(r) \/ ForkKid(r) \/ End(r) \/ KidEnds(r)

RunnerSpec == RunnerInit /\ [][RunnerNext]_runnerVars

(* Threads run, deadlines pass, and a process that does not hang ends.     *)
(* waitpid returns when the child has ended; it does not have to fail.     *)
Advances(r) ==
  \/ Launching(r) \/ ReadPipeData(r) \/ Timeout(r) \/ ReadExecError(r)
  \/ child[r].state = "zombie" /\ (WaitPid(r) \/ Abandon(r))

RunnerFairness ==
  \A r \in Runs : WF_runnerVars(Advances(r)) /\ WF_runnerVars(ExecChild(r) \/ End(r)) /\ WF_runnerVars(KidEnds(r))

RunnerLive == RunnerSpec /\ RunnerFairness
-----------------------------------------------------------------------------
Codes == {"none", "exited", "SIGKILL", "SIGPIPE", "INVALID_ARGS", "PIPE_CREATE", "SETUP", "FORK", "EXEC", "TIMEOUT", "POLL", "WAIT"}

RunnerTypeOK ==
  /\ at \in [Runs -> {"none", "pipes", "errpipe", "execpipe", "cloexec", "fork", "parent", "poll", "abandon", "wait", "execerr", "done"}]
  /\ run \in [Runs -> [timed_out : BOOLEAN, failed : SUBSET {"poll", "read", "wait"}, ok : BOOLEAN, exit_code : Codes]]
  /\ child \in [Runs -> [state : {"none", "forked", "running", "zombie", "reaped"}, kid : BOOLEAN,
                         status : {"none", "exited", "SIGKILL", "SIGPIPE"}, wrote : 0 .. MaxOutput, execerr : BOOLEAN]]
  /\ fds \in [AllFds -> SUBSET Holders]
  /\ unread \in [Runs -> 0 .. MaxOutput]

(* A call that has returned has closed its descriptors, whatever failed,   *)
(* and has reaped its child unless waitpid failed, which is never          *)
(* returned as success.                                                    *)
RunLeavesNothing ==
  \A r \in Runs : at[r] = "done" =>
    /\ \A e \in EndsOf(r) : Caller \notin fds[e]
    /\ child[r].state \in {"none", "reaped"} \/ ("wait" \in run[r].failed /\ ~ run[r].ok)

(* true is returned only for a program that was executed and reaped, with  *)
(* its exit status; it ended by itself and its whole output was read,      *)
(* unless a read failed.                                                   *)
TrueMeansComplete ==
  \A r \in Runs : at[r] = "done" /\ run[r].ok =>
    /\ child[r].state = "reaped" /\ ~ child[r].execerr
    /\ run[r].exit_code = child[r].status
    /\ "read" \notin run[r].failed => child[r].status = "exited" /\ unread[r] = 0

(* Every run returns: children that hang are killed at the deadline, and   *)
(* what the threads' children inherited from each other delays a run but   *)
(* does not make two of them wait for each other.                          *)
EveryRunEnds == \A r \in Runs : at[r] # "none" ~> at[r] = "done"
=============================================================================
