---------------------------- MODULE ShellRunner ----------------------------
(***************************************************************************)
(* OShellRunner (src/stdpkg/shell/shell.dq, shell_posix.dqi) and the       *)
(* OThread it derives from (src/stdpkg/threads/threads.dq): runners of one *)
(* program that start commands in the foreground or under a monitor        *)
(* thread, feed their standard input and drain their output.               *)
(*                                                                         *)
(* The kernel is part of the model: who holds which end of which pipe      *)
(* decides when a reader sees the end of a stream and when a writer gets   *)
(* SIGPIPE, and a fork copies every end the program has open.              *)
(*                                                                         *)
(* Data are counted in units of PIPE_BUF bytes. out and err are handled    *)
(* alike by the code and are one stream here; that the pipe of err may     *)
(* fail when the one of out is open is a step of its own.                  *)
(***************************************************************************)
EXTENDS Integers, PipeEnds

CONSTANTS Runners,
          Programs,        (* Programs[r]: what the commands of r may do   *)
          WithInput,       (* the runners that also supply an input        *)
          MaxRuns,         (* bound: commands each runner accepts          *)
          Inputs,          (* the units of input a command may be given    *)
          PipeSize,        (* units a pipe holds                           *)
          MonitorFaults,   (* MonitorFaults[r]: the calls of MonitorProcess *)
                           (* that may fail for good                       *)
          Pids,            (* Pids[r]: the numbers the kernel may give to  *)
                           (* the commands of r                            *)
          SigpipeIgnored   (* the application has set SIGPIPE to ignored   *)

ASSUME ShellAssumption ==
  /\ WithInput \subseteq Runners /\ MaxRuns \in [Runners -> Nat]
  /\ Inputs \subseteq Nat /\ PipeSize \in Nat \ {0}
  /\ \A r \in Runners : Programs[r] \subseteq {"echo", "quit", "sleep", "kids"}
  /\ \A r \in Runners : MonitorFaults[r] \subseteq {"poll", "read", "write", "wait"}
  /\ \A r \in Runners : 0 \notin Pids[r]

VARIABLES sh,         (* sh[r]: the fields of the runner                   *)
          caller,     (* caller[r]: where its controlling thread is        *)
          thread,     (* thread[r]: the native monitor thread              *)
          monitor,    (* monitor[r]: where MonitorProcess is               *)
          pid,        (* pid[r]: the field of the runner, 0 at first       *)
          proc,       (* proc[r]: the child, as the kernel knows it        *)
          ends,       (* who holds which end of the pipes of a runner      *)
          pipe,       (* pipe[r]: the units in its in and out pipes        *)
          broken,     (* broken[r]: history, the calls that have failed in *)
                      (* the monitor of its last command                   *)
          survives    (* the program has not been killed by SIGPIPE        *)

shellVars == <<sh, caller, thread, monitor, pid, proc, ends, pipe, broken, survives>>

Program   == <<"the", "program">>
Child(r)  == <<r, "child">>
Kid(r)    == <<r, "kid">>
ShellProcesses == {Program} \cup {Child(r) : r \in Runners} \cup {Kid(r) : r \in Runners}

inW(r)    == <<r, "in", "write">>
inR(r)    == <<r, "in", "read">>
outW(r)   == <<r, "out", "write">>
outR(r)   == <<r, "out", "read">>
Ends(r)   == {inW(r), inR(r), outW(r), outR(r)}
AllEnds   == UNION {Ends(r) : r \in Runners}
AllPids   == UNION {Pids[r] : r \in Runners}

EmptyPipes  == [in |-> 0, out |-> 0]
NoProcess   == [state |-> "none", kid |-> FALSE, prog |-> "quit", left |-> 0, code |-> 0]

ShellInit ==
  /\ sh = [r \in Runners |-> [finished |-> TRUE, running |-> FALSE, exitcode |-> 0, background |-> FALSE,
                              input |-> 0, left |-> 0, stdin |-> FALSE, out |-> 0, runs |-> 0]]
  /\ caller  = [r \in Runners |-> "idle"]
  /\ thread  = [r \in Runners |-> "none"]
  /\ monitor = [r \in Runners |-> "off"]
  /\ pid     = [r \in Runners |-> 0]
  /\ proc    = [r \in Runners |-> NoProcess]
  /\ ends    = [e \in AllEnds |-> {}]
  /\ pipe    = [r \in Runners |-> EmptyPipes]
  /\ broken  = [r \in Runners |-> {}]
  /\ survives = TRUE

Quiet(r) == survives /\ caller[r] = "idle"
Alive(r) == proc[r].state \in {"forked", "running"}
-----------------------------------------------------------------------------
(* OThread.                                                                *)

StartMethod(r) ==
  /\ ~ sh[r].running
  /\ thread' = [thread EXCEPT ![r] = "live"]

(* IsRunning, IsRunning's answer and Join: a thread that has ended is      *)
(* joined, one that has not is left (EBUSY) or waited for.                 *)
Busy(r)   == sh[r].running /\ thread[r] = "live"
Joined(r) == IF Busy(r) THEN sh[r] ELSE [sh[r] EXCEPT !.running = FALSE]
Reap(r)   == IF Busy(r) THEN thread ELSE [thread EXCEPT ![r] = "none"]

(* Finished (which calls IsRunning), WaitFinishMs (which calls Finished    *)
(* until its deadline) and Join, which blocks until the thread has ended.  *)
(* The answer of Finished is the field, whether or not the thread is       *)
(* joined.                                                                 *)
Finished(r) ==
  /\ Quiet(r)
  /\ sh[r].running /\ ~ Busy(r)
  /\ sh' = [sh EXCEPT ![r] = Joined(r)]
  /\ thread' = Reap(r)
  /\ UNCHANGED <<caller, monitor, pid, proc, ends, pipe, broken, survives>>
-----------------------------------------------------------------------------
(* The caller: Execute and StartProcess.                                   *)

(* Execute's test: the previous monitor is reaped, or the call returns -1. *)
Accepts(r) == ~ Busy(r) /\ sh[r].finished

(* Bound: a runner is used again when what its last command left behind    *)
(* has ended.                                                              *)
Execute(r, background, input, stdin) ==
  /\ Quiet(r)
  /\ sh[r].runs < MaxRuns[r] /\ ~ proc[r].kid
  /\ Accepts(r)
  /\ sh' = [sh EXCEPT ![r] = [finished |-> FALSE, running |-> Joined(r).running, exitcode |-> -1,
                              background |-> background, input |-> input, left |-> input,
                              stdin |-> stdin, out |-> 0, runs |-> sh[r].runs + 1]]
  /\ thread' = Reap(r)
  /\ caller' = [caller EXCEPT ![r] = "stdout pipe"]
  /\ proc' = [proc EXCEPT ![r] = NoProcess]
  /\ pipe' = [pipe EXCEPT ![r] = EmptyPipes]
  /\ broken' = [broken EXCEPT ![r] = {}]
  /\ UNCHANGED <<monitor, pid, ends, survives>>

(* -1: nothing of the running command is replaced.                         *)
Declined(r) == Quiet(r) /\ ~ Accepts(r) /\ UNCHANGED shellVars

(* As it would be if the pipes stayed open.                                *)
StartFailsOpen(r) ==
  /\ sh' = [sh EXCEPT ![r].finished = TRUE]
  /\ caller' = [caller EXCEPT ![r] = "idle"]
  /\ UNCHANGED <<thread, monitor, pid, proc, ends, pipe, broken, survives>>

(* EShellStart: what was opened is closed, the runner can be used again.   *)
StartFails(r) ==
  /\ ends' = Closed(Program, Ends(r), ends)
  /\ sh' = [sh EXCEPT ![r].finished = TRUE]
  /\ caller' = [caller EXCEPT ![r] = "idle"]
  /\ UNCHANGED <<thread, monitor, pid, proc, pipe, broken, survives>>

(* One call of pipe: at place here it opens E, and the next call is there. *)
OpenPipe(r, here, E, there) ==
  /\ survives /\ caller[r] = here
  /\ \/ /\ ends' = Opened(Program, E, ends)
        /\ caller' = [caller EXCEPT ![r] = there]
        /\ UNCHANGED <<sh, thread, monitor, pid, proc, pipe, broken, survives>>
     \/ StartFails(r)

OpenPipes(r) ==
  \/ OpenPipe(r, "stdout pipe", {outR(r), outW(r)}, "stderr pipe")
  \/ OpenPipe(r, "stderr pipe", {}, IF sh[r].stdin THEN "stdin pipe" ELSE "fork")
  \/ OpenPipe(r, "stdin pipe", {inR(r), inW(r)}, "fork")

(* The process group of a command exists until its leader is reaped and    *)
(* its members have ended; until then its number is not given away.        *)
GroupExists(r) == Alive(r) \/ proc[r].state = "zombie" \/ proc[r].kid
FreePids(r) == Pids[r] \ {pid[q] : q \in {other \in Runners : GroupExists(other)}}

Fork(r) ==
  /\ survives /\ caller[r] = "fork"
  /\ \/ \E prog \in Programs[r], p \in FreePids(r) :
          /\ pid' = [pid EXCEPT ![r] = p]
          /\ proc' = [proc EXCEPT ![r] = [NoProcess EXCEPT !.state = "forked", !.prog = prog]]
          /\ ends' = Forked(Program, Child(r), ends)
          /\ caller' = [caller EXCEPT ![r] = "parent"]
          /\ UNCHANGED <<sh, thread, monitor, pipe, broken, survives>>
     \/ StartFails(r)

(* kill(-pid, SIGKILL): the child, unless it has ended, and its kid.       *)
WithoutGroup(r) ==
  [proc[r] EXCEPT !.state = IF Alive(r) THEN "zombie" ELSE @, !.kid = FALSE, !.code = IF Alive(r) THEN -1 ELSE @]

KillGroup(r, holders) ==
  /\ proc' = [proc EXCEPT ![r] = WithoutGroup(r)]
  /\ ends' = Exited(Child(r), Exited(Kid(r), holders))

(* The parent's half after the fork, and the end of Execute: the call goes *)
(* on in MonitorProcess, or a thread does; without a thread the child is   *)
(* killed and drained in the foreground.                                   *)
Parent(r) ==
  LET closed == Closed(Program, {outW(r), inR(r)}, ends)
  IN  /\ survives /\ caller[r] = "parent"
      /\ monitor' = [monitor EXCEPT ![r] = "poll"]
      /\ \/ /\ sh[r].background
            /\ StartMethod(r)
            /\ sh' = [sh EXCEPT ![r].running = TRUE]
            /\ caller' = [caller EXCEPT ![r] = "idle"]
            /\ ends' = closed
            /\ UNCHANGED proc
         \/ /\ sh[r].background
            /\ KillGroup(r, closed)
            /\ caller' = [caller EXCEPT ![r] = "monitor"]
            /\ UNCHANGED <<sh, thread>>
         \/ /\ ~ sh[r].background
            /\ caller' = [caller EXCEPT ![r] = "monitor"]
            /\ ends' = closed
            /\ UNCHANGED <<sh, thread, proc>>
      /\ UNCHANGED <<pid, pipe, broken, survives>>

(* Kill: TerminateChild. The signal goes to whatever group has the number  *)
(* now, also when the monitor has reaped the child and not said finished   *)
(* yet. The wait that follows is a series of Finished.                     *)
Signalled(r) == {q \in Runners : GroupExists(q) /\ pid[q] = pid[r]}

Kill(r) ==
  /\ Quiet(r)
  /\ ~ sh[r].finished
  /\ \/ Signalled(r) = {} /\ UNCHANGED <<proc, ends>>
     \/ \E q \in Signalled(r) : KillGroup(q, ends)
  /\ UNCHANGED <<sh, caller, thread, monitor, pid, pipe, broken, survives>>
-----------------------------------------------------------------------------
(* MonitorProcess, one served descriptor of one poll at a time. A call     *)
(* that fails with EINTR, a read or write also with EAGAIN, is repeated;   *)
(* with another errno it ends the loop or closes its descriptor.           *)

Polling(r) == survives /\ monitor[r] = "poll"
InOpen(r)  == Program \in ends[inW(r)]
OutOpen(r) == Program \in ends[outR(r)]
OutEof(r)  == pipe[r].out = 0 /\ ends[outW(r)] = {}

Fails(r, call) == call \in MonitorFaults[r] /\ broken' = [broken EXCEPT ![r] = @ \cup {call}]

CloseFds(r, E) ==
  /\ ends' = Closed(Program, E, ends)
  /\ UNCHANGED <<sh, caller, thread, monitor, pid, proc, pipe, survives>>

(* poll fails: the loop is left, and what is open is closed.               *)
PollBreaks(r) ==
  /\ Polling(r) /\ (InOpen(r) \/ OutOpen(r))
  /\ Fails(r, "poll") /\ CloseFds(r, {inW(r), outR(r)})

(* Data, the end of the stream, or a read that fails.                      *)
ReadOutput(r) ==
  /\ Polling(r) /\ OutOpen(r)
  /\ \/ /\ pipe[r].out > 0
        /\ sh' = [sh EXCEPT ![r].out = @ + 1]
        /\ pipe' = [pipe EXCEPT ![r].out = @ - 1]
        /\ UNCHANGED <<caller, thread, monitor, pid, proc, ends, broken, survives>>
     \/ OutEof(r) /\ CloseFds(r, {outR(r)}) /\ UNCHANGED broken

ReadFails(r) ==
  /\ Polling(r) /\ OutOpen(r) /\ (pipe[r].out > 0 \/ OutEof(r))
  /\ Fails(r, "read") /\ CloseFds(r, {outR(r)})

CloseInput(r) == CloseFds(r, {inW(r)}) /\ UNCHANGED broken

(* poll reports POLLOUT while the pipe has room, whether or not anybody    *)
(* reads; a write without a reader raises SIGPIPE, or fails if it is       *)
(* ignored. The last unit closes the descriptor in the same pass.          *)
Writable(r) == Polling(r) /\ InOpen(r) /\ pipe[r].in < PipeSize

WriteInput(r) ==
  /\ Writable(r)
  /\ \/ sh[r].left = 0 /\ CloseInput(r)
     \/ /\ sh[r].left > 0 /\ ends[inR(r)] # {}
        /\ sh' = [sh EXCEPT ![r].left = @ - 1]
        /\ pipe' = [pipe EXCEPT ![r].in = @ + 1]
        /\ ends' = IF sh[r].left = 1 THEN Closed(Program, {inW(r)}, ends) ELSE ends
        /\ UNCHANGED <<caller, thread, monitor, pid, proc, broken, survives>>
     \/ sh[r].left > 0 /\ ends[inR(r)] = {} /\ SigpipeIgnored /\ CloseInput(r)
     \/ /\ sh[r].left > 0 /\ ends[inR(r)] = {} /\ ~ SigpipeIgnored
        /\ survives' = FALSE
        /\ UNCHANGED <<sh, caller, thread, monitor, pid, proc, ends, pipe, broken>>

WriteFails(r) ==
  Writable(r) /\ sh[r].left > 0 /\ Fails(r, "write") /\ CloseFds(r, {inW(r)})

(* A full pipe that nobody reads is reported as POLLERR alone.             *)
InputError(r) ==
  Polling(r) /\ InOpen(r) /\ pipe[r].in = PipeSize /\ ends[inR(r)] = {} /\ CloseInput(r)

(* All descriptors closed: waitpid. EINTR is retried; what is left is      *)
(* ECHILD, which comes when the child has ended and is not there to be     *)
(* reaped by this call (SIGCHLD is ignored, or it is somebody else's):     *)
(* then exitcode stays -1.                                                 *)
WaitChild(r) ==
  /\ Polling(r) /\ ~ OutOpen(r) /\ ~ InOpen(r)
  /\ proc[r].state = "zombie"
  /\ monitor' = [monitor EXCEPT ![r] = "finish"]
  /\ \/ /\ proc' = [proc EXCEPT ![r].state = "reaped"]
        /\ sh' = [sh EXCEPT ![r].exitcode = proc[r].code]
        /\ UNCHANGED broken
     \/ Fails(r, "wait") /\ UNCHANGED <<proc, sh>>
  /\ UNCHANGED <<caller, thread, pid, ends, pipe, survives>>

(* finished = true, by the monitor thread or by Execute.                   *)
Finish(r) ==
  /\ survives /\ monitor[r] = "finish"
  /\ sh' = [sh EXCEPT ![r].finished = TRUE]
  /\ monitor' = [monitor EXCEPT ![r] = "off"]
  /\ caller' = [caller EXCEPT ![r] = "idle"]
  /\ UNCHANGED <<thread, pid, proc, ends, pipe, broken, survives>>

ThreadEnds(r) ==
  /\ survives /\ thread[r] = "live" /\ monitor[r] = "off"
  /\ thread' = [thread EXCEPT ![r] = "ended"]
  /\ UNCHANGED <<sh, caller, monitor, pid, proc, ends, pipe, broken, survives>>
-----------------------------------------------------------------------------
(* The commands: echo copies its input to its output until the end of its  *)
(* input, quit ends without reading, sleep never ends, kids leaves behind  *)
(* a process that holds its pipes.                                         *)

SetProc(r, p) == proc' = [proc EXCEPT ![r] = p]
Frame == UNCHANGED <<sh, caller, thread, monitor, pid, broken, survives>>

ExitChild(r, code) ==
  /\ SetProc(r, [proc[r] EXCEPT !.state = "zombie", !.code = code])
  /\ ends' = Exited(Child(r), ends)
  /\ Frame /\ UNCHANGED pipe

(* The child's half after the fork: its copies of the other ends are       *)
(* closed, then execvp, or _exit(127).                                     *)
Exec(r) ==
  /\ proc[r].state = "forked"
  /\ \/ /\ SetProc(r, [proc[r] EXCEPT !.state = "running"])
        /\ ends' = Closed(Child(r), {inW(r), outR(r)}, ends)
        /\ Frame /\ UNCHANGED pipe
     \/ ExitChild(r, 127)

ReadInput(r) ==
  /\ proc[r].state = "running" /\ proc[r].prog = "echo"
  /\ pipe[r].in > 0 /\ proc[r].left = 0
  /\ pipe' = [pipe EXCEPT ![r].in = @ - 1]
  /\ SetProc(r, [proc[r] EXCEPT !.left = 1])
  /\ Frame /\ UNCHANGED ends

(* A write to a pipe nobody reads ends the child by SIGPIPE; whoever has   *)
(* inherited the read end counts as a reader.                              *)
WriteOutput(r) ==
  /\ proc[r].state = "running" /\ proc[r].left > 0
  /\ \/ /\ pipe[r].out < PipeSize /\ ends[outR(r)] # {}
        /\ pipe' = [pipe EXCEPT ![r].out = @ + 1]
        /\ SetProc(r, [proc[r] EXCEPT !.left = @ - 1])
        /\ Frame /\ UNCHANGED ends
     \/ ends[outR(r)] = {} /\ ExitChild(r, -1)

SpawnKid(r) ==
  /\ proc[r].state = "running" /\ proc[r].prog = "kids"
  /\ ~ proc[r].kid
  /\ SetProc(r, [proc[r] EXCEPT !.kid = TRUE, !.prog = "quit"])
  /\ ends' = Forked(Child(r), Kid(r), ends)
  /\ Frame /\ UNCHANGED pipe

InputEnds(r) == sh[r].stdin => pipe[r].in = 0 /\ ends[inW(r)] = {}

Exit(r) ==
  /\ proc[r].state = "running" /\ proc[r].left = 0
  /\ proc[r].prog \in {"echo", "quit"}
  /\ proc[r].prog = "echo" => InputEnds(r)
  /\ ExitChild(r, 0)

KidExit(r) ==
  /\ proc[r].kid
  /\ SetProc(r, [proc[r] EXCEPT !.kid = FALSE])
  /\ ends' = Exited(Kid(r), ends)
  /\ Frame /\ UNCHANGED pipe
-----------------------------------------------------------------------------
Call(r) ==
  \/ \E background, stdin \in BOOLEAN, input \in Inputs :
       (stdin => r \in WithInput) /\ (~ stdin => input = 0) /\ Execute(r, background, input, stdin)
  \/ Declined(r)
  \/ Kill(r)
  \/ Finished(r)

Starting(r)   == OpenPipes(r) \/ Fork(r) \/ Parent(r)
Failing(r)    == PollBreaks(r) \/ ReadFails(r) \/ WriteFails(r)
Serving(r)    == ReadOutput(r) \/ WriteInput(r) \/ InputError(r) \/ WaitChild(r) \/ Finish(r) \/ ThreadEnds(r)
Monitoring(r) == Serving(r) \/ Failing(r)
Works(r)      == Exec(r) \/ ReadInput(r) \/ WriteOutput(r) \/ SpawnKid(r) \/ Exit(r)
Command(r)    == Works(r) \/ KidExit(r)

ShellNext == \E r \in Runners : Call(r) \/ Starting(r) \/ Monitoring(r) \/ Command(r)

ShellSpec == ShellInit /\ [][ShellNext]_shellVars

(* Threads are scheduled, and commands other than sleep run to their end.  *)
(* The output and the input of a runner are served by the same poll loop:  *)
(* it goes on as long as one of them is ready. No call has to fail.        *)
ShellFairness ==
  \A r \in Runners :
    /\ WF_shellVars(Starting(r)) /\ WF_shellVars(Serving(r))
    /\ WF_shellVars(Works(r)) /\ WF_shellVars(KidExit(r))

ShellLive == ShellSpec /\ ShellFairness
-----------------------------------------------------------------------------
ShellTypeOK ==
  /\ sh \in [Runners -> [finished : BOOLEAN, running : BOOLEAN, background : BOOLEAN, stdin : BOOLEAN,
                         exitcode : {-1, 0, 127}, input : Nat, left : Nat,
                         out : Nat, runs : Nat]]
  /\ caller \in [Runners -> {"idle", "stdout pipe", "stderr pipe", "stdin pipe", "fork", "parent", "monitor"}]
  /\ thread \in [Runners -> {"none", "live", "ended"}]
  /\ monitor \in [Runners -> {"off", "poll", "finish"}]
  /\ pid \in [Runners -> AllPids \cup {0}]
  /\ proc \in [Runners -> [state : {"none", "forked", "running", "zombie", "reaped"}, kid : BOOLEAN,
                           prog : {"echo", "quit", "sleep", "kids"}, left : 0 .. 1, code : {-1, 0, 127}]]
  /\ ends \in [AllEnds -> SUBSET ShellProcesses]
  /\ pipe \in [Runners -> [in : 0 .. PipeSize, out : 0 .. PipeSize]]
  /\ broken \in [Runners -> SUBSET {"poll", "read", "write", "wait"}]
  /\ survives \in BOOLEAN

(* A runner that says finished has closed every descriptor of its pipes,   *)
(* on every way out of the start and of the monitor. Its child is reaped   *)
(* unless waitpid itself failed, which exitcode tells; everything the      *)
(* command wrote has been read unless poll or read failed.                 *)
NothingLeftOver ==
  \A r \in Runners :
    sh[r].finished /\ survives =>
      /\ \A e \in Ends(r) : Program \notin ends[e]
      /\ proc[r].state \in {"none", "reaped"} \/ ("wait" \in broken[r] /\ sh[r].exitcode = -1)
      /\ pipe[r].out = 0 \/ {"poll", "read"} \cap broken[r] # {}

(* What a command that copies its input wrote is captured in full, while   *)
(* its input is fed through pipes smaller than the data, unless a call of  *)
(* the monitor failed; then it is captured once at most.                   *)
EchoCaptured ==
  \A r \in Runners :
    sh[r].finished /\ proc[r].state = "reaped" /\ proc[r].prog = "echo" /\ sh[r].exitcode = 0 =>
      /\ sh[r].out <= sh[r].input
      /\ broken[r] = {} => sh[r].out = sh[r].input

(* A wrapper whose thread has been joined accepts the next command: Join   *)
(* makes a runner reusable.                                                *)
JoinedIsReusable ==
  \A r \in Runners : Quiet(r) /\ ~ sh[r].running => sh[r].finished /\ monitor[r] = "off"

(* A program that runs a command or kills it goes on itself.               *)
ProgramSurvives == survives

(* A caller that Finished has told that the command has finished may start *)
(* the next one. (It may not: the thread that has set finished may not     *)
(* have ended, and Execute returns -1.)                                    *)
FinishedIsReusable ==
  \A r \in Runners : Quiet(r) /\ sh[r].finished => Accepts(r)

(* Kill signals the process group of the runner's own command and no other *)
(* one. (Between waitpid and finished the number may be another's.)        *)
KillHitsOwnGroup ==
  \A r \in Runners : Quiet(r) /\ ~ sh[r].finished => Signalled(r) \subseteq {r}

(* A command that ends by itself, or that is killed, is reported finished. *)
CommandFinishes ==
  \A r \in Runners : ~ sh[r].finished ~> sh[r].finished
=============================================================================
