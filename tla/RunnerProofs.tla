---------------------------- MODULE RunnerProofs ----------------------------
(***************************************************************************)
(* The two runners of other programs.                                      *)
(*                                                                         *)
(* The shell package: a finished runner has nothing open, nothing to reap  *)
(* unless waitpid failed and nothing unread unless poll or read failed, an *)
(* echo's output is captured in full unless a call of the monitor failed,  *)
(* and a joined runner takes the next command: for any number of runners,  *)
(* sizes of pipes and inputs, whichever calls fail.  The argument: the     *)
(* control flow of the caller, the thread and the monitor leaves exactly   *)
(* one of them in charge of a command; the program holds at most the ends  *)
(* its place needs; as long as the child lives it holds the write end of   *)
(* its output, so the end of the stream means that it has ended; and every *)
(* unit of an echo's input is at one of five places, four of which are     *)
(* empty when it has ended by itself and its output was read to the end.   *)
(*                                                                         *)
(* The compiler: a run that has returned has closed what it opened, has    *)
(* reaped its child unless waitpid failed, and returns true only for a     *)
(* program that it has reaped and, unless a read failed, that ended by     *)
(* itself and whose output was read to the end: for any number of threads, *)
(* whatever fails.  The argument: at each place the calling program holds  *)
(* exactly the ends that the call has open there; and the end of the       *)
(* stream means again that the child has ended.                            *)
(***************************************************************************)
EXTENDS ShellRunner, ProcessRunner, TLAPS

ShellPlaces == {"idle", "stdout pipe", "stderr pipe", "stdin pipe", "fork", "parent", "monitor"}
StartPlaces == {"stdout pipe", "stderr pipe", "stdin pipe", "fork"}
Programs4 == {"echo", "quit", "sleep", "kids"}
MonitorCalls == {"poll", "read", "write", "wait"}
ExitCodes == {-1, 0, 127}
ShRecords ==
  [finished : BOOLEAN, running : BOOLEAN, background : BOOLEAN, stdin : BOOLEAN,
   exitcode : ExitCodes, input : Nat, left : Nat, out : Nat, runs : Nat]
ProcRecords ==
  [state : {"none", "forked", "running", "zombie", "reaped"}, kid : BOOLEAN,
   prog : Programs4, left : 0 .. 1, code : ExitCodes]
AllCalls == [Runners -> SUBSET MonitorCalls]
PipeRecords == [in : 0 .. PipeSize, out : 0 .. PipeSize]
ShellEndSets == [AllEnds -> SUBSET ShellProcesses]

(* One of caller, thread and monitor drives the command.                   *)
PhaseOK(r) ==
  /\ sh[r].running <=> thread[r] # "none"
  /\ caller[r] # "idle" => thread[r] = "none" /\ ~sh[r].finished
  /\ caller[r] \in StartPlaces \cup {"parent"} => monitor[r] = "off"
  /\ caller[r] = "monitor" => monitor[r] # "off"
  /\ caller[r] = "idle" /\ monitor[r] # "off" => thread[r] = "live" /\ ~sh[r].finished
  /\ caller[r] = "idle" /\ monitor[r] = "off" => sh[r].finished

(* The ends of r the program may hold, and those it needs.                 *)
MayHold(r) ==
  IF caller[r] \in {"stderr pipe", "stdin pipe"} THEN {outR(r), outW(r)}
  ELSE IF caller[r] \in {"fork", "parent"} THEN IF sh[r].stdin THEN Ends(r) ELSE {outR(r), outW(r)}
  ELSE IF monitor[r] = "poll" THEN IF sh[r].stdin THEN {outR(r), inW(r)} ELSE {outR(r)}
  ELSE {}

HoldsOK(r) ==
  /\ \A e \in Ends(r) : Program \in ends[e] => e \in MayHold(r)
  /\ caller[r] \in {"stderr pipe", "stdin pipe", "fork", "parent"} => \A e \in MayHold(r) : Program \in ends[e]
  /\ caller[r] = "stdin pipe" => sh[r].stdin
  /\ Alive(r) => Child(r) \in ends[outW(r)] /\ (sh[r].stdin => Child(r) \in ends[inR(r)])

(* The monitor may have given up the output before its end.                *)
OutputLost(r) == {"poll", "read"} \cap broken[r] # {}

ProcOK(r) ==
  /\ caller[r] \in StartPlaces => proc[r].state = "none" /\ pipe[r].out = 0
  /\ caller[r] = "parent" \/ monitor[r] = "poll" => proc[r].state \in {"forked", "running", "zombie"}
  /\ monitor[r] = "poll" /\ Program \notin ends[outR(r)] /\ ~OutputLost(r) => proc[r].state = "zombie" /\ pipe[r].out = 0
  /\ monitor[r] = "finish" \/ sh[r].finished =>
        /\ pipe[r].out = 0 \/ OutputLost(r)
        /\ proc[r].state \in {"none", "reaped"} \/ (proc[r].state = "zombie" /\ "wait" \in broken[r] /\ sh[r].exitcode = -1)
  /\ ~sh[r].finished /\ monitor[r] # "finish" => sh[r].exitcode = -1
  /\ Alive(r) => proc[r].code = 0
  /\ proc[r].state = "reaped" => sh[r].exitcode = proc[r].code

(* Where the input of an echo is.                                          *)
EchoOK(r) ==
  /\ caller[r] \in StartPlaces => pipe[r].in = 0 /\ sh[r].left = sh[r].input /\ sh[r].out = 0
  /\ ~sh[r].stdin => sh[r].left = 0 /\ pipe[r].in = 0
  /\ proc[r].prog = "echo" /\ proc[r].state # "none" =>
        sh[r].input = sh[r].left + pipe[r].in + proc[r].left + pipe[r].out + sh[r].out
  /\ proc[r].prog = "echo" /\ Alive(r) /\ Program \notin ends[inW(r)] /\ broken[r] = {} => sh[r].left = 0
  /\ proc[r].prog = "echo" /\ proc[r].state \in {"zombie", "reaped"} /\ proc[r].code = 0 /\ broken[r] = {} =>
        sh[r].left = 0 /\ pipe[r].in = 0 /\ proc[r].left = 0

RunnerOK(r) == PhaseOK(r) /\ HoldsOK(r) /\ ProcOK(r) /\ EchoOK(r)

ShellIInv == ShellTypeOK /\ \A r \in Runners : RunnerOK(r)
-----------------------------------------------------------------------------
(* What the helpers of PipeEnds do, end by end.                            *)
LEMMA ShellClosedEnds ==
  ASSUME NEW holders \in ShellEndSets, NEW p, NEW E
  PROVE  /\ Closed(p, E, holders) \in ShellEndSets
         /\ \A e \in AllEnds : \A x : x \in Closed(p, E, holders)[e] <=> x \in holders[e] /\ ~(x = p /\ e \in E)
  BY DEF Closed, ShellEndSets

LEMMA ShellExitedEnds ==
  ASSUME NEW holders \in ShellEndSets, NEW p
  PROVE  /\ Exited(p, holders) \in ShellEndSets
         /\ \A e \in AllEnds : \A x : x \in Exited(p, holders)[e] <=> x \in holders[e] /\ x # p
  BY ShellClosedEnds DEF Exited, ShellEndSets

LEMMA ShellForkedEnds ==
  ASSUME NEW holders \in ShellEndSets, NEW p, NEW q \in ShellProcesses
  PROVE  /\ Forked(p, q, holders) \in ShellEndSets
         /\ \A e \in AllEnds : \A x : x \in Forked(p, q, holders)[e] <=> x \in holders[e] \/ (x = q /\ p \in holders[e])
  BY DEF Forked, ShellEndSets

LEMMA ShellOpenedEnds ==
  ASSUME NEW holders \in ShellEndSets, NEW p \in ShellProcesses, NEW E
  PROVE  /\ Opened(p, E, holders) \in ShellEndSets
         /\ \A e \in AllEnds : \A x : x \in Opened(p, E, holders)[e] <=> IF e \in E THEN x = p ELSE x \in holders[e]
  BY DEF Opened, ShellEndSets

(* The processes are different ones, and so are the ends.                  *)
LEMMA ShellNames ==
  ASSUME NEW r \in Runners, NEW q \in Runners
  PROVE  /\ Program \in ShellProcesses /\ Child(r) \in ShellProcesses /\ Kid(r) \in ShellProcesses
         /\ Program # Child(r) /\ Program # Kid(r) /\ Child(r) # Kid(q)
         /\ r # q => Child(r) # Child(q)
         /\ Ends(r) \subseteq AllEnds
         /\ r # q => \A e \in Ends(r) : e \notin Ends(q)
  <1>1. /\ Program \in ShellProcesses /\ Child(r) \in ShellProcesses /\ Kid(r) \in ShellProcesses
        /\ Ends(r) \subseteq AllEnds
    BY DEF ShellProcesses, AllEnds
  <1>2. /\ Program # Child(r) /\ Program # Kid(r) /\ Child(r) # Kid(q)
        /\ r # q => Child(r) # Child(q)
    BY DEF Program, Child, Kid
  <1>3. ASSUME NEW e \in Ends(r), e \in Ends(q) PROVE r = q
    <2>1. e[1] = r
      BY DEF Ends, inW, inR, outW, outR
    <2>2. e[1] = q
      BY <1>3 DEF Ends, inW, inR, outW, outR
    <2>3. QED
      BY <2>1, <2>2
  <1>4. QED
    BY <1>1, <1>2, <1>3

LEMMA ShellOwnEnds ==
  ASSUME NEW r \in Runners
  PROVE  /\ Ends(r) = {inW(r), inR(r), outW(r), outR(r)}
         /\ inW(r) # inR(r) /\ inW(r) # outW(r) /\ inW(r) # outR(r)
         /\ inR(r) # outW(r) /\ inR(r) # outR(r) /\ outW(r) # outR(r)
  BY DEF Ends, inW, inR, outW, outR
-----------------------------------------------------------------------------
USE ShellAssumption

(* Records with one field replaced: the runner, its child, its pipes.      *)
LEMMA ShFinished ==
  ASSUME NEW c \in ShRecords, NEW d, d = [c EXCEPT !.finished = TRUE]
  PROVE  /\ d \in ShRecords
         /\ d.finished /\ d.running = c.running /\ d.stdin = c.stdin /\ d.exitcode = c.exitcode
         /\ d.input = c.input /\ d.left = c.left /\ d.out = c.out
  <1>1. d \in ShRecords
    BY Zenon DEF ShRecords
  <1>2. d.finished /\ d.running = c.running /\ d.stdin = c.stdin /\ d.exitcode = c.exitcode
    BY DEF ShRecords
  <1>3. d.input = c.input /\ d.left = c.left /\ d.out = c.out
    BY DEF ShRecords
  <1>4. QED
    BY <1>1, <1>2, <1>3

LEMMA ShRunning ==
  ASSUME NEW c \in ShRecords, NEW d, NEW b \in BOOLEAN, d = [c EXCEPT !.running = b]
  PROVE  /\ d \in ShRecords
         /\ d.running = b /\ d.finished = c.finished /\ d.stdin = c.stdin
         /\ d.exitcode = c.exitcode /\ d.input = c.input /\ d.left = c.left /\ d.out = c.out
  <1>1. d \in ShRecords
    BY Zenon DEF ShRecords
  <1>2. d.running = b /\ d.finished = c.finished /\ d.stdin = c.stdin
    BY DEF ShRecords
  <1>3. d.exitcode = c.exitcode /\ d.input = c.input /\ d.left = c.left /\ d.out = c.out
    BY DEF ShRecords
  <1>4. QED
    BY <1>1, <1>2, <1>3

LEMMA ShLeft ==
  ASSUME NEW c \in ShRecords, NEW d, NEW n \in Nat, d = [c EXCEPT !.left = n]
  PROVE  /\ d \in ShRecords
         /\ d.left = n /\ d.finished = c.finished /\ d.running = c.running /\ d.stdin = c.stdin
         /\ d.exitcode = c.exitcode /\ d.input = c.input /\ d.out = c.out
  <1>1. d \in ShRecords
    BY Zenon DEF ShRecords
  <1>2. d.left = n /\ d.finished = c.finished /\ d.running = c.running /\ d.stdin = c.stdin
    BY DEF ShRecords
  <1>3. d.exitcode = c.exitcode /\ d.input = c.input /\ d.out = c.out
    BY DEF ShRecords
  <1>4. QED
    BY <1>1, <1>2, <1>3

LEMMA ShOut ==
  ASSUME NEW c \in ShRecords, NEW d, NEW n \in Nat, d = [c EXCEPT !.out = n]
  PROVE  /\ d \in ShRecords
         /\ d.out = n /\ d.finished = c.finished /\ d.running = c.running /\ d.stdin = c.stdin
         /\ d.exitcode = c.exitcode /\ d.input = c.input /\ d.left = c.left
  <1>1. d \in ShRecords
    BY Zenon DEF ShRecords
  <1>2. d.out = n /\ d.finished = c.finished /\ d.running = c.running /\ d.stdin = c.stdin
    BY DEF ShRecords
  <1>3. d.exitcode = c.exitcode /\ d.input = c.input /\ d.left = c.left
    BY DEF ShRecords
  <1>4. QED
    BY <1>1, <1>2, <1>3

LEMMA ShExitcode ==
  ASSUME NEW c \in ShRecords, NEW d, NEW n \in ExitCodes, d = [c EXCEPT !.exitcode = n]
  PROVE  /\ d \in ShRecords
         /\ d.exitcode = n /\ d.finished = c.finished /\ d.running = c.running
         /\ d.stdin = c.stdin /\ d.input = c.input /\ d.left = c.left /\ d.out = c.out
  <1>1. d \in ShRecords
    BY Zenon DEF ShRecords
  <1>2. d.exitcode = n /\ d.finished = c.finished /\ d.running = c.running
    BY DEF ShRecords
  <1>3. d.stdin = c.stdin /\ d.input = c.input /\ d.left = c.left /\ d.out = c.out
    BY DEF ShRecords
  <1>4. QED
    BY <1>1, <1>2, <1>3

LEMMA ProcState ==
  ASSUME NEW c \in ProcRecords, NEW d, NEW s \in {"none", "forked", "running", "zombie", "reaped"}, d = [c EXCEPT !.state = s]
  PROVE  /\ d \in ProcRecords
         /\ d.state = s /\ d.prog = c.prog /\ d.left = c.left /\ d.code = c.code
  <1>1. d \in ProcRecords
    BY Zenon DEF ProcRecords
  <1>2. d.state = s /\ d.prog = c.prog /\ d.left = c.left /\ d.code = c.code
    BY DEF ProcRecords
  <1>3. QED
    BY <1>1, <1>2

LEMMA ProcLeft ==
  ASSUME NEW c \in ProcRecords, NEW d, NEW n \in 0 .. 1, d = [c EXCEPT !.left = n]
  PROVE  /\ d \in ProcRecords
         /\ d.left = n /\ d.state = c.state /\ d.prog = c.prog /\ d.code = c.code
  <1>1. d \in ProcRecords
    BY Zenon DEF ProcRecords
  <1>2. d.left = n /\ d.state = c.state /\ d.prog = c.prog /\ d.code = c.code
    BY DEF ProcRecords
  <1>3. QED
    BY <1>1, <1>2

LEMMA ProcKid ==
  ASSUME NEW c \in ProcRecords, NEW d, NEW b \in BOOLEAN, d = [c EXCEPT !.kid = b]
  PROVE  /\ d \in ProcRecords
         /\ d.kid = b /\ d.state = c.state /\ d.prog = c.prog /\ d.left = c.left
         /\ d.code = c.code
  <1>1. d \in ProcRecords
    BY Zenon DEF ProcRecords
  <1>2. d.kid = b /\ d.state = c.state /\ d.prog = c.prog /\ d.left = c.left
    BY DEF ProcRecords
  <1>3. d.code = c.code
    BY DEF ProcRecords
  <1>4. QED
    BY <1>1, <1>2, <1>3

LEMMA PipeIn ==
  ASSUME NEW c \in PipeRecords, NEW d, NEW n \in 0 .. PipeSize, d = [c EXCEPT !.in = n]
  PROVE  /\ d \in PipeRecords
         /\ d.in = n /\ d.out = c.out
  <1>1. d \in PipeRecords
    BY Zenon DEF PipeRecords
  <1>2. d.in = n /\ d.out = c.out
    BY DEF PipeRecords
  <1>3. QED
    BY <1>1, <1>2

LEMMA PipeOut ==
  ASSUME NEW c \in PipeRecords, NEW d, NEW n \in 0 .. PipeSize, d = [c EXCEPT !.out = n]
  PROVE  /\ d \in PipeRecords
         /\ d.out = n /\ d.in = c.in
  <1>1. d \in PipeRecords
    BY Zenon DEF PipeRecords
  <1>2. d.out = n /\ d.in = c.in
    BY DEF PipeRecords
  <1>3. QED
    BY <1>1, <1>2

LEMMA NoChild ==
  /\ NoProcess \in ProcRecords
  /\ NoProcess.state = "none" /\ NoProcess.left = 0 /\ NoProcess.code = 0 /\ NoProcess.prog = "quit"
  /\ EmptyPipes \in PipeRecords /\ EmptyPipes.in = 0 /\ EmptyPipes.out = 0
  <1>1. 0 \in 0 .. 1 /\ 0 \in 0 .. PipeSize
    OBVIOUS
  <1>2. NoProcess \in ProcRecords
    BY <1>1, Zenon DEF NoProcess, ProcRecords, Programs4, ExitCodes
  <1>3. QED
    BY <1>1, <1>2 DEF NoProcess, EmptyPipes, PipeRecords

LEMMA ShellTypes ==
  ShellTypeOK => /\ sh \in [Runners -> ShRecords] /\ caller \in [Runners -> ShellPlaces]
                 /\ thread \in [Runners -> {"none", "live", "ended"}]
                 /\ monitor \in [Runners -> {"off", "poll", "finish"}]
                 /\ proc \in [Runners -> ProcRecords] /\ ends \in ShellEndSets
                 /\ pipe \in [Runners -> PipeRecords] /\ survives \in BOOLEAN
                 /\ pid \in [Runners -> AllPids \cup {0}] /\ broken \in AllCalls
  BY DEF ShellTypeOK, ShRecords, ShellPlaces, ProcRecords, Programs4, ExitCodes, ShellEndSets, PipeRecords,
         MonitorCalls, AllCalls

LEMMA ShellTypesKept ==
  ASSUME sh' \in [Runners -> ShRecords], caller' \in [Runners -> ShellPlaces],
         thread' \in [Runners -> {"none", "live", "ended"}], monitor' \in [Runners -> {"off", "poll", "finish"}],
         proc' \in [Runners -> ProcRecords], ends' \in ShellEndSets, pipe' \in [Runners -> PipeRecords],
         survives' \in BOOLEAN, pid' \in [Runners -> AllPids \cup {0}], broken' \in AllCalls
  PROVE  ShellTypeOK'
  BY DEF ShellTypeOK, ShRecords, ShellPlaces, ProcRecords, Programs4, ExitCodes, ShellEndSets, PipeRecords,
         MonitorCalls, AllCalls

LEMMA ShellInitIInv == ShellInit => ShellIInv
  <1> SUFFICES ASSUME ShellInit PROVE ShellIInv
    OBVIOUS
  <1> USE DEF ShellInit
  <1>1. ShellTypeOK
    <2>1. sh \in [Runners -> ShRecords]
      <3>1. 0 \in Nat /\ 0 \in ExitCodes
        BY DEF ExitCodes
      <3>2. QED
        BY <3>1, Zenon DEF ShRecords
    <2>2. proc \in [Runners -> ProcRecords] /\ pipe \in [Runners -> PipeRecords]
      BY NoChild
    <2>3. ends \in ShellEndSets /\ broken \in AllCalls
      BY DEF ShellEndSets, AllCalls
    <2>4. QED
      BY <2>1, <2>2, <2>3 DEF ShellTypeOK, ShRecords, ShellPlaces, ProcRecords, Programs4, ExitCodes, ShellEndSets,
                              PipeRecords, MonitorCalls, AllCalls
  <1>2. ASSUME NEW r \in Runners PROVE RunnerOK(r)
    <2>1. /\ sh[r].finished /\ ~sh[r].running /\ ~sh[r].stdin /\ sh[r].left = 0 /\ caller[r] = "idle"
          /\ thread[r] = "none" /\ monitor[r] = "off" /\ proc[r] = NoProcess /\ pipe[r] = EmptyPipes
      OBVIOUS
    <2>2. PhaseOK(r) /\ ProcOK(r) /\ EchoOK(r)
      BY <2>1, NoChild DEF PhaseOK, StartPlaces, ProcOK, EchoOK, Alive
    <2>3. HoldsOK(r)
      BY <2>1, NoChild, ShellNames DEF HoldsOK, Alive
    <2>4. QED
      BY <2>2, <2>3 DEF RunnerOK
  <1>3. QED
    BY <1>1, <1>2 DEF ShellIInv

(* A step of runner r, its child or its child's child: what it may do to   *)
(* the ends keeps the other runners as they were.                          *)
ShellEndsKept(r) ==
  \A q \in Runners \ {r} :
     /\ \A e \in Ends(q) : Program \in ends'[e] <=> Program \in ends[e]
     /\ \A e \in Ends(q) : Child(q) \in ends[e] => Child(q) \in ends'[e]

OthersKept(r) ==
  \A q \in Runners \ {r} : /\ sh'[q] = sh[q] /\ caller'[q] = caller[q] /\ thread'[q] = thread[q]
                           /\ monitor'[q] = monitor[q] /\ proc'[q] = proc[q] /\ pipe'[q] = pipe[q]
                           /\ broken'[q] = broken[q]

LEMMA ShellStutter == ShellIInv /\ UNCHANGED shellVars => ShellIInv'
  <1> SUFFICES ASSUME ShellIInv, UNCHANGED shellVars PROVE ShellIInv'
    OBVIOUS
  <1> USE DEF shellVars
  <1>1. ShellTypeOK'
    BY DEF ShellIInv, ShellTypeOK
  <1>2. ASSUME NEW r \in Runners PROVE RunnerOK(r)'
    <2>1. RunnerOK(r)
      BY DEF ShellIInv
    <2>2. PhaseOK(r)' /\ ProcOK(r)' /\ EchoOK(r)'
      BY <2>1 DEF RunnerOK, PhaseOK, ProcOK, EchoOK, OutputLost, Alive
    <2>3. MayHold(r)' = MayHold(r) /\ (Alive(r)' <=> Alive(r))
      BY DEF MayHold, Alive
    <2>4. HoldsOK(r)'
      BY <2>1, <2>3 DEF RunnerOK, HoldsOK
    <2>5. QED
      BY <2>2, <2>4 DEF RunnerOK
  <1>3. QED
    BY <1>1, <1>2 DEF ShellIInv

LEMMA ShellOthersKeep ==
  ASSUME ShellIInv, NEW r \in Runners, ShellTypeOK', RunnerOK(r)', OthersKept(r), ShellEndsKept(r)
  PROVE  ShellIInv'
  <1>1. ASSUME NEW q \in Runners \ {r} PROVE RunnerOK(q)'
    <2>1. RunnerOK(q)
      BY DEF ShellIInv
    <2>2. /\ sh'[q] = sh[q] /\ caller'[q] = caller[q] /\ thread'[q] = thread[q]
          /\ monitor'[q] = monitor[q] /\ proc'[q] = proc[q] /\ pipe'[q] = pipe[q] /\ broken'[q] = broken[q]
      BY DEF OthersKept
    <2>3. /\ \A e \in Ends(q) : Program \in ends'[e] <=> Program \in ends[e]
          /\ \A e \in Ends(q) : Child(q) \in ends[e] => Child(q) \in ends'[e]
      BY DEF ShellEndsKept
    <2>4. PhaseOK(q)'
      BY <2>1, <2>2 DEF RunnerOK, PhaseOK
    <2>5. ProcOK(q)'
      BY <2>1, <2>2, <2>3, ShellOwnEnds DEF RunnerOK, ProcOK, OutputLost, Alive
    <2>6. HoldsOK(q)'
      <3>1. MayHold(q)' = MayHold(q) /\ MayHold(q) \subseteq Ends(q) /\ (Alive(q)' <=> Alive(q))
        BY <2>2, ShellOwnEnds DEF MayHold, Alive
      <3>2. \A e \in Ends(q) : Program \in ends'[e] => e \in MayHold(q)'
        BY <2>1, <2>3, <3>1 DEF RunnerOK, HoldsOK
      <3>3. caller[q] \in {"stderr pipe", "stdin pipe", "fork", "parent"} => \A e \in MayHold(q)' : Program \in ends'[e]
        BY <2>1, <2>3, <3>1 DEF RunnerOK, HoldsOK
      <3>4. /\ caller[q] = "stdin pipe" => sh[q].stdin
            /\ Alive(q) => Child(q) \in ends'[outW(q)] /\ (sh[q].stdin => Child(q) \in ends'[inR(q)])
        <4>1. /\ caller[q] = "stdin pipe" => sh[q].stdin
              /\ Alive(q) => Child(q) \in ends[outW(q)] /\ (sh[q].stdin => Child(q) \in ends[inR(q)])
          BY <2>1 DEF RunnerOK, HoldsOK
        <4>2. outW(q) \in Ends(q) /\ inR(q) \in Ends(q)
          BY ShellOwnEnds
        <4>3. QED
          BY <2>3, <4>1, <4>2, Zenon
      <3>5. QED
        BY <2>2, <3>1, <3>2, <3>3, <3>4 DEF HoldsOK
    <2>7. EchoOK(q)'
      BY <2>1, <2>2, <2>3, ShellOwnEnds DEF RunnerOK, EchoOK, Alive
    <2>8. QED
      BY <2>4, <2>5, <2>6, <2>7 DEF RunnerOK
  <1>2. QED
    BY <1>1 DEF ShellIInv
-----------------------------------------------------------------------------
LEMMA ShellKnown ==
  ASSUME ShellIInv, NEW r \in Runners
  PROVE  /\ ShellTypeOK /\ RunnerOK(r) /\ ends \in ShellEndSets
         /\ sh[r] \in ShRecords /\ proc[r] \in ProcRecords /\ pipe[r] \in PipeRecords
         /\ sh[r].left \in Nat /\ sh[r].input \in Nat /\ sh[r].out \in Nat /\ proc[r].left \in Nat
         /\ pipe[r].in \in Nat /\ pipe[r].out \in Nat /\ Ends(r) \subseteq AllEnds
         /\ broken[r] \in SUBSET MonitorCalls
  <1>1. ShellTypeOK /\ RunnerOK(r)
    BY DEF ShellIInv
  <1>2. ends \in ShellEndSets /\ sh[r] \in ShRecords /\ proc[r] \in ProcRecords /\ pipe[r] \in PipeRecords
    BY <1>1, ShellTypes
  <1>3. /\ sh[r].left \in Nat /\ sh[r].input \in Nat /\ sh[r].out \in Nat /\ proc[r].left \in Nat
        /\ pipe[r].in \in Nat /\ pipe[r].out \in Nat
    BY <1>2 DEF ShRecords, ProcRecords, PipeRecords
  <1>4. broken[r] \in SUBSET MonitorCalls
    BY <1>1, ShellTypes DEF AllCalls
  <1>5. QED
    BY <1>1, <1>2, <1>3, <1>4, ShellNames

(* Where the program holds nothing it never needs to look.                 *)
LEMMA MayHoldOwn ==
  ASSUME NEW r \in Runners
  PROVE  MayHold(r) \subseteq Ends(r) /\ MayHold(r)' \subseteq Ends(r)
  BY ShellOwnEnds DEF MayHold

(* Finished, Join: the native thread is joined.                            *)
LEMMA FinishedIInv ==
  ASSUME ShellIInv, NEW r \in Runners, Finished(r)
  PROVE  ShellIInv'
  <1> DEFINE d == [sh[r] EXCEPT !.running = FALSE]
  <1>1. /\ ShellTypeOK /\ RunnerOK(r) /\ sh[r] \in ShRecords
        /\ UNCHANGED <<caller, monitor, proc, ends, pipe, pid, broken, survives>>
    BY ShellKnown DEF Finished
  <1>2. sh[r].running /\ thread[r] # "live" /\ caller[r] = "idle"
    BY DEF Finished, Busy, Quiet
  <1>3. /\ d \in ShRecords /\ ~d.running
        /\ d.finished = sh[r].finished /\ d.stdin = sh[r].stdin /\ d.exitcode = sh[r].exitcode
        /\ d.input = sh[r].input /\ d.left = sh[r].left /\ d.out = sh[r].out
    BY <1>1, ShRunning, ZenonT(60)
  <1>4. sh' = [sh EXCEPT ![r] = d] /\ thread' = [thread EXCEPT ![r] = "none"]
    BY DEF Finished, Joined, Reap
  <1> HIDE DEF d
  <1>5. sh'[r] = d /\ thread'[r] = "none" /\ OthersKept(r)
    BY <1>1, <1>4, ShellTypes DEF OthersKept
  <1>6. ShellTypeOK'
    BY <1>1, <1>3, <1>4, ShellTypes, ShellTypesKept
  <1>7. PhaseOK(r)'
    BY <1>1, <1>2, <1>3, <1>5, ShellTypes DEF RunnerOK, PhaseOK, StartPlaces
  <1>8. HoldsOK(r)'
    BY <1>1, <1>3, <1>5 DEF RunnerOK, HoldsOK, MayHold, Alive
  <1>9. ProcOK(r)' /\ EchoOK(r)'
    BY <1>1, <1>3, <1>5 DEF RunnerOK, ProcOK, EchoOK, OutputLost, Alive
  <1>10. QED
    BY <1>1, <1>5, <1>6, <1>7, <1>8, <1>9, ShellOthersKeep DEF RunnerOK, ShellEndsKept

LEMMA ExecuteIInv ==
  ASSUME ShellIInv, NEW r \in Runners, NEW background \in BOOLEAN, NEW stdin \in BOOLEAN, NEW input \in Inputs,
         ~stdin => input = 0, Execute(r, background, input, stdin)
  PROVE  ShellIInv'
  <1> DEFINE d == [finished |-> FALSE, running |-> Joined(r).running, exitcode |-> -1,
                   background |-> background, input |-> input, left |-> input,
                   stdin |-> stdin, out |-> 0, runs |-> sh[r].runs + 1]
  <1>1. /\ ShellTypeOK /\ RunnerOK(r) /\ sh[r] \in ShRecords /\ UNCHANGED <<monitor, pid, ends, survives>>
        /\ input \in Nat
    BY ShellKnown DEF Execute
  <1>2. ~Busy(r) /\ sh[r].finished /\ caller[r] = "idle"
    BY DEF Execute, Accepts, Quiet
  <1>3. monitor[r] = "off" /\ thread[r] # "live"
    BY <1>1, <1>2, ShellTypes DEF RunnerOK, PhaseOK, Busy
  <1>4. Joined(r).running = FALSE /\ Reap(r) = [thread EXCEPT ![r] = "none"]
    <2>1. [sh[r] EXCEPT !.running = FALSE].running = FALSE
      BY <1>1 DEF ShRecords
    <2>2. QED
      BY <1>2, <2>1 DEF Joined, Reap
  <1>5. /\ sh' = [sh EXCEPT ![r] = d] /\ thread' = [thread EXCEPT ![r] = "none"]
        /\ caller' = [caller EXCEPT ![r] = "stdout pipe"] /\ proc' = [proc EXCEPT ![r] = NoProcess]
        /\ pipe' = [pipe EXCEPT ![r] = EmptyPipes] /\ broken' = [broken EXCEPT ![r] = {}]
    BY <1>4 DEF Execute
  <1>6. d \in ShRecords
    <2>1. -1 \in ExitCodes /\ 0 \in Nat /\ sh[r].runs + 1 \in Nat
      BY <1>1 DEF ExitCodes, ShRecords
    <2>2. Joined(r).running \in BOOLEAN
      BY <1>4
    <2>3. QED
      BY <1>1, <2>1, <2>2, Zenon DEF ShRecords
  <1>7. /\ ~d.finished /\ ~d.running /\ d.input = input /\ d.left = input /\ (d.stdin <=> stdin) /\ d.out = 0
        /\ d.exitcode = -1
    BY <1>4
  <1> HIDE DEF d
  <1>8. /\ sh'[r] = d /\ thread'[r] = "none" /\ caller'[r] = "stdout pipe" /\ proc'[r] = NoProcess
        /\ pipe'[r] = EmptyPipes /\ OthersKept(r)
    BY <1>1, <1>5, ShellTypes DEF OthersKept, AllCalls
  <1>9. ShellTypeOK'
    <2>1. caller' \in [Runners -> ShellPlaces] /\ broken' \in AllCalls
      BY <1>1, <1>5, ShellTypes DEF ShellPlaces, AllCalls
    <2>2. QED
      BY <1>1, <1>5, <1>6, <2>1, NoChild, ShellTypes, ShellTypesKept
  <1>10. PhaseOK(r)' /\ ProcOK(r)' /\ EchoOK(r)'
    BY <1>1, <1>3, <1>7, <1>8, NoChild DEF PhaseOK, StartPlaces, ProcOK, EchoOK, Alive
  <1>11. HoldsOK(r)'
    <2>1. \A e \in Ends(r) : Program \notin ends[e]
      BY <1>1, <1>2, <1>3 DEF RunnerOK, HoldsOK, MayHold
    <2>2. QED
      BY <1>1, <1>8, <2>1, NoChild DEF HoldsOK, Alive
  <1>12. QED
    BY <1>1, <1>8, <1>9, <1>10, <1>11, ShellOthersKeep DEF RunnerOK, ShellEndsKept

LEMMA StartFailsIInv ==
  ASSUME ShellIInv, NEW r \in Runners, StartFails(r), caller[r] \in StartPlaces
  PROVE  ShellIInv'
  <1> DEFINE d == [sh[r] EXCEPT !.finished = TRUE]
  <1>1. /\ ShellTypeOK /\ RunnerOK(r) /\ sh[r] \in ShRecords /\ ends \in ShellEndSets /\ Ends(r) \subseteq AllEnds
        /\ UNCHANGED <<thread, monitor, proc, pipe, pid, broken, survives>>
    BY ShellKnown DEF StartFails
  <1>2. /\ d \in ShRecords /\ d.finished
        /\ d.running = sh[r].running /\ d.stdin = sh[r].stdin /\ d.exitcode = sh[r].exitcode
        /\ d.input = sh[r].input /\ d.left = sh[r].left /\ d.out = sh[r].out
    BY <1>1, ShFinished
  <1>3. sh' = [sh EXCEPT ![r] = d] /\ caller' = [caller EXCEPT ![r] = "idle"] /\ ends' = Closed(Program, Ends(r), ends)
    BY DEF StartFails
  <1> HIDE DEF d
  <1>4. sh'[r] = d /\ caller'[r] = "idle" /\ OthersKept(r)
    BY <1>1, <1>3, ShellTypes DEF OthersKept
  <1>5. ends' \in ShellEndSets /\ \A e \in AllEnds : \A x : x \in ends'[e] <=> x \in ends[e] /\ ~(x = Program /\ e \in Ends(r))
    BY <1>1, <1>3, ShellClosedEnds
  <1>6. ShellTypeOK'
    BY <1>1, <1>2, <1>3, <1>5, ShellTypes, ShellTypesKept DEF ShellPlaces
  <1>7. /\ monitor[r] = "off" /\ thread[r] = "none" /\ ~sh[r].running /\ proc[r].state = "none"
        /\ pipe[r].out = 0 /\ pipe[r].in = 0 /\ (~sh[r].stdin => sh[r].left = 0)
    <2>1. monitor[r] = "off" /\ thread[r] = "none" /\ ~sh[r].running
      BY <1>1 DEF RunnerOK, PhaseOK, StartPlaces
    <2>2. proc[r].state = "none" /\ pipe[r].out = 0
      BY <1>1 DEF RunnerOK, ProcOK
    <2>3. pipe[r].in = 0 /\ (~sh[r].stdin => sh[r].left = 0)
      BY <1>1 DEF RunnerOK, EchoOK
    <2>4. QED
      BY <2>1, <2>2, <2>3
  <1>8. PhaseOK(r)' /\ ProcOK(r)' /\ EchoOK(r)'
    <2>1. PhaseOK(r)'
      BY <1>1, <1>2, <1>4, <1>7 DEF PhaseOK, StartPlaces
    <2>2. ProcOK(r)'
      BY <1>1, <1>2, <1>4, <1>7 DEF ProcOK, StartPlaces, Alive
    <2>3. EchoOK(r)'
      BY <1>1, <1>2, <1>4, <1>7 DEF EchoOK, StartPlaces, Alive
    <2>4. QED
      BY <2>1, <2>2, <2>3
  <1>9. HoldsOK(r)'
    BY <1>1, <1>4, <1>5, <1>7 DEF HoldsOK, Alive
  <1>10. ShellEndsKept(r)
    BY <1>5, ShellNames, ShellOwnEnds DEF ShellEndsKept
  <1>11. QED
    BY <1>4, <1>6, <1>8, <1>9, <1>10, ShellOthersKeep DEF RunnerOK

(* A call of pipe that succeeds: the ends it needs at the place where it   *)
(* is made are open, and after it the ones of the next place are.          *)
LEMMA PipeOpenedIInv ==
  ASSUME ShellIInv, NEW r \in Runners, NEW E \in SUBSET Ends(r), NEW there \in {"stderr pipe", "stdin pipe", "fork"},
         caller[r] \in {"stdout pipe", "stderr pipe", "stdin pipe"}, there = "stdin pipe" => sh[r].stdin,
         MayHold(r)' = (IF caller[r] = "stdout pipe" THEN {} ELSE MayHold(r)) \cup E,
         ends' = Opened(Program, E, ends), caller' = [caller EXCEPT ![r] = there],
         UNCHANGED <<sh, thread, monitor, pid, proc, pipe, broken, survives>>
  PROVE  ShellIInv'
  <1>1. /\ ShellTypeOK /\ RunnerOK(r) /\ ends \in ShellEndSets /\ Ends(r) \subseteq AllEnds
        /\ Program \in ShellProcesses
    BY ShellKnown, ShellNames
  <1>2. ends' \in ShellEndSets /\ \A e \in AllEnds : \A x : x \in ends'[e] <=> IF e \in E THEN x = Program ELSE x \in ends[e]
    <2>1. ends' = Opened(Program, E, ends) /\ ends \in ShellEndSets /\ Program \in ShellProcesses
      BY <1>1
    <2>2. ends' = [e \in DOMAIN ends |-> IF e \in E THEN {Program} ELSE ends[e]]
      BY <2>1 DEF Opened
    <2>3. ends' \in ShellEndSets
      BY <2>1, <2>2 DEF ShellEndSets
    <2>4. ASSUME NEW e \in AllEnds PROVE ends'[e] = IF e \in E THEN {Program} ELSE ends[e]
      <3>1. e \in DOMAIN ends
        BY <2>1 DEF ShellEndSets
      <3>2. QED
        BY <2>2, <3>1
    <2>5. ASSUME NEW e \in AllEnds, NEW x PROVE x \in ends'[e] <=> IF e \in E THEN x = Program ELSE x \in ends[e]
      BY <2>4, Zenon
    <2>6. QED
      BY <2>3, <2>5
  <1>3. caller'[r] = there /\ OthersKept(r)
    BY <1>1, ShellTypes DEF OthersKept
  <1>4. ShellTypeOK'
    <2>1. caller' \in [Runners -> ShellPlaces]
      BY <1>1, ShellTypes DEF ShellPlaces
    <2>2. QED
      BY <1>1, <1>2, <2>1, ShellTypes, ShellTypesKept
  <1>5. proc[r].state = "none" /\ monitor[r] = "off" /\ caller[r] \in StartPlaces /\ there \in StartPlaces
    BY <1>1 DEF RunnerOK, PhaseOK, ProcOK, StartPlaces
  <1>6. PhaseOK(r)'
    BY <1>1, <1>3, <1>5 DEF RunnerOK, PhaseOK, StartPlaces
  <1>7. ProcOK(r)' /\ EchoOK(r)'
    BY <1>1, <1>3, <1>5 DEF RunnerOK, ProcOK, EchoOK, StartPlaces, OutputLost, Alive
  <1>8. HoldsOK(r)'
    <2>1. \A e \in Ends(r) : Program \in ends'[e] <=> e \in E \/ Program \in ends[e]
      BY <1>1, <1>2
    <2>2. caller[r] = "stdout pipe" => MayHold(r) = {}
      BY <1>5 DEF MayHold
    <2>3. \A e \in Ends(r) : Program \in ends[e] => e \in MayHold(r)
      BY <1>1 DEF RunnerOK, HoldsOK
    <2>4. caller[r] # "stdout pipe" => \A e \in MayHold(r) : Program \in ends[e]
      BY <1>1 DEF RunnerOK, HoldsOK
    <2>5. \A e \in Ends(r) : Program \in ends'[e] => e \in MayHold(r)'
      BY <2>1, <2>2, <2>3
    <2>6. \A e \in MayHold(r)' : Program \in ends'[e]
      BY <2>1, <2>4, MayHoldOwn
    <2>7. QED
      BY <1>3, <1>5, <2>5, <2>6 DEF HoldsOK, Alive
  <1>9. ShellEndsKept(r)
    <2>1. \A q \in Runners \ {r} : \A e \in Ends(q) : e \in AllEnds /\ e \notin E
      BY ShellNames
    <2>2. QED
      BY <1>2, <2>1 DEF ShellEndsKept
  <1>10. QED
    BY <1>3, <1>4, <1>6, <1>7, <1>8, <1>9, ShellOthersKeep DEF RunnerOK

LEMMA OpenPipesIInv ==
  ASSUME ShellIInv, NEW r \in Runners, OpenPipes(r)
  PROVE  ShellIInv'
  <1> DEFINE rest == UNCHANGED <<sh, thread, monitor, pid, proc, pipe, broken, survives>>
  <1>1. CASE StartFails(r)
    <2>1. caller[r] \in StartPlaces
      BY DEF OpenPipes, OpenPipe, StartPlaces
    <2>2. QED
      BY <1>1, <2>1, StartFailsIInv
  <1>2. caller \in [Runners -> ShellPlaces] /\ RunnerOK(r)
    BY ShellKnown, ShellTypes
  <1>3. CASE /\ caller[r] = "stdout pipe" /\ ends' = Opened(Program, {outR(r), outW(r)}, ends)
             /\ caller' = [caller EXCEPT ![r] = "stderr pipe"] /\ rest
    <2>1. caller'[r] = "stderr pipe" /\ sh' = sh /\ {outR(r), outW(r)} \in SUBSET Ends(r)
      BY <1>2, <1>3, ShellOwnEnds
    <2>2. MayHold(r)' = (IF caller[r] = "stdout pipe" THEN {} ELSE MayHold(r)) \cup {outR(r), outW(r)}
      BY <1>3, <2>1 DEF MayHold
    <2>3. QED
      BY <1>3, <2>1, <2>2, PipeOpenedIInv
  <1>4. CASE /\ caller[r] = "stderr pipe" /\ ends' = Opened(Program, {}, ends)
             /\ caller' = [caller EXCEPT ![r] = IF sh[r].stdin THEN "stdin pipe" ELSE "fork"] /\ rest
    <2> DEFINE there == IF sh[r].stdin THEN "stdin pipe" ELSE "fork"
    <2>1. there \in {"stderr pipe", "stdin pipe", "fork"} /\ (there = "stdin pipe" => sh[r].stdin)
      OBVIOUS
    <2>2. there \in {"stdin pipe", "fork"} /\ caller' = [caller EXCEPT ![r] = there] /\ sh' = sh
      BY <1>4
    <2> HIDE DEF there
    <2>3. caller'[r] = there /\ {} \in SUBSET Ends(r)
      BY <1>2, <2>2
    <2>4. MayHold(r)' = {outR(r), outW(r)}
      <3>1. CASE there = "stdin pipe"
        BY <2>3, <3>1 DEF MayHold
      <3>2. CASE there = "fork"
        <4>1. ~sh[r].stdin
          BY <3>2 DEF there
        <4>2. QED
          BY <2>2, <2>3, <3>2, <4>1 DEF MayHold
      <3>3. QED
        BY <2>2, <3>1, <3>2
    <2>5. MayHold(r)' = (IF caller[r] = "stdout pipe" THEN {} ELSE MayHold(r)) \cup {}
      BY <1>4, <2>4 DEF MayHold
    <2>6. QED
      BY <1>4, <2>1, <2>2, <2>3, <2>5, PipeOpenedIInv
  <1>5. CASE /\ caller[r] = "stdin pipe" /\ ends' = Opened(Program, {inR(r), inW(r)}, ends)
             /\ caller' = [caller EXCEPT ![r] = "fork"] /\ rest
    <2>1. caller'[r] = "fork" /\ sh' = sh /\ {inR(r), inW(r)} \in SUBSET Ends(r)
      BY <1>2, <1>5, ShellOwnEnds
    <2>2. sh[r].stdin
      BY <1>2, <1>5 DEF RunnerOK, HoldsOK
    <2>3. MayHold(r)' = Ends(r) /\ MayHold(r) = {outR(r), outW(r)}
      BY <1>5, <2>1, <2>2 DEF MayHold
    <2>4. MayHold(r)' = (IF caller[r] = "stdout pipe" THEN {} ELSE MayHold(r)) \cup {inR(r), inW(r)}
      BY <1>5, <2>3, ShellOwnEnds
    <2>5. QED
      BY <1>5, <2>1, <2>4, PipeOpenedIInv
  <1>6. QED
    BY <1>1, <1>3, <1>4, <1>5 DEF OpenPipes, OpenPipe
-----------------------------------------------------------------------------
LEMMA ForkIInv ==
  ASSUME ShellIInv, NEW r \in Runners, Fork(r)
  PROVE  ShellIInv'
  <1>1. CASE StartFails(r)
    BY <1>1, StartFailsIInv DEF Fork, StartPlaces
  <1>2. ASSUME NEW prog \in Programs[r], NEW p \in FreePids(r),
               pid' = [pid EXCEPT ![r] = p],
               proc' = [proc EXCEPT ![r] = [NoProcess EXCEPT !.state = "forked", !.prog = prog]],
               ends' = Forked(Program, Child(r), ends),
               caller' = [caller EXCEPT ![r] = "parent"],
               UNCHANGED <<sh, thread, monitor, pipe, broken, survives>>
        PROVE  ShellIInv'
    <2> DEFINE d == [NoProcess EXCEPT !.state = "forked", !.prog = prog]
    <2>1. ShellTypeOK /\ RunnerOK(r) /\ ends \in ShellEndSets /\ Ends(r) \subseteq AllEnds /\ caller[r] = "fork"
      BY ShellKnown DEF Fork
    <2>2. prog \in Programs4
      BY DEF Programs4
    <2>3. d \in ProcRecords
      BY <2>2, NoChild, Zenon DEF ProcRecords
    <2>4. d.state = "forked" /\ d.left = 0 /\ d.code = 0
      BY NoChild DEF ProcRecords
    <2>5. proc' = [proc EXCEPT ![r] = d]
      BY <1>2
    <2> HIDE DEF d
    <2>6. ends' \in ShellEndSets /\ \A e \in AllEnds : \A x : x \in ends'[e] <=> x \in ends[e] \/ (x = Child(r) /\ Program \in ends[e])
      BY <1>2, <2>1, ShellForkedEnds, ShellNames
    <2>7. proc'[r] = d /\ caller'[r] = "parent" /\ OthersKept(r)
      BY <1>2, <2>1, <2>5, ShellTypes DEF OthersKept
    <2>8. ShellTypeOK'
      <3>1. p \in AllPids
        BY DEF FreePids, AllPids
      <3>2. pid' \in [Runners -> AllPids \cup {0}] /\ caller' \in [Runners -> ShellPlaces]
        BY <1>2, <2>1, <3>1, ShellTypes DEF ShellPlaces
      <3>3. QED
        BY <1>2, <2>1, <2>3, <2>5, <2>6, <3>2, ShellTypes, ShellTypesKept
    <2>9. monitor[r] = "off" /\ ~sh[r].finished /\ sh[r].exitcode = -1
      BY <2>1 DEF RunnerOK, PhaseOK, ProcOK, StartPlaces
    <2>10. PhaseOK(r)'
      BY <1>2, <2>1, <2>7 DEF RunnerOK, PhaseOK, StartPlaces
    <2>11. ProcOK(r)'
      BY <1>2, <2>4, <2>7, <2>9 DEF ProcOK, StartPlaces, Alive
    <2>12. HoldsOK(r)'
      <3>1. MayHold(r)' = MayHold(r) /\ outW(r) \in MayHold(r) /\ (sh[r].stdin => inR(r) \in MayHold(r))
        BY <1>2, <2>1, <2>7, ShellOwnEnds DEF MayHold
      <3>2. \A e \in MayHold(r) : Program \in ends[e] /\ Program \in ends'[e] /\ Child(r) \in ends'[e]
        BY <2>1, <2>6, MayHoldOwn DEF RunnerOK, HoldsOK
      <3>3. \A e \in Ends(r) : Program \in ends'[e] => e \in MayHold(r)
        BY <2>1, <2>6, ShellNames DEF RunnerOK, HoldsOK
      <3>4. QED
        BY <1>2, <2>7, <3>1, <3>2, <3>3 DEF HoldsOK
    <2>13. EchoOK(r)'
      <3>1. /\ sh[r].left = sh[r].input /\ sh[r].out = 0 /\ pipe[r].in = 0 /\ pipe[r].out = 0
            /\ sh[r].left \in Nat /\ (~sh[r].stdin => sh[r].left = 0)
        BY <2>1, ShellKnown DEF RunnerOK, ProcOK, EchoOK, StartPlaces
      <3>2. sh'[r] = sh[r] /\ pipe'[r] = pipe[r] /\ proc'[r].left = 0 /\ proc'[r].state = "forked" /\ caller'[r] = "parent"
        BY <1>2, <2>4, <2>7
      <3>3. sh[r].stdin => Program \in ends'[inW(r)]
        BY <2>1, <2>6, ShellOwnEnds DEF RunnerOK, HoldsOK, MayHold
      <3>4. QED
        BY <3>1, <3>2, <3>3 DEF EchoOK, StartPlaces, Alive
    <2>14. ShellEndsKept(r)
      BY <2>6, ShellNames, ShellOwnEnds DEF ShellEndsKept
    <2>15. QED
      BY <2>7, <2>8, <2>10, <2>11, <2>12, <2>13, <2>14, ShellOthersKeep DEF RunnerOK
  <1>3. QED
    BY <1>1, <1>2 DEF Fork

(* TerminateChild: what it leaves of the child and of its ends.            *)
LEMMA ShellKilledChild ==
  ASSUME ShellIInv, NEW r \in Runners
  PROVE  /\ WithoutGroup(r) \in ProcRecords
         /\ WithoutGroup(r).state = IF Alive(r) THEN "zombie" ELSE proc[r].state
         /\ WithoutGroup(r).code = IF Alive(r) THEN -1 ELSE proc[r].code
         /\ WithoutGroup(r).prog = proc[r].prog /\ WithoutGroup(r).left = proc[r].left
  <1> DEFINE state == IF Alive(r) THEN "zombie" ELSE proc[r].state
             code  == IF Alive(r) THEN -1 ELSE proc[r].code
             d     == [proc[r] EXCEPT !.state = state, !.kid = FALSE, !.code = code]
  <1>1. proc[r] \in ProcRecords
    BY ShellKnown
  <1>2. WithoutGroup(r) = d
    BY DEF WithoutGroup
  <1>3. state \in {"none", "forked", "running", "zombie", "reaped"} /\ code \in ExitCodes
    BY <1>1 DEF ExitCodes, ProcRecords
  <1> HIDE DEF state, code
  <1>4. d \in ProcRecords
    BY <1>1, <1>3, Zenon DEF ProcRecords
  <1>5. d.state = state /\ d.code = code /\ d.prog = proc[r].prog /\ d.left = proc[r].left
    BY <1>1 DEF ProcRecords
  <1>6. QED
    BY <1>2, <1>4, <1>5 DEF state, code

LEMMA ShellKilledEnds ==
  ASSUME NEW holders \in ShellEndSets, NEW r \in Runners, KillGroup(r, holders)
  PROVE  /\ ends' \in ShellEndSets
         /\ \A e \in AllEnds : \A x : x \in ends'[e] <=> x \in holders[e] /\ x # Kid(r) /\ x # Child(r)
  <1> DEFINE some == Exited(Kid(r), holders)
  <1>1. some \in ShellEndSets /\ \A e \in AllEnds : \A x : x \in some[e] <=> x \in holders[e] /\ x # Kid(r)
    BY ShellExitedEnds
  <1>2. ends' = Exited(Child(r), some)
    BY DEF KillGroup
  <1> HIDE DEF some
  <1>3. QED
    BY <1>1, <1>2, ShellExitedEnds

(* The group may be that of another runner than the one whose Kill it is.  *)
LEMMA KillIInv ==
  ASSUME ShellIInv, NEW s \in Runners, Kill(s)
  PROVE  ShellIInv'
  <1>1. UNCHANGED <<sh, caller, thread, monitor, pid, pipe, broken, survives>>
    BY DEF Kill
  <1>2. CASE UNCHANGED <<proc, ends>>
    BY <1>1, <1>2, ShellStutter DEF shellVars
  <1>3. ASSUME NEW r \in Runners, KillGroup(r, ends) PROVE ShellIInv'
    <2>1. ShellTypeOK /\ RunnerOK(r) /\ ends \in ShellEndSets /\ Ends(r) \subseteq AllEnds
      BY ShellKnown
    <2> DEFINE d == WithoutGroup(r)
    <2>2. /\ d \in ProcRecords /\ d.state = (IF Alive(r) THEN "zombie" ELSE proc[r].state)
          /\ d.code = (IF Alive(r) THEN -1 ELSE proc[r].code)
          /\ d.prog = proc[r].prog /\ d.left = proc[r].left
      BY ShellKilledChild
    <2>3. proc' = [proc EXCEPT ![r] = d]
      BY <1>3 DEF KillGroup
    <2> HIDE DEF d
    <2>4. proc'[r] = d /\ OthersKept(r)
      BY <1>1, <2>1, <2>3, ShellTypes DEF OthersKept
    <2>5. /\ ends' \in ShellEndSets
          /\ \A e \in AllEnds : \A x : x \in ends'[e] <=> x \in ends[e] /\ x # Kid(r) /\ x # Child(r)
      BY <1>3, <2>1, ShellKilledEnds
    <2>6. ShellTypeOK'
      BY <1>1, <2>1, <2>2, <2>3, <2>5, ShellTypes, ShellTypesKept
    <2>7. ~Alive(r)'
      BY <2>2, <2>4 DEF Alive
    <2>8. PhaseOK(r)'
      BY <1>1, <2>1 DEF RunnerOK, PhaseOK
    <2>9. \A e \in Ends(r) : Program \in ends'[e] <=> Program \in ends[e]
      BY <2>1, <2>5, ShellNames
    <2>10. ProcOK(r)'
      BY <1>1, <2>1, <2>2, <2>4, <2>9, ShellOwnEnds DEF RunnerOK, ProcOK, OutputLost, Alive
    <2>11. HoldsOK(r)'
      BY <1>1, <2>1, <2>7, <2>9, MayHoldOwn DEF RunnerOK, HoldsOK, MayHold
    <2>12. EchoOK(r)'
      BY <1>1, <2>1, <2>2, <2>4, <2>7 DEF RunnerOK, EchoOK, Alive
    <2>13. ShellEndsKept(r)
      BY <2>5, ShellNames, ShellOwnEnds DEF ShellEndsKept
    <2>14. QED
      BY <2>4, <2>6, <2>8, <2>10, <2>11, <2>12, <2>13, ShellOthersKeep DEF RunnerOK
  <1>4. QED
    BY <1>2, <1>3 DEF Kill, Signalled

(* The monitor takes over: from the caller in the foreground, or in a      *)
(* thread of its own.                                                      *)
ParentStep(r, d, c, there, native) ==
  /\ caller[r] = "parent"
  /\ d \in ShRecords /\ sh' = [sh EXCEPT ![r] = d]
  /\ d.finished = sh[r].finished /\ d.stdin = sh[r].stdin /\ d.exitcode = sh[r].exitcode
  /\ d.input = sh[r].input /\ d.left = sh[r].left /\ d.out = sh[r].out
  /\ c \in ProcRecords /\ proc' = [proc EXCEPT ![r] = c]
  /\ c.prog = proc[r].prog /\ c.left = proc[r].left
  /\ \/ c.state = proc[r].state /\ c.code = proc[r].code
     \/ c.state = "zombie" /\ c.code = -1
  /\ \/ d.running /\ native = "live" /\ there = "idle"
     \/ ~d.running /\ native = "none" /\ there = "monitor"
  /\ thread' = [thread EXCEPT ![r] = native] /\ caller' = [caller EXCEPT ![r] = there]
  /\ monitor' = [monitor EXCEPT ![r] = "poll"]
  /\ ends' \in ShellEndSets
  /\ \A e \in AllEnds : \A x : x \notin {Child(r), Kid(r)} =>
        (x \in ends'[e] <=> x \in ends[e] /\ ~(x = Program /\ e \in {outW(r), inR(r)}))
  /\ c.state # "zombie" => \A e \in AllEnds : Child(r) \in ends[e] => Child(r) \in ends'[e]
  /\ UNCHANGED <<pipe, pid, broken, survives>>

LEMMA ParentStepIInv ==
  ASSUME ShellIInv, NEW r \in Runners, NEW d, NEW c, NEW there, NEW native, ParentStep(r, d, c, there, native)
  PROVE  ShellIInv'
  <1>1. /\ ShellTypeOK /\ RunnerOK(r) /\ ends \in ShellEndSets /\ Ends(r) \subseteq AllEnds
        /\ caller[r] = "parent"
    BY ShellKnown DEF ParentStep
  <1>2. /\ ~sh[r].finished /\ monitor[r] = "off" /\ sh[r].exitcode = -1
        /\ proc[r].state \in {"forked", "running", "zombie"}
        /\ MayHold(r) = IF sh[r].stdin THEN Ends(r) ELSE {outR(r), outW(r)}
    BY <1>1 DEF RunnerOK, PhaseOK, ProcOK, MayHold
  <1>3. there \in {"idle", "monitor"} /\ native \in {"live", "none"}
    BY DEF ParentStep
  <1>4. /\ sh'[r] = d /\ proc'[r] = c /\ thread'[r] = native /\ caller'[r] = there /\ monitor'[r] = "poll"
        /\ OthersKept(r) /\ UNCHANGED <<pipe, pid, broken, survives>>
    BY <1>1, ShellTypes DEF OthersKept, ParentStep
  <1>5. ShellTypeOK'
    <2>1. sh' \in [Runners -> ShRecords] /\ proc' \in [Runners -> ProcRecords] /\ ends' \in ShellEndSets
      BY <1>1, ShellTypes, ZenonT(60) DEF ParentStep
    <2>2. thread' \in [Runners -> {"none", "live", "ended"}]
      BY <1>1, <1>3, ShellTypes DEF ParentStep
    <2>3. caller' \in [Runners -> ShellPlaces] /\ monitor' \in [Runners -> {"off", "poll", "finish"}]
      BY <1>1, <1>3, ShellTypes DEF ShellPlaces, ParentStep
    <2>4. QED
      BY <1>1, <1>4, <2>1, <2>2, <2>3, ShellTypes, ShellTypesKept
  <1>6. \A e \in Ends(r) : Program \in ends'[e] <=> Program \in ends[e] /\ e \notin {outW(r), inR(r)}
    BY <1>1, ShellNames DEF ParentStep
  <1>7. Program \in ends'[outR(r)] /\ (sh[r].stdin => Program \in ends'[inW(r)])
    BY <1>1, <1>2, <1>6, ShellOwnEnds DEF RunnerOK, HoldsOK
  <1>8. PhaseOK(r)'
    BY <1>2, <1>3, <1>4 DEF PhaseOK, StartPlaces, ParentStep
  <1>9. c.state \in {"forked", "running", "zombie"} /\ (c.state # "zombie" => c.state = proc[r].state /\ c.code = proc[r].code)
    BY <1>2 DEF ParentStep
  <1>10. ProcOK(r)'
    BY <1>1, <1>2, <1>3, <1>4, <1>7, <1>9 DEF RunnerOK, ProcOK, StartPlaces, OutputLost, Alive, ParentStep
  <1>11. HoldsOK(r)'
    <2>1. MayHold(r)' = IF sh[r].stdin THEN {outR(r), inW(r)} ELSE {outR(r)}
      BY <1>3, <1>4 DEF MayHold, ParentStep
    <2>2. \A e \in Ends(r) : Program \in ends'[e] => e \in MayHold(r)'
      BY <1>1, <1>2, <1>6, <2>1, ShellOwnEnds DEF RunnerOK, HoldsOK
    <2>3. Alive(r)' => Child(r) \in ends'[outW(r)] /\ (sh[r].stdin => Child(r) \in ends'[inR(r)])
      <3>1. SUFFICES ASSUME Alive(r)' PROVE Child(r) \in ends'[outW(r)] /\ (sh[r].stdin => Child(r) \in ends'[inR(r)])
        OBVIOUS
      <3>2. c.state # "zombie" /\ Alive(r)
        BY <1>4, <1>9, <3>1 DEF Alive
      <3>3. \A e \in Ends(r) : Child(r) \in ends[e] => Child(r) \in ends'[e]
        BY <1>1, <3>2 DEF ParentStep
      <3>4. QED
        BY <1>1, <3>2, <3>3, ShellOwnEnds DEF RunnerOK, HoldsOK
    <2>4. d.stdin = sh[r].stdin
      BY DEF ParentStep
    <2>5. QED
      BY <1>3, <1>4, <2>2, <2>3, <2>4 DEF HoldsOK
  <1>12. EchoOK(r)'
    <2>1. /\ d.left = sh[r].left /\ d.input = sh[r].input /\ d.out = sh[r].out /\ d.stdin = sh[r].stdin
          /\ c.prog = proc[r].prog /\ c.left = proc[r].left
      BY DEF ParentStep
    <2>2. c.state = "zombie" /\ c.code = 0 => proc[r].state = "zombie" /\ proc[r].code = 0
      BY DEF ParentStep
    <2>3. there \notin StartPlaces
      BY <1>3 DEF StartPlaces
    <2>4. ~sh[r].stdin => sh[r].left = 0 /\ pipe[r].in = 0
      BY <1>1 DEF RunnerOK, EchoOK
    <2>5. c.prog = "echo" => sh[r].input = sh[r].left + pipe[r].in + c.left + pipe[r].out + sh[r].out
      BY <1>1, <1>2, <2>1 DEF RunnerOK, EchoOK
    <2>6. c.prog = "echo" /\ c.state = "zombie" /\ c.code = 0 /\ broken[r] = {} =>
             sh[r].left = 0 /\ pipe[r].in = 0 /\ c.left = 0
      BY <1>1, <2>1, <2>2 DEF RunnerOK, EchoOK
    <2>7. Program \notin ends'[inW(r)] => sh[r].left = 0
      BY <1>7, <2>4
    <2>8. QED
      BY <1>4, <1>9, <2>1, <2>3, <2>4, <2>5, <2>6, <2>7 DEF EchoOK, Alive
  <1>13. ShellEndsKept(r)
    BY ShellNames, ShellOwnEnds DEF ShellEndsKept, ParentStep
  <1>14. QED
    BY <1>4, <1>5, <1>8, <1>10, <1>11, <1>12, <1>13, ShellOthersKeep DEF RunnerOK

LEMMA ParentIInv ==
  ASSUME ShellIInv, NEW r \in Runners, Parent(r)
  PROVE  ShellIInv'
  <1> DEFINE closed == Closed(Program, {outW(r), inR(r)}, ends)
  <1>1. /\ ShellTypeOK /\ RunnerOK(r) /\ ends \in ShellEndSets /\ sh[r] \in ShRecords /\ proc[r] \in ProcRecords
        /\ caller[r] = "parent" /\ monitor' = [monitor EXCEPT ![r] = "poll"]
        /\ UNCHANGED <<pipe, pid, broken, survives>>
    BY ShellKnown DEF Parent
  <1>2. /\ closed \in ShellEndSets
        /\ \A e \in AllEnds : \A x : x \in closed[e] <=> x \in ends[e] /\ ~(x = Program /\ e \in {outW(r), inR(r)})
    BY <1>1, ShellClosedEnds
  <1>3. /\ thread[r] = "none" /\ ~sh[r].running /\ proc[r].state \in {"forked", "running", "zombie"}
        /\ Child(r) # Program
    BY <1>1, ShellTypes, ShellNames DEF RunnerOK, PhaseOK, ProcOK
  <1>4. CASE /\ thread' = [thread EXCEPT ![r] = "live"]
             /\ sh' = [sh EXCEPT ![r].running = TRUE]
             /\ caller' = [caller EXCEPT ![r] = "idle"]
             /\ ends' = closed /\ UNCHANGED proc
    <2> HIDE DEF closed
    <2> DEFINE d == [sh[r] EXCEPT !.running = TRUE]
    <2>1. /\ d \in ShRecords /\ d.running
          /\ d.finished = sh[r].finished /\ d.stdin = sh[r].stdin /\ d.exitcode = sh[r].exitcode
          /\ d.input = sh[r].input /\ d.left = sh[r].left /\ d.out = sh[r].out
      BY <1>1, ShRunning
    <2>2. sh' = [sh EXCEPT ![r] = d] /\ proc' = [proc EXCEPT ![r] = proc[r]]
      BY <1>1, <1>4, ShellTypes
    <2> HIDE DEF d
    <2>3. ParentStep(r, d, proc[r], "idle", "live")
      BY <1>1, <1>2, <1>3, <1>4, <2>1, <2>2 DEF ParentStep
    <2>4. QED
      BY <2>3, ParentStepIInv
  <1>5. CASE /\ KillGroup(r, closed)
             /\ caller' = [caller EXCEPT ![r] = "monitor"]
             /\ UNCHANGED <<sh, thread>>
    <2>1. /\ ends' \in ShellEndSets
          /\ \A e \in AllEnds : \A x : x \in ends'[e] <=> x \in closed[e] /\ x # Kid(r) /\ x # Child(r)
      BY <1>2, <1>5, ShellKilledEnds
    <2> HIDE DEF closed
    <2> DEFINE d == WithoutGroup(r)
    <2>2. /\ d \in ProcRecords /\ d.state = "zombie" /\ d.code = (IF Alive(r) THEN -1 ELSE proc[r].code)
          /\ d.prog = proc[r].prog /\ d.left = proc[r].left
      BY <1>3, ShellKilledChild DEF Alive
    <2>3. proc' = [proc EXCEPT ![r] = d]
      BY <1>5 DEF KillGroup
    <2> HIDE DEF d
    <2>4. d.code = -1 \/ (d.state = proc[r].state /\ d.code = proc[r].code)
      BY <1>3, <2>2 DEF Alive
    <2>5. sh' = [sh EXCEPT ![r] = sh[r]] /\ thread' = [thread EXCEPT ![r] = "none"]
      BY <1>1, <1>3, <1>5, ShellTypes
    <2>6. ParentStep(r, sh[r], d, "monitor", "none")
      BY <1>1, <1>2, <1>3, <1>5, <2>1, <2>2, <2>3, <2>4, <2>5 DEF ParentStep
    <2>7. QED
      BY <2>6, ParentStepIInv
  <1>6. CASE /\ caller' = [caller EXCEPT ![r] = "monitor"]
             /\ ends' = closed
             /\ UNCHANGED <<sh, thread, proc>>
    <2> HIDE DEF closed
    <2>1. /\ sh' = [sh EXCEPT ![r] = sh[r]] /\ thread' = [thread EXCEPT ![r] = "none"]
          /\ proc' = [proc EXCEPT ![r] = proc[r]]
      BY <1>1, <1>3, <1>6, ShellTypes
    <2>2. ParentStep(r, sh[r], proc[r], "monitor", "none")
      BY <1>1, <1>2, <1>3, <1>6, <2>1 DEF ParentStep
    <2>3. QED
      BY <2>2, ParentStepIInv
  <1>7. QED
    BY <1>4, <1>5, <1>6 DEF Parent, StartMethod
-----------------------------------------------------------------------------
(* MonitorProcess. Its step may take the input or the output further on    *)
(* and may close either: without a failure the input only when all of it   *)
(* was written or nobody can read it any more, the output only at its end. *)
MonitorStep(r, d, p, E, B) ==
  /\ Polling(r)
  /\ d \in ShRecords /\ sh' = [sh EXCEPT ![r] = d]
  /\ d.running = sh[r].running /\ d.finished = sh[r].finished /\ d.stdin = sh[r].stdin
  /\ d.exitcode = sh[r].exitcode /\ d.input = sh[r].input
  /\ p \in PipeRecords /\ pipe' = [pipe EXCEPT ![r] = p]
  /\ d.left + p.in + p.out + d.out = sh[r].left + pipe[r].in + pipe[r].out + sh[r].out
  /\ sh[r].left = 0 => d.left = 0 /\ p.in = pipe[r].in
  /\ ~sh[r].stdin => p.in = pipe[r].in
  /\ pipe[r].out = 0 => p.out = 0
  /\ E \in SUBSET {inW(r), outR(r)} /\ ends' = Closed(Program, E, ends)
  /\ B \in SUBSET MonitorCalls /\ broken[r] \subseteq B /\ broken' = [broken EXCEPT ![r] = B]
  /\ inW(r) \in E /\ Alive(r) /\ B = {} => d.left = 0
  /\ outR(r) \in E /\ {"poll", "read"} \cap B = {} => proc[r].state = "zombie" /\ p.out = 0
  /\ UNCHANGED <<caller, thread, monitor, proc, pid, survives>>

LEMMA MonitorIInv ==
  ASSUME ShellIInv, NEW r \in Runners, NEW d, NEW p, NEW E, NEW B, MonitorStep(r, d, p, E, B)
  PROVE  ShellIInv'
  <1>1. ShellTypeOK /\ RunnerOK(r) /\ ends \in ShellEndSets /\ Ends(r) \subseteq AllEnds /\ monitor[r] = "poll"
    BY ShellKnown DEF MonitorStep, Polling
  <1> USE DEF MonitorStep
  <1>2. ends' \in ShellEndSets /\ \A e \in AllEnds : \A x : x \in ends'[e] <=> x \in ends[e] /\ ~(x = Program /\ e \in E)
    BY <1>1, ShellClosedEnds
  <1>3. sh'[r] = d /\ pipe'[r] = p /\ broken'[r] = B /\ OthersKept(r)
    BY <1>1, ShellTypes DEF OthersKept, AllCalls
  <1>4. ShellTypeOK'
    <2>1. sh' \in [Runners -> ShRecords] /\ pipe' \in [Runners -> PipeRecords] /\ broken' \in AllCalls
      BY <1>1, ShellTypes DEF AllCalls
    <2>2. QED
      BY <1>1, <1>2, <2>1, ShellTypes, ShellTypesKept
  <1>5. PhaseOK(r)'
    BY <1>1, <1>3 DEF RunnerOK, PhaseOK
  <1>6. caller[r] \notin StartPlaces \cup {"parent"} /\ ~sh[r].finished
    BY <1>1, ShellTypes DEF RunnerOK, PhaseOK, StartPlaces
  <1>7. ProcOK(r)'
    <2>1. Program \notin ends'[outR(r)] <=> Program \notin ends[outR(r)] \/ outR(r) \in E
      BY <1>1, <1>2, ShellOwnEnds
    <2>2. ({"poll", "read"} \cap B = {}) => ~OutputLost(r)
      BY DEF OutputLost
    <2>3. Program \notin ends'[outR(r)] /\ {"poll", "read"} \cap B = {} => proc[r].state = "zombie" /\ p.out = 0
      BY <1>1, <2>1, <2>2 DEF RunnerOK, ProcOK
    <2>4. proc[r].state \in {"forked", "running", "zombie"} /\ sh[r].exitcode = -1 /\ (Alive(r) => proc[r].code = 0)
      BY <1>1, <1>6 DEF RunnerOK, ProcOK
    <2>5. QED
      BY <1>1, <1>3, <1>6, <2>3, <2>4 DEF ProcOK, OutputLost, Alive
  <1>8. HoldsOK(r)'
    <2>1. MayHold(r)' = MayHold(r) /\ (Alive(r)' <=> Alive(r))
      BY <1>3 DEF MayHold, Alive
    <2>2. \A e \in Ends(r) : Program \in ends'[e] => Program \in ends[e]
      BY <1>1, <1>2
    <2>3. \A e \in Ends(r) : Child(r) \in ends[e] => Child(r) \in ends'[e]
      BY <1>1, <1>2, ShellNames
    <2>4. \A e \in Ends(r) : Program \in ends'[e] => e \in MayHold(r)'
      <3>1. \A e \in Ends(r) : Program \in ends[e] => e \in MayHold(r)
        BY <1>1 DEF RunnerOK, HoldsOK
      <3>2. QED
        BY <2>1, <2>2, <3>1
    <2>5. caller'[r] = caller[r] /\ caller[r] \notin {"stderr pipe", "stdin pipe", "fork", "parent"}
      BY <1>6 DEF StartPlaces
    <2>6. Alive(r) => Child(r) \in ends'[outW(r)] /\ (sh[r].stdin => Child(r) \in ends'[inR(r)])
      <3>1. Alive(r) => Child(r) \in ends[outW(r)] /\ (sh[r].stdin => Child(r) \in ends[inR(r)])
        BY <1>1 DEF RunnerOK, HoldsOK
      <3>2. outW(r) \in Ends(r) /\ inR(r) \in Ends(r)
        BY ShellOwnEnds
      <3>3. QED
        BY <2>3, <3>1, <3>2, Zenon
    <2>7. QED
      BY <1>1, <1>3, <2>1, <2>4, <2>5, <2>6 DEF HoldsOK
  <1>9. EchoOK(r)'
    <2>1. ~sh[r].stdin => d.left = 0 /\ p.in = 0
      BY <1>1 DEF RunnerOK, EchoOK
    <2>2. B = {} => broken[r] = {}
      OBVIOUS
    <2>3. Alive(r) /\ Program \notin ends'[inW(r)] /\ proc[r].prog = "echo" /\ B = {} => d.left = 0
      BY <1>1, <1>2, <2>2, ShellOwnEnds DEF RunnerOK, EchoOK
    <2>4. /\ d.left \in Nat /\ p.in \in Nat /\ p.out \in Nat /\ d.out \in Nat
          /\ sh[r].left \in Nat /\ pipe[r].in \in Nat /\ pipe[r].out \in Nat /\ sh[r].out \in Nat
          /\ sh[r].input \in Nat /\ proc[r].left \in Nat
      BY ShellKnown DEF ShRecords, PipeRecords
    <2>5. proc[r].prog = "echo" /\ proc[r].state # "none" =>
             d.input = d.left + p.in + proc[r].left + p.out + d.out
      <3>1. proc[r].prog = "echo" /\ proc[r].state # "none" =>
               sh[r].input = sh[r].left + pipe[r].in + proc[r].left + pipe[r].out + sh[r].out
        BY <1>1 DEF RunnerOK, EchoOK
      <3>2. d.input = sh[r].input /\ d.left + p.in + p.out + d.out = sh[r].left + pipe[r].in + pipe[r].out + sh[r].out
        OBVIOUS
      <3>3. QED
        BY <2>4, <3>1, <3>2
    <2>6. proc[r].prog = "echo" /\ proc[r].state \in {"zombie", "reaped"} /\ proc[r].code = 0 /\ B = {} =>
             d.left = 0 /\ p.in = 0 /\ proc[r].left = 0
      BY <1>1, <2>2 DEF RunnerOK, EchoOK
    <2>7. QED
      BY <1>3, <1>6, <2>1, <2>3, <2>5, <2>6 DEF EchoOK, Alive
  <1>10. ShellEndsKept(r)
    BY <1>2, ShellNames, ShellOwnEnds DEF ShellEndsKept
  <1>11. QED
    BY <1>3, <1>4, <1>5, <1>7, <1>8, <1>9, <1>10, ShellOthersKeep DEF RunnerOK

(* Nothing moves: descriptors are closed, after a failure or for a reason. *)
LEMMA CloseFdsIInv ==
  ASSUME ShellIInv, NEW r \in Runners, NEW E \in SUBSET {inW(r), outR(r)}, NEW B \in SUBSET MonitorCalls,
         Polling(r), CloseFds(r, E), broken[r] \subseteq B, broken' = [broken EXCEPT ![r] = B],
         inW(r) \in E /\ Alive(r) /\ B = {} => sh[r].left = 0,
         outR(r) \in E /\ {"poll", "read"} \cap B = {} => proc[r].state = "zombie" /\ pipe[r].out = 0
  PROVE  ShellIInv'
  <1>1. ShellTypeOK /\ sh[r] \in ShRecords /\ pipe[r] \in PipeRecords
    BY ShellKnown
  <1>2. sh' = [sh EXCEPT ![r] = sh[r]] /\ pipe' = [pipe EXCEPT ![r] = pipe[r]]
    BY <1>1, ShellTypes DEF CloseFds
  <1>3. ends' = Closed(Program, E, ends) /\ UNCHANGED <<caller, thread, monitor, proc, pid, survives>>
    BY DEF CloseFds
  <1>4. MonitorStep(r, sh[r], pipe[r], E, B)
    BY <1>1, <1>2, <1>3 DEF MonitorStep
  <1>5. QED
    BY <1>4, MonitorIInv

(* A failure is remembered.                                                *)
LEMMA FailureIInv ==
  ASSUME ShellIInv, NEW r \in Runners, NEW E \in SUBSET {inW(r), outR(r)}, NEW call \in MonitorCalls,
         Polling(r), CloseFds(r, E), Fails(r, call), outR(r) \in E => call \in {"poll", "read"}
  PROVE  ShellIInv'
  <1> DEFINE B == broken[r] \cup {call}
  <1>1. broken[r] \in SUBSET MonitorCalls
    BY ShellKnown
  <1>2. B \in SUBSET MonitorCalls /\ broken[r] \subseteq B /\ call \in B
    BY <1>1
  <1>3. broken' = [broken EXCEPT ![r] = B]
    BY DEF Fails
  <1> HIDE DEF B
  <1>4. QED
    BY <1>2, <1>3, CloseFdsIInv

LEMMA FailingIInv ==
  ASSUME ShellIInv, NEW r \in Runners, Failing(r)
  PROVE  ShellIInv'
  <1>1. CASE PollBreaks(r)
    BY <1>1, FailureIInv DEF PollBreaks, MonitorCalls
  <1>2. CASE ReadFails(r)
    BY <1>2, FailureIInv DEF ReadFails, MonitorCalls
  <1>3. CASE WriteFails(r)
    BY <1>3, FailureIInv, ShellOwnEnds DEF WriteFails, Writable, MonitorCalls
  <1>4. QED
    BY <1>1, <1>2, <1>3 DEF Failing

(* The end of the output: nobody can write any more, so the child, which   *)
(* could, has ended.                                                       *)
LEMMA ReadOutputIInv ==
  ASSUME ShellIInv, NEW r \in Runners, ReadOutput(r)
  PROVE  ShellIInv'
  <1>1. /\ ShellTypeOK /\ RunnerOK(r) /\ ends \in ShellEndSets /\ sh[r] \in ShRecords /\ pipe[r] \in PipeRecords
        /\ sh[r].out \in Nat /\ pipe[r].in \in Nat /\ pipe[r].out \in 0 .. PipeSize
        /\ sh[r].left \in Nat /\ broken[r] \in SUBSET MonitorCalls /\ Polling(r)
    BY ShellKnown DEF ReadOutput, PipeRecords
  <1>2. CASE /\ pipe[r].out > 0
             /\ sh' = [sh EXCEPT ![r].out = @ + 1]
             /\ pipe' = [pipe EXCEPT ![r].out = @ - 1]
             /\ UNCHANGED <<caller, thread, monitor, pid, proc, ends, broken, survives>>
    <2> DEFINE d == [sh[r] EXCEPT !.out = sh[r].out + 1]
               p == [pipe[r] EXCEPT !.out = pipe[r].out - 1]
    <2>1. /\ d \in ShRecords /\ d.out = sh[r].out + 1 /\ d.left = sh[r].left
          /\ d.running = sh[r].running /\ d.finished = sh[r].finished /\ d.stdin = sh[r].stdin
          /\ d.exitcode = sh[r].exitcode /\ d.input = sh[r].input
      BY <1>1, sh[r].out + 1 \in Nat, ShOut
    <2>2. p \in PipeRecords /\ p.in = pipe[r].in /\ p.out = pipe[r].out - 1
      BY <1>1, <1>2, pipe[r].out - 1 \in 0 .. PipeSize, PipeOut
    <2>3. sh' = [sh EXCEPT ![r] = d] /\ pipe' = [pipe EXCEPT ![r] = p]
      BY <1>2
    <2>4. ends' = Closed(Program, {}, ends) /\ broken' = [broken EXCEPT ![r] = broken[r]]
      BY <1>1, <1>2, ShellTypes DEF Closed, ShellEndSets, AllCalls
    <2> HIDE DEF d, p
    <2>5. d.left + p.in + p.out + d.out = sh[r].left + pipe[r].in + pipe[r].out + sh[r].out
      BY <1>1, <2>1, <2>2
    <2>6. MonitorStep(r, d, p, {}, broken[r])
      <3>1. /\ sh[r].left = 0 => d.left = 0 /\ p.in = pipe[r].in
            /\ ~sh[r].stdin => p.in = pipe[r].in
            /\ pipe[r].out = 0 => p.out = 0
        BY <1>2, <2>1, <2>2
      <3>2. Polling(r) /\ UNCHANGED <<caller, thread, monitor, proc, pid, survives>>
        BY <1>1, <1>2
      <3>3. {} \in SUBSET {inW(r), outR(r)} /\ inW(r) \notin {} /\ outR(r) \notin {} /\ broken[r] \subseteq broken[r]
        OBVIOUS
      <3>4. QED
        BY <1>1, <2>1, <2>2, <2>3, <2>4, <2>5, <3>1, <3>2, <3>3, Zenon DEF MonitorStep
    <2>7. QED
      BY <2>6, MonitorIInv
  <1>3. CASE OutEof(r) /\ CloseFds(r, {outR(r)}) /\ UNCHANGED broken
    <2>1. pipe[r].out = 0 /\ ~Alive(r)
      BY <1>1, <1>3 DEF OutEof, RunnerOK, HoldsOK
    <2>2. proc[r].state = "zombie"
      BY <1>1, <2>1 DEF RunnerOK, ProcOK, Polling, Alive
    <2>3. broken' = [broken EXCEPT ![r] = broken[r]]
      BY <1>1, <1>3, ShellTypes DEF AllCalls
    <2>4. QED
      BY <1>1, <1>3, <2>1, <2>2, <2>3, CloseFdsIInv, ShellOwnEnds
  <1>4. QED
    BY <1>2, <1>3 DEF ReadOutput

(* The input is closed: everything was written, or nobody reads it.        *)
LEMMA CloseInputIInv ==
  ASSUME ShellIInv, NEW r \in Runners, Polling(r), InOpen(r), CloseInput(r), sh[r].left = 0 \/ ends[inR(r)] = {}
  PROVE  ShellIInv'
  <1>1. ShellTypeOK /\ RunnerOK(r) /\ broken[r] \in SUBSET MonitorCalls
    BY ShellKnown
  <1>2. Alive(r) => sh[r].left = 0
    BY <1>1 DEF RunnerOK, HoldsOK, EchoOK
  <1>3. broken' = [broken EXCEPT ![r] = broken[r]]
    BY <1>1, ShellTypes DEF CloseInput, AllCalls
  <1>4. QED
    BY <1>1, <1>2, <1>3, CloseFdsIInv, ShellOwnEnds DEF CloseInput

LEMMA InputErrorIInv ==
  ASSUME ShellIInv, NEW r \in Runners, InputError(r)
  PROVE  ShellIInv'
  BY CloseInputIInv DEF InputError

LEMMA WriteInputIInv ==
  ASSUME ShellIInv, NEW r \in Runners, WriteInput(r)
  PROVE  ShellIInv'
  <1>1. /\ ShellTypeOK /\ RunnerOK(r) /\ ends \in ShellEndSets /\ sh[r] \in ShRecords /\ pipe[r] \in PipeRecords
        /\ sh[r].out \in Nat /\ pipe[r].in \in 0 .. PipeSize /\ pipe[r].out \in Nat /\ sh[r].left \in Nat
        /\ Polling(r) /\ InOpen(r) /\ pipe[r].in < PipeSize /\ sh[r].stdin /\ monitor[r] = "poll"
        /\ broken[r] \in SUBSET MonitorCalls
    <2>1. Polling(r) /\ InOpen(r) /\ pipe[r].in < PipeSize /\ monitor[r] = "poll"
      BY DEF WriteInput, Writable, Polling
    <2>2. sh[r].stdin
      BY <2>1, ShellKnown, ShellOwnEnds DEF RunnerOK, PhaseOK, StartPlaces, HoldsOK, MayHold, InOpen
    <2>3. QED
      BY <2>1, <2>2, ShellKnown DEF PipeRecords, ShRecords
  <1>2. CASE (sh[r].left = 0 \/ ends[inR(r)] = {}) /\ CloseInput(r)
    BY <1>1, <1>2, CloseInputIInv
  <1>3. CASE /\ sh[r].left > 0
             /\ sh' = [sh EXCEPT ![r].left = @ - 1]
             /\ pipe' = [pipe EXCEPT ![r].in = @ + 1]
             /\ ends' = IF sh[r].left = 1 THEN Closed(Program, {inW(r)}, ends) ELSE ends
             /\ UNCHANGED <<caller, thread, monitor, pid, proc, broken, survives>>
    <2> DEFINE d == [sh[r] EXCEPT !.left = sh[r].left - 1]
               p == [pipe[r] EXCEPT !.in = pipe[r].in + 1]
               E == IF sh[r].left = 1 THEN {inW(r)} ELSE {}
    <2>1. /\ d \in ShRecords /\ d.out = sh[r].out /\ d.left = sh[r].left - 1
          /\ d.running = sh[r].running /\ d.finished = sh[r].finished /\ d.stdin = sh[r].stdin
          /\ d.exitcode = sh[r].exitcode /\ d.input = sh[r].input
      <3>1. sh[r].left - 1 \in Nat
        BY <1>1, <1>3
      <3>2. sh[r] \in ShRecords
        BY <1>1
      <3>3. QED
        BY <3>1, <3>2, ShLeft
    <2>2. p \in PipeRecords /\ p.in = pipe[r].in + 1 /\ p.out = pipe[r].out
      BY <1>1, pipe[r].in + 1 \in 0 .. PipeSize, PipeIn
    <2>3. sh' = [sh EXCEPT ![r] = d] /\ pipe' = [pipe EXCEPT ![r] = p] /\ broken' = [broken EXCEPT ![r] = broken[r]]
      BY <1>1, <1>3, ShellTypes DEF AllCalls
    <2>4. /\ ends' = Closed(Program, E, ends) /\ E \in SUBSET {inW(r), outR(r)} /\ outR(r) \notin E
          /\ inW(r) \in E => sh[r].left = 1
      BY <1>1, <1>3, ShellOwnEnds DEF Closed, ShellEndSets
    <2> HIDE DEF d, p, E
    <2>5. d.left + p.in + p.out + d.out = sh[r].left + pipe[r].in + pipe[r].out + sh[r].out
      BY <1>1, <2>1, <2>2
    <2>6. MonitorStep(r, d, p, E, broken[r])
      <3>1. /\ sh[r].left = 0 => d.left = 0 /\ p.in = pipe[r].in
            /\ ~sh[r].stdin => p.in = pipe[r].in
            /\ pipe[r].out = 0 => p.out = 0
            /\ inW(r) \in E => d.left = 0
        BY <1>1, <1>3, <2>1, <2>2, <2>4
      <3>2. Polling(r) /\ UNCHANGED <<caller, thread, monitor, proc, pid, survives>>
        BY <1>1, <1>3
      <3>3. broken[r] \subseteq broken[r]
        OBVIOUS
      <3>4. QED
        BY <1>1, <2>1, <2>2, <2>3, <2>4, <2>5, <3>1, <3>2, <3>3, Zenon DEF MonitorStep
    <2>7. QED
      BY <2>6, MonitorIInv
  <1>4. CASE survives' = FALSE /\ UNCHANGED <<sh, caller, thread, monitor, pid, proc, ends, pipe, broken>>
    <2>1. ShellTypeOK'
      BY <1>1, <1>4, ShellTypes, ShellTypesKept
    <2>2. RunnerOK(r)' /\ OthersKept(r) /\ ShellEndsKept(r)
      BY <1>1, <1>4 DEF RunnerOK, PhaseOK, HoldsOK, MayHold, ProcOK, EchoOK, OutputLost, Alive, OthersKept, ShellEndsKept
    <2>3. QED
      BY <2>1, <2>2, ShellOthersKeep
  <1>5. QED
    BY <1>2, <1>3, <1>4 DEF WriteInput

(* waitpid, when the loop has ended: nothing is open, and the output ended *)
(* or was given up.                                                        *)
LEMMA WaitChildIInv ==
  ASSUME ShellIInv, NEW r \in Runners, WaitChild(r)
  PROVE  ShellIInv'
  <1>1. /\ ShellTypeOK /\ RunnerOK(r) /\ sh[r] \in ShRecords /\ proc[r] \in ProcRecords
        /\ monitor[r] = "poll" /\ Program \notin ends[outR(r)] /\ Program \notin ends[inW(r)]
        /\ proc[r].state = "zombie" /\ monitor' = [monitor EXCEPT ![r] = "finish"]
        /\ broken[r] \in SUBSET MonitorCalls /\ UNCHANGED <<caller, thread, ends, pipe, pid, survives>>
    BY ShellKnown DEF WaitChild, Polling, OutOpen, InOpen
  <1>2. /\ caller[r] \notin StartPlaces \cup {"parent"} /\ ~sh[r].finished /\ sh[r].exitcode = -1
        /\ pipe[r].out = 0 \/ OutputLost(r)
    BY <1>1, ShellTypes DEF RunnerOK, PhaseOK, ProcOK, StartPlaces
  <1>3. \A e \in Ends(r) : Program \notin ends[e]
    BY <1>1, <1>2, ShellOwnEnds DEF RunnerOK, HoldsOK, MayHold, StartPlaces
  <1>4. CASE /\ proc' = [proc EXCEPT ![r].state = "reaped"]
             /\ sh' = [sh EXCEPT ![r].exitcode = proc[r].code]
             /\ UNCHANGED broken
    <2> DEFINE d == [sh[r] EXCEPT !.exitcode = proc[r].code]
               c == [proc[r] EXCEPT !.state = "reaped"]
    <2>1. /\ d \in ShRecords /\ d.exitcode = proc[r].code /\ d.finished = sh[r].finished
          /\ d.running = sh[r].running /\ d.stdin = sh[r].stdin
          /\ d.input = sh[r].input /\ d.left = sh[r].left /\ d.out = sh[r].out
      BY <1>1, ShExitcode DEF ProcRecords
    <2>2. /\ c \in ProcRecords /\ c.state = "reaped" /\ c.prog = proc[r].prog /\ c.left = proc[r].left
          /\ c.code = proc[r].code
      BY <1>1, ProcState
    <2>3. sh' = [sh EXCEPT ![r] = d] /\ proc' = [proc EXCEPT ![r] = c]
      BY <1>4
    <2> HIDE DEF d, c
    <2>4. sh'[r] = d /\ proc'[r] = c /\ monitor'[r] = "finish" /\ broken'[r] = broken[r] /\ OthersKept(r)
      BY <1>1, <1>4, <2>3, ShellTypes DEF OthersKept
    <2>5. ShellTypeOK'
      BY <1>1, <1>4, <2>1, <2>2, <2>3, ShellTypes, ShellTypesKept
    <2>6. PhaseOK(r)'
      BY <1>1, <1>2, <2>1, <2>4 DEF RunnerOK, PhaseOK
    <2>7. ProcOK(r)'
      BY <1>1, <1>2, <2>1, <2>2, <2>4 DEF ProcOK, OutputLost, Alive
    <2>8. HoldsOK(r)'
      BY <1>1, <1>2, <1>3, <2>2, <2>4 DEF HoldsOK, StartPlaces, Alive
    <2>9. EchoOK(r)'
      BY <1>1, <1>2, <2>1, <2>2, <2>4 DEF RunnerOK, EchoOK, Alive
    <2>10. QED
      BY <1>1, <2>4, <2>5, <2>6, <2>7, <2>8, <2>9, ShellOthersKeep DEF RunnerOK, ShellEndsKept
  <1>5. CASE Fails(r, "wait") /\ UNCHANGED <<proc, sh>>
    <2> DEFINE B == broken[r] \cup {"wait"}
    <2>1. B \in SUBSET MonitorCalls /\ broken[r] \subseteq B /\ "wait" \in B
      BY <1>1 DEF MonitorCalls
    <2>2. broken' = [broken EXCEPT ![r] = B]
      BY <1>5 DEF Fails
    <2> HIDE DEF B
    <2>3. monitor'[r] = "finish" /\ broken'[r] = B /\ OthersKept(r)
      BY <1>1, <1>5, <2>2, ShellTypes DEF OthersKept, AllCalls
    <2>4. ShellTypeOK'
      <3>1. broken' \in AllCalls
        BY <1>1, <2>1, <2>2, ShellTypes DEF AllCalls
      <3>2. QED
        BY <1>1, <1>5, <3>1, ShellTypes, ShellTypesKept
    <2>5. PhaseOK(r)'
      BY <1>1, <1>2, <1>5, <2>3 DEF RunnerOK, PhaseOK
    <2>6. ProcOK(r)'
      <3>1. OutputLost(r) => OutputLost(r)'
        BY <2>1, <2>3 DEF OutputLost
      <3>2. QED
        BY <1>1, <1>2, <1>5, <2>1, <2>3, <3>1 DEF ProcOK, Alive
    <2>7. HoldsOK(r)'
      BY <1>1, <1>2, <1>3, <1>5, <2>3 DEF HoldsOK, StartPlaces, Alive
    <2>8. EchoOK(r)'
      BY <1>1, <1>2, <1>5, <2>1, <2>3 DEF RunnerOK, EchoOK, Alive
    <2>9. QED
      BY <1>1, <2>3, <2>4, <2>5, <2>6, <2>7, <2>8, ShellOthersKeep DEF RunnerOK, ShellEndsKept
  <1>6. QED
    BY <1>4, <1>5 DEF WaitChild

LEMMA FinishIInv ==
  ASSUME ShellIInv, NEW r \in Runners, Finish(r)
  PROVE  ShellIInv'
  <1> DEFINE d == [sh[r] EXCEPT !.finished = TRUE]
  <1>1. /\ ShellTypeOK /\ RunnerOK(r) /\ sh[r] \in ShRecords /\ monitor[r] = "finish"
        /\ UNCHANGED <<thread, proc, ends, pipe, pid, broken, survives>>
    BY ShellKnown DEF Finish
  <1>2. /\ d \in ShRecords /\ d.finished
        /\ d.running = sh[r].running /\ d.stdin = sh[r].stdin /\ d.exitcode = sh[r].exitcode
        /\ d.input = sh[r].input /\ d.left = sh[r].left /\ d.out = sh[r].out
    BY <1>1, ShFinished
  <1>3. sh' = [sh EXCEPT ![r] = d] /\ monitor' = [monitor EXCEPT ![r] = "off"] /\ caller' = [caller EXCEPT ![r] = "idle"]
    BY DEF Finish
  <1> HIDE DEF d
  <1>4. sh'[r] = d /\ monitor'[r] = "off" /\ caller'[r] = "idle" /\ OthersKept(r)
    BY <1>1, <1>3, ShellTypes DEF OthersKept
  <1>5. ShellTypeOK'
    BY <1>1, <1>2, <1>3, ShellTypes, ShellTypesKept DEF ShellPlaces
  <1>6. caller[r] \notin StartPlaces \cup {"parent"}
    BY <1>1 DEF RunnerOK, PhaseOK
  <1>7. PhaseOK(r)' /\ ProcOK(r)' /\ EchoOK(r)'
    BY <1>1, <1>2, <1>4 DEF RunnerOK, PhaseOK, ProcOK, EchoOK, StartPlaces, OutputLost, Alive
  <1>8. HoldsOK(r)'
    <2>1. MayHold(r) = {} /\ ~Alive(r)
      BY <1>1, <1>6 DEF RunnerOK, ProcOK, MayHold, StartPlaces, Alive
    <2>2. QED
      BY <1>1, <1>2, <1>4, <2>1 DEF RunnerOK, HoldsOK, Alive
  <1>9. QED
    BY <1>1, <1>4, <1>5, <1>7, <1>8, ShellOthersKeep DEF RunnerOK, ShellEndsKept

LEMMA ThreadEndsIInv ==
  ASSUME ShellIInv, NEW r \in Runners, ThreadEnds(r)
  PROVE  ShellIInv'
  <1>1. /\ ShellTypeOK /\ RunnerOK(r) /\ monitor[r] = "off" /\ thread[r] = "live"
        /\ thread' = [thread EXCEPT ![r] = "ended"]
        /\ UNCHANGED <<sh, caller, monitor, proc, ends, pipe, pid, broken, survives>>
    BY ShellKnown DEF ThreadEnds
  <1>2. thread'[r] = "ended" /\ OthersKept(r)
    BY <1>1, ShellTypes DEF OthersKept
  <1>3. ShellTypeOK'
    BY <1>1, ShellTypes, ShellTypesKept
  <1>4. PhaseOK(r)'
    BY <1>1, <1>2 DEF RunnerOK, PhaseOK
  <1>5. HoldsOK(r)' /\ ProcOK(r)' /\ EchoOK(r)'
    BY <1>1 DEF RunnerOK, HoldsOK, MayHold, ProcOK, EchoOK, OutputLost, Alive
  <1>6. QED
    BY <1>1, <1>2, <1>3, <1>4, <1>5, ShellOthersKeep DEF RunnerOK, ShellEndsKept
-----------------------------------------------------------------------------
(* The command: what a step of the child or of its child leaves as it was. *)
CommandStep(r, c, p) ==
  /\ c \in ProcRecords /\ proc' = [proc EXCEPT ![r] = c]
  /\ p \in PipeRecords /\ pipe' = [pipe EXCEPT ![r] = p]
  /\ ends' \in ShellEndSets
  /\ \A e \in AllEnds : Program \in ends'[e] <=> Program \in ends[e]
  /\ \A q \in Runners \ {r} : \A e \in Ends(q) : Child(q) \in ends[e] => Child(q) \in ends'[e]
  /\ c.state \in {"forked", "running"} =>
        \A e \in {inR(r), outW(r)} : Child(r) \in ends[e] => Child(r) \in ends'[e]
  /\ \/ c.state = proc[r].state /\ c.code = proc[r].code
     \/ Alive(r) /\ c.state = "running" /\ c.code = proc[r].code
     \/ Alive(r) /\ c.state = "zombie"
  /\ p.in # pipe[r].in \/ p.out # pipe[r].out \/ c.left # proc[r].left => Alive(r)
  /\ pipe[r].in = 0 => p.in = 0
  /\ c.prog = "echo" => /\ proc[r].prog = "echo"
                        /\ p.in + c.left + p.out = pipe[r].in + proc[r].left + pipe[r].out
  /\ Alive(r) /\ c.prog = "echo" /\ c.state = "zombie" /\ c.code = 0 /\ broken[r] = {} =>
        sh[r].left = 0 /\ p.in = 0 /\ c.left = 0
  /\ UNCHANGED <<sh, caller, thread, monitor, pid, broken, survives>>

LEMMA CommandIInv ==
  ASSUME ShellIInv, NEW r \in Runners, NEW c, NEW p, CommandStep(r, c, p)
  PROVE  ShellIInv'
  <1>1. ShellTypeOK /\ RunnerOK(r) /\ Ends(r) \subseteq AllEnds
    BY ShellKnown
  <1>2. proc'[r] = c /\ pipe'[r] = p /\ OthersKept(r) /\ UNCHANGED <<sh, caller, thread, monitor, pid, broken, survives>>
    BY <1>1, ShellTypes DEF OthersKept, CommandStep
  <1>3. ShellTypeOK'
    <2>1. proc' \in [Runners -> ProcRecords] /\ pipe' \in [Runners -> PipeRecords] /\ ends' \in ShellEndSets
      BY <1>1, ShellTypes DEF CommandStep
    <2>2. QED
      BY <1>1, <1>2, <2>1, ShellTypes, ShellTypesKept
  <1>4. (Alive(r)' => Alive(r)) /\ (proc[r].state = "none" <=> c.state = "none")
    BY <1>2 DEF CommandStep, Alive
  <1>5. PhaseOK(r)'
    BY <1>1, <1>2 DEF RunnerOK, PhaseOK
  <1>6. ProcOK(r)'
    <2>1. \A e \in Ends(r) : Program \in ends'[e] <=> Program \in ends[e]
      BY <1>1 DEF CommandStep
    <2>2. CASE Alive(r)
      <3>1. /\ caller[r] \notin StartPlaces /\ monitor[r] # "finish" /\ ~sh[r].finished
            /\ proc[r].code = 0 /\ sh[r].exitcode = -1
            /\ monitor[r] = "poll" /\ Program \notin ends[outR(r)] => OutputLost(r)
        BY <1>1, <2>2 DEF RunnerOK, ProcOK, Alive
      <3>2. c.state \in {"forked", "running", "zombie"} /\ (c.state # "zombie" => c.code = 0)
        BY <2>2, <3>1 DEF CommandStep, Alive
      <3>3. QED
        BY <1>2, <2>1, <3>1, <3>2, ShellOwnEnds DEF ProcOK, OutputLost, Alive
    <2>3. CASE ~Alive(r)
      <3>1. c.state = proc[r].state /\ c.code = proc[r].code /\ p.out = pipe[r].out
        BY <2>3 DEF CommandStep
      <3>2. QED
        BY <1>1, <1>2, <2>1, <2>3, <3>1, ShellOwnEnds DEF RunnerOK, ProcOK, OutputLost, Alive
    <2>4. QED
      BY <2>2, <2>3
  <1>7. HoldsOK(r)'
    <2>1. \A e \in Ends(r) : Program \in ends'[e] <=> Program \in ends[e]
      BY <1>1 DEF CommandStep
    <2>2. MayHold(r)' = MayHold(r)
      BY <1>2 DEF MayHold
    <2>3. Alive(r)' => \A e \in {inR(r), outW(r)} : Child(r) \in ends[e] => Child(r) \in ends'[e]
      BY <1>2 DEF CommandStep, Alive
    <2>4. Alive(r)' => Child(r) \in ends'[outW(r)] /\ (sh[r].stdin => Child(r) \in ends'[inR(r)])
      BY <1>1, <1>4, <2>3 DEF RunnerOK, HoldsOK
    <2>5. /\ \A e \in Ends(r) : Program \in ends'[e] => e \in MayHold(r)'
          /\ caller[r] \in {"stderr pipe", "stdin pipe", "fork", "parent"} => \A e \in MayHold(r)' : Program \in ends'[e]
      BY <1>1, <2>1, <2>2, MayHoldOwn DEF RunnerOK, HoldsOK
    <2>6. caller[r] = "stdin pipe" => sh[r].stdin
      BY <1>1 DEF RunnerOK, HoldsOK
    <2>7. QED
      BY <1>2, <2>4, <2>5, <2>6 DEF HoldsOK
  <1>8. EchoOK(r)'
    <2>1. /\ p.in \in Nat /\ p.out \in Nat /\ c.left \in Nat /\ pipe[r].in \in Nat /\ pipe[r].out \in Nat
          /\ proc[r].left \in Nat /\ sh[r].left \in Nat /\ sh[r].input \in Nat /\ sh[r].out \in Nat
      BY ShellKnown DEF CommandStep, ProcRecords, PipeRecords
    <2>2. caller[r] \in StartPlaces => p.in = 0 /\ sh[r].left = sh[r].input /\ sh[r].out = 0
      BY <1>1 DEF CommandStep, RunnerOK, EchoOK
    <2>3. ~sh[r].stdin => sh[r].left = 0 /\ p.in = 0
      BY <1>1 DEF CommandStep, RunnerOK, EchoOK
    <2>4. c.prog = "echo" /\ c.state # "none" => sh[r].input = sh[r].left + p.in + c.left + p.out + sh[r].out
      <3>1. SUFFICES ASSUME c.prog = "echo", c.state # "none"
                     PROVE  sh[r].input = sh[r].left + p.in + c.left + p.out + sh[r].out
        OBVIOUS
      <3>2. proc[r].prog = "echo" /\ p.in + c.left + p.out = pipe[r].in + proc[r].left + pipe[r].out
        BY <3>1 DEF CommandStep
      <3>3. sh[r].input = sh[r].left + pipe[r].in + proc[r].left + pipe[r].out + sh[r].out
        BY <1>1, <1>4, <3>1, <3>2 DEF RunnerOK, EchoOK
      <3>4. QED
        BY <2>1, <3>2, <3>3
    <2>5. c.prog = "echo" /\ Alive(r)' /\ Program \notin ends'[inW(r)] /\ broken[r] = {} => sh[r].left = 0
      BY <1>1, <1>4, ShellOwnEnds DEF CommandStep, RunnerOK, EchoOK
    <2>6. c.prog = "echo" /\ c.state \in {"zombie", "reaped"} /\ c.code = 0 /\ broken[r] = {} =>
             sh[r].left = 0 /\ p.in = 0 /\ c.left = 0
      <3>1. CASE Alive(r)
        BY <3>1 DEF CommandStep, Alive
      <3>2. CASE ~Alive(r)
        BY <1>1, <3>2 DEF CommandStep, RunnerOK, EchoOK
      <3>3. QED
        BY <3>1, <3>2
    <2>7. QED
      BY <1>2, <2>2, <2>3, <2>4, <2>5, <2>6 DEF EchoOK
  <1>9. ShellEndsKept(r)
    BY ShellNames DEF ShellEndsKept, CommandStep
  <1>10. QED
    BY <1>2, <1>3, <1>5, <1>6, <1>7, <1>8, <1>9, ShellOthersKeep DEF RunnerOK

LEMMA ExitChildIInv ==
  ASSUME ShellIInv, NEW r \in Runners, NEW code \in {-1, 0, 127}, ExitChild(r, code), Alive(r),
         code = 0 /\ proc[r].prog = "echo" /\ broken[r] = {} => sh[r].left = 0 /\ pipe[r].in = 0 /\ proc[r].left = 0
  PROVE  ShellIInv'
  <1> DEFINE c == [proc[r] EXCEPT !.state = "zombie", !.code = code]
  <1>1. ShellTypeOK /\ ends \in ShellEndSets /\ proc[r] \in ProcRecords /\ pipe[r] \in PipeRecords
    BY ShellKnown
  <1>2. /\ proc' = [proc EXCEPT ![r] = c] /\ ends' = Exited(Child(r), ends)
        /\ UNCHANGED <<sh, caller, thread, monitor, pipe, pid, broken, survives>>
    BY DEF ExitChild, SetProc, Frame
  <1>3. c \in ProcRecords
    <2>1. code \in ExitCodes
      BY DEF ExitCodes
    <2>2. QED
      BY <1>1, <2>1, Zenon DEF ProcRecords
  <1>4. c.state = "zombie" /\ c.code = code /\ c.prog = proc[r].prog /\ c.left = proc[r].left
    BY <1>1 DEF ProcRecords
  <1> HIDE DEF c
  <1>5. ends' \in ShellEndSets /\ \A e \in AllEnds : \A x : x \in ends'[e] <=> x \in ends[e] /\ x # Child(r)
    BY <1>1, <1>2, ShellExitedEnds
  <1>6. pipe' = [pipe EXCEPT ![r] = pipe[r]]
    BY <1>1, <1>2, ShellTypes
  <1>7. \A e \in AllEnds : Program \in ends'[e] <=> Program \in ends[e]
    BY <1>5, ShellNames
  <1>8. \A q \in Runners \ {r} : \A e \in Ends(q) : Child(q) \in ends[e] => Child(q) \in ends'[e]
    BY <1>5, ShellNames
  <1>9. CommandStep(r, c, pipe[r])
    BY <1>1, <1>2, <1>3, <1>4, <1>5, <1>6, <1>7, <1>8 DEF CommandStep
  <1>10. QED
    BY <1>9, CommandIInv

LEMMA ExecIInv ==
  ASSUME ShellIInv, NEW r \in Runners, Exec(r)
  PROVE  ShellIInv'
  <1>1. ShellTypeOK /\ ends \in ShellEndSets /\ proc[r] \in ProcRecords /\ pipe[r] \in PipeRecords /\ Alive(r)
    BY ShellKnown DEF Exec, Alive
  <1>2. CASE ExitChild(r, 127)
    BY <1>1, <1>2, ExitChildIInv
  <1>3. CASE /\ SetProc(r, [proc[r] EXCEPT !.state = "running"])
             /\ ends' = Closed(Child(r), {inW(r), outR(r)}, ends)
             /\ Frame /\ UNCHANGED pipe
    <2> DEFINE c == [proc[r] EXCEPT !.state = "running"]
    <2>1. /\ c \in ProcRecords /\ c.state = "running" /\ c.prog = proc[r].prog /\ c.left = proc[r].left
          /\ c.code = proc[r].code
      BY <1>1, ProcState
    <2>2. proc' = [proc EXCEPT ![r] = c] /\ UNCHANGED <<sh, caller, thread, monitor, pipe, pid, broken, survives>>
      BY <1>3 DEF SetProc, Frame
    <2> HIDE DEF c
    <2>3. /\ ends' \in ShellEndSets
          /\ \A e \in AllEnds : \A x : x \in ends'[e] <=> x \in ends[e] /\ ~(x = Child(r) /\ e \in {inW(r), outR(r)})
      BY <1>1, <1>3, ShellClosedEnds
    <2>4. pipe' = [pipe EXCEPT ![r] = pipe[r]]
      BY <1>1, <2>2, ShellTypes
    <2>5. \A e \in AllEnds : Program \in ends'[e] <=> Program \in ends[e]
      BY <2>3, ShellNames
    <2>6. /\ \A q \in Runners \ {r} : \A e \in Ends(q) : Child(q) \in ends[e] => Child(q) \in ends'[e]
          /\ \A e \in {inR(r), outW(r)} : Child(r) \in ends[e] => Child(r) \in ends'[e]
      BY <2>3, ShellNames, ShellOwnEnds
    <2>7. CommandStep(r, c, pipe[r])
      BY <1>1, <2>1, <2>2, <2>3, <2>4, <2>5, <2>6 DEF CommandStep
    <2>8. QED
      BY <2>7, CommandIInv
  <1>4. QED
    BY <1>2, <1>3 DEF Exec

LEMMA ReadInputIInv ==
  ASSUME ShellIInv, NEW r \in Runners, ReadInput(r)
  PROVE  ShellIInv'
  <1> DEFINE c == [proc[r] EXCEPT !.left = 1]
             p == [pipe[r] EXCEPT !.in = pipe[r].in - 1]
  <1>1. /\ proc[r] \in ProcRecords /\ pipe[r] \in PipeRecords /\ Alive(r) /\ proc[r].state = "running"
        /\ ends \in ShellEndSets /\ pipe[r].in > 0 /\ proc[r].left = 0 /\ pipe[r].in \in 0 .. PipeSize /\ pipe[r].out \in Nat
    BY ShellKnown DEF ReadInput, Alive, PipeRecords
  <1>2. /\ proc' = [proc EXCEPT ![r] = c] /\ pipe' = [pipe EXCEPT ![r] = p]
        /\ UNCHANGED <<sh, caller, thread, monitor, ends, pid, broken, survives>>
    BY DEF ReadInput, SetProc, Frame
  <1>3. c \in ProcRecords /\ c.left = 1 /\ c.state = proc[r].state /\ c.prog = proc[r].prog /\ c.code = proc[r].code
    <2>1. 1 \in 0 .. 1
      OBVIOUS
    <2>2. QED
      BY <1>1, <2>1, ProcLeft
  <1>4. p \in PipeRecords /\ p.in = pipe[r].in - 1 /\ p.out = pipe[r].out
    <2>1. pipe[r].in - 1 \in 0 .. PipeSize
      BY <1>1
    <2>2. QED
      BY <1>1, <2>1, PipeIn
  <1> HIDE DEF c, p
  <1>5. p.in + c.left + p.out = pipe[r].in + proc[r].left + pipe[r].out /\ pipe[r].in # 0
    BY <1>1, <1>3, <1>4
  <1>6. /\ \A q \in Runners \ {r} : \A e \in Ends(q) : Child(q) \in ends[e] => Child(q) \in ends'[e]
        /\ \A e \in {inR(r), outW(r)} : Child(r) \in ends[e] => Child(r) \in ends'[e]
    BY <1>2
  <1>7. CommandStep(r, c, p)
    BY <1>1, <1>2, <1>3, <1>4, <1>5, <1>6 DEF CommandStep
  <1>8. QED
    BY <1>7, CommandIInv

LEMMA WriteOutputIInv ==
  ASSUME ShellIInv, NEW r \in Runners, WriteOutput(r)
  PROVE  ShellIInv'
  <1>1. /\ proc[r] \in ProcRecords /\ pipe[r] \in PipeRecords /\ Alive(r) /\ proc[r].state = "running"
        /\ ends \in ShellEndSets /\ proc[r].left > 0 /\ pipe[r].out \in 0 .. PipeSize
        /\ pipe[r].in \in Nat /\ proc[r].left \in 0 .. 1
    BY ShellKnown DEF WriteOutput, Alive, PipeRecords, ProcRecords
  <1>2. CASE ExitChild(r, -1)
    BY <1>1, <1>2, ExitChildIInv
  <1>3. CASE /\ pipe[r].out < PipeSize
             /\ pipe' = [pipe EXCEPT ![r].out = @ + 1]
             /\ SetProc(r, [proc[r] EXCEPT !.left = @ - 1])
             /\ Frame /\ UNCHANGED ends
    <2> DEFINE c == [proc[r] EXCEPT !.left = proc[r].left - 1]
               p == [pipe[r] EXCEPT !.out = pipe[r].out + 1]
    <2>1. /\ proc' = [proc EXCEPT ![r] = c] /\ pipe' = [pipe EXCEPT ![r] = p]
          /\ UNCHANGED <<sh, caller, thread, monitor, ends, pid, broken, survives>>
      BY <1>3 DEF SetProc, Frame
    <2>2. /\ c \in ProcRecords /\ c.left = proc[r].left - 1 /\ c.state = proc[r].state
          /\ c.prog = proc[r].prog /\ c.code = proc[r].code
      <3>1. proc[r].left - 1 \in 0 .. 1
        BY <1>1
      <3>2. QED
        BY <1>1, <3>1, ProcLeft
    <2>3. p \in PipeRecords /\ p.out = pipe[r].out + 1 /\ p.in = pipe[r].in
      <3>1. pipe[r].out + 1 \in 0 .. PipeSize
        BY <1>1, <1>3
      <3>2. QED
        BY <1>1, <3>1, PipeOut
    <2> HIDE DEF c, p
    <2>4. p.in + c.left + p.out = pipe[r].in + proc[r].left + pipe[r].out
      BY <1>1, <2>2, <2>3
    <2>5. /\ \A q \in Runners \ {r} : \A e \in Ends(q) : Child(q) \in ends[e] => Child(q) \in ends'[e]
          /\ \A e \in {inR(r), outW(r)} : Child(r) \in ends[e] => Child(r) \in ends'[e]
      BY <2>1
    <2>6. CommandStep(r, c, p)
      BY <1>1, <2>1, <2>2, <2>3, <2>4, <2>5 DEF CommandStep
    <2>7. QED
      BY <2>6, CommandIInv
  <1>4. QED
    BY <1>2, <1>3 DEF WriteOutput

LEMMA SpawnKidIInv ==
  ASSUME ShellIInv, NEW r \in Runners, SpawnKid(r)
  PROVE  ShellIInv'
  <1> DEFINE c == [proc[r] EXCEPT !.kid = TRUE, !.prog = "quit"]
  <1>1. /\ ShellTypeOK /\ proc[r] \in ProcRecords /\ pipe[r] \in PipeRecords /\ ends \in ShellEndSets
        /\ proc[r].state = "running"
    BY ShellKnown DEF SpawnKid
  <1>2. /\ proc' = [proc EXCEPT ![r] = c] /\ ends' = Forked(Child(r), Kid(r), ends)
        /\ UNCHANGED <<sh, caller, thread, monitor, pipe, pid, broken, survives>>
    BY DEF SpawnKid, SetProc, Frame
  <1>3. c \in ProcRecords
    <2>1. TRUE \in BOOLEAN /\ "quit" \in Programs4
      BY DEF Programs4
    <2>2. QED
      BY <1>1, <2>1, Zenon DEF ProcRecords
  <1>4. c.state = proc[r].state /\ c.prog = "quit" /\ c.code = proc[r].code /\ c.left = proc[r].left
    BY <1>1 DEF ProcRecords
  <1> HIDE DEF c
  <1>5. /\ ends' \in ShellEndSets
        /\ \A e \in AllEnds : \A x : x \in ends'[e] <=> x \in ends[e] \/ (x = Kid(r) /\ Child(r) \in ends[e])
    BY <1>1, <1>2, ShellForkedEnds, ShellNames
  <1>6. pipe' = [pipe EXCEPT ![r] = pipe[r]]
    BY <1>1, <1>2, ShellTypes
  <1>7. \A e \in AllEnds : Program \in ends'[e] <=> Program \in ends[e]
    BY <1>5, ShellNames
  <1>8. /\ \A q \in Runners \ {r} : \A e \in Ends(q) : Child(q) \in ends[e] => Child(q) \in ends'[e]
        /\ \A e \in {inR(r), outW(r)} : Child(r) \in ends[e] => Child(r) \in ends'[e]
    BY <1>5, ShellNames, ShellOwnEnds
  <1>9. CommandStep(r, c, pipe[r])
    BY <1>1, <1>2, <1>3, <1>4, <1>5, <1>6, <1>7, <1>8 DEF CommandStep
  <1>10. QED
    BY <1>9, CommandIInv

(* An echo ends when its input ends: nobody can write to it, and that      *)
(* includes the program, which therefore has written it all.               *)
LEMMA ExitIInv ==
  ASSUME ShellIInv, NEW r \in Runners, Exit(r)
  PROVE  ShellIInv'
  <1>1. RunnerOK(r) /\ Alive(r) /\ ExitChild(r, 0) /\ proc[r].left = 0
    BY ShellKnown DEF Exit, Alive
  <1>2. proc[r].prog = "echo" /\ broken[r] = {} => sh[r].left = 0 /\ pipe[r].in = 0
    <2>1. CASE sh[r].stdin
      BY <1>1, <2>1 DEF Exit, InputEnds, RunnerOK, EchoOK
    <2>2. CASE ~sh[r].stdin
      BY <1>1, <2>2 DEF RunnerOK, EchoOK, Alive
    <2>3. QED
      BY <2>1, <2>2
  <1>3. QED
    BY <1>1, <1>2, ExitChildIInv

LEMMA KidExitIInv ==
  ASSUME ShellIInv, NEW r \in Runners, KidExit(r)
  PROVE  ShellIInv'
  <1> DEFINE c == [proc[r] EXCEPT !.kid = FALSE]
  <1>1. /\ ShellTypeOK /\ RunnerOK(r) /\ proc[r] \in ProcRecords /\ pipe[r] \in PipeRecords /\ ends \in ShellEndSets
        /\ proc[r].left \in Nat /\ pipe[r].in \in Nat /\ pipe[r].out \in Nat
    BY ShellKnown
  <1>2. /\ proc' = [proc EXCEPT ![r] = c] /\ ends' = Exited(Kid(r), ends)
        /\ UNCHANGED <<sh, caller, thread, monitor, pipe, pid, broken, survives>>
    BY DEF KidExit, SetProc, Frame
  <1>3. c \in ProcRecords /\ c.state = proc[r].state /\ c.prog = proc[r].prog /\ c.left = proc[r].left /\ c.code = proc[r].code
    BY <1>1, ProcKid
  <1> HIDE DEF c
  <1>4. ends' \in ShellEndSets /\ \A e \in AllEnds : \A x : x \in ends'[e] <=> x \in ends[e] /\ x # Kid(r)
    BY <1>1, <1>2, ShellExitedEnds
  <1>5. pipe' = [pipe EXCEPT ![r] = pipe[r]]
    BY <1>1, <1>2, ShellTypes
  <1>6. \A e \in AllEnds : Program \in ends'[e] <=> Program \in ends[e]
    BY <1>4, ShellNames
  <1>7. /\ \A q \in Runners \ {r} : \A e \in Ends(q) : Child(q) \in ends[e] => Child(q) \in ends'[e]
        /\ \A e \in {inR(r), outW(r)} : Child(r) \in ends[e] => Child(r) \in ends'[e]
    BY <1>4, ShellNames, ShellOwnEnds
  <1>8. ~(Alive(r) /\ c.state = "zombie")
    BY <1>3 DEF Alive
  <1>9. CommandStep(r, c, pipe[r])
    BY <1>1, <1>2, <1>3, <1>4, <1>5, <1>6, <1>7, <1>8 DEF CommandStep
  <1>10. QED
    BY <1>9, CommandIInv
-----------------------------------------------------------------------------
LEMMA ShellStepIInv == ShellIInv /\ [ShellNext]_shellVars => ShellIInv'
  <1> SUFFICES ASSUME ShellIInv, [ShellNext]_shellVars PROVE ShellIInv'
    OBVIOUS
  <1>1. ASSUME NEW r \in Runners, Call(r) PROVE ShellIInv'
    <2>1. ASSUME NEW background \in BOOLEAN, NEW stdin \in BOOLEAN, NEW input \in Inputs,
                 ~stdin => input = 0, Execute(r, background, input, stdin)
          PROVE  ShellIInv'
      BY <2>1, ExecuteIInv
    <2>2. CASE UNCHANGED shellVars
      BY <2>2, ShellStutter
    <2>3. QED
      BY <1>1, <2>1, <2>2, KillIInv, FinishedIInv DEF Call, Declined
  <1>2. ASSUME NEW r \in Runners, Starting(r) PROVE ShellIInv'
    BY <1>2, OpenPipesIInv, ForkIInv, ParentIInv DEF Starting
  <1>3. ASSUME NEW r \in Runners, Monitoring(r) PROVE ShellIInv'
    BY <1>3, ReadOutputIInv, WriteInputIInv, InputErrorIInv, WaitChildIInv, FinishIInv, ThreadEndsIInv,
       FailingIInv DEF Monitoring, Serving
  <1>4. ASSUME NEW r \in Runners, Command(r) PROVE ShellIInv'
    BY <1>4, ExecIInv, ReadInputIInv, WriteOutputIInv, SpawnKidIInv, ExitIInv, KidExitIInv DEF Command, Works
  <1>5. CASE UNCHANGED shellVars
    BY <1>5, ShellStutter
  <1>6. QED
    BY <1>1, <1>2, <1>3, <1>4, <1>5 DEF ShellNext

LEMMA ShellIInvHolds == ShellSpec => []ShellIInv
  BY ShellInitIInv, ShellStepIInv, PTL DEF ShellSpec

LEMMA ShellIInvNothingLeft == ShellIInv => NothingLeftOver
  <1> SUFFICES ASSUME ShellIInv, NEW r \in Runners, sh[r].finished
               PROVE  /\ \A e \in Ends(r) : Program \notin ends[e]
                      /\ proc[r].state \in {"none", "reaped"} \/ ("wait" \in broken[r] /\ sh[r].exitcode = -1)
                      /\ pipe[r].out = 0 \/ {"poll", "read"} \cap broken[r] # {}
    BY DEF NothingLeftOver
  <1>1. RunnerOK(r) /\ caller[r] = "idle" /\ monitor[r] = "off"
    BY ShellKnown DEF RunnerOK, PhaseOK
  <1>2. MayHold(r) = {}
    BY <1>1 DEF MayHold
  <1>3. \A e \in Ends(r) : Program \notin ends[e]
    BY <1>1, <1>2 DEF RunnerOK, HoldsOK
  <1>4. QED
    BY <1>1, <1>3 DEF RunnerOK, ProcOK, OutputLost

LEMMA ShellIInvEcho == ShellIInv => EchoCaptured
  <1> SUFFICES ASSUME ShellIInv, NEW r \in Runners, sh[r].finished, proc[r].state = "reaped",
                      proc[r].prog = "echo", sh[r].exitcode = 0
               PROVE  sh[r].out <= sh[r].input /\ (broken[r] = {} => sh[r].out = sh[r].input)
    BY DEF EchoCaptured
  <1>1. /\ RunnerOK(r) /\ sh[r].input \in Nat /\ sh[r].out \in Nat /\ sh[r].left \in Nat
        /\ pipe[r].in \in Nat /\ pipe[r].out \in Nat /\ proc[r].left \in Nat
    BY ShellKnown
  <1>2. sh[r].input = sh[r].left + pipe[r].in + proc[r].left + pipe[r].out + sh[r].out
    BY <1>1 DEF RunnerOK, EchoOK
  <1>3. broken[r] = {} => sh[r].left = 0 /\ pipe[r].in = 0 /\ proc[r].left = 0 /\ pipe[r].out = 0
    BY <1>1 DEF RunnerOK, ProcOK, EchoOK, OutputLost
  <1>4. sh[r].out <= sh[r].input
    BY <1>1, <1>2
  <1>5. ASSUME broken[r] = {} PROVE sh[r].out = sh[r].input
    BY <1>1, <1>2, <1>3, <1>5
  <1>6. QED
    BY <1>4, <1>5

LEMMA ShellIInvJoined == ShellIInv => JoinedIsReusable
  BY DEF ShellIInv, RunnerOK, PhaseOK, JoinedIsReusable, Quiet

(* Every field of every runner, child and pipe keeps to its type; the      *)
(* counts of units never go below zero or beyond the size of their pipe.   *)
THEOREM ShellTypeCorrect == ShellSpec => []ShellTypeOK
  BY ShellIInvHolds, PTL DEF ShellIInv

(* When a runner says finished, the program holds no end of its pipes, on  *)
(* every way out of the start, of the poll loop and of waitpid; its child  *)
(* is reaped, or waitpid failed and exitcode says so; and nothing the      *)
(* command wrote is unread, unless poll or read failed.                    *)
THEOREM ShellNothingLeft == ShellSpec => []NothingLeftOver
  BY ShellIInvHolds, ShellIInvNothingLeft, PTL

(* All that an echo that ended by itself was given is in the captured      *)
(* output, however small the pipes are, unless a call of the monitor       *)
(* failed; in no case is a unit of it captured twice.                      *)
THEOREM EchoIsCaptured == ShellSpec => []EchoCaptured
  BY ShellIInvHolds, ShellIInvEcho, PTL

(* A runner without a thread accepts the next command.                     *)
THEOREM JoinedReusable == ShellSpec => []JoinedIsReusable
  BY ShellIInvHolds, ShellIInvJoined, PTL
-----------------------------------------------------------------------------
(* The process runner of the compiler. *)
RunnerPlaces == {"none", "pipes", "errpipe", "execpipe", "cloexec", "fork", "parent", "poll", "abandon", "wait", "execerr", "done"}
RunCalls == {"poll", "read", "wait"}
ChildRecords ==
  [state : {"none", "forked", "running", "zombie", "reaped"}, kid : BOOLEAN,
   status : {"none", "exited", "SIGKILL", "SIGPIPE"}, wrote : 0 .. MaxOutput, execerr : BOOLEAN]
RunRecords == [timed_out : BOOLEAN, failed : SUBSET RunCalls, ok : BOOLEAN, exit_code : Codes]
RunnerEndSets == [AllFds -> SUBSET Holders]

(* The ends of r the program holds while r is at its place.                *)
Output(r) == IF r \in Interactive THEN {} ELSE {readEnd(r), writeEnd(r)}
OpenIn(r) ==
  IF at[r] \in {"errpipe", "execpipe"} THEN Output(r)
  ELSE IF at[r] = "cloexec" THEN Output(r) \cup {execR(r), rawW(r)}
  ELSE IF at[r] \in {"fork", "parent"} THEN Output(r) \cup {execR(r), execW(r)}
  ELSE IF at[r] = "poll" THEN {readEnd(r), execR(r)}
  ELSE IF at[r] \in {"wait", "execerr"} THEN {execR(r)}
  ELSE {}

RunnerAlive(r) == child[r].state \in {"forked", "running"}

EndsOK(r) ==
  /\ \A e \in EndsOf(r) : Caller \in fds[e] <=> e \in OpenIn(r)
  /\ RunnerAlive(r) /\ r \notin Interactive => ChildOf(r) \in fds[writeEnd(r)]

StateOK(r) ==
  /\ at[r] \in {"none", "pipes", "errpipe", "execpipe", "cloexec", "fork"} => child[r].state = "none"
  /\ at[r] \in {"parent", "poll", "abandon", "wait"} => child[r].state \in {"forked", "running", "zombie"}
  /\ at[r] \in {"poll", "abandon"} => r \notin Interactive
  /\ at[r] \in {"wait", "execerr"} /\ r \notin Interactive /\ "read" \notin run[r].failed => ~RunnerAlive(r)
  /\ at[r] = "execerr" => child[r].state = "reaped" \/ "wait" \in run[r].failed
  /\ at[r] = "done" => child[r].state \in {"none", "reaped"} \/ "wait" \in run[r].failed

StatusOK(r) ==
  /\ child[r].status = "none" => child[r].state \in {"none", "forked", "running"}
  /\ child[r].status = "SIGKILL" => run[r].timed_out \/ "poll" \in run[r].failed
  /\ child[r].status = "SIGPIPE" => at[r] \in {"abandon", "done"} \/ "read" \in run[r].failed

OutputOK(r) ==
  /\ unread[r] <= child[r].wrote
  /\ r \in Interactive => unread[r] = 0
  /\ at[r] \in {"wait", "execerr"} => unread[r] = 0 \/ "poll" \in run[r].failed \/ "read" \in run[r].failed

ResultOK(r) ==
  run[r].ok => /\ at[r] = "done" /\ child[r].state = "reaped" /\ ~child[r].execerr
               /\ run[r].exit_code = child[r].status
               /\ (child[r].status = "exited" /\ unread[r] = 0) \/ "read" \in run[r].failed

CallOK(r) == EndsOK(r) /\ StateOK(r) /\ StatusOK(r) /\ OutputOK(r) /\ ResultOK(r)

RunnerIInv == RunnerTypeOK /\ \A r \in Runs : CallOK(r)
-----------------------------------------------------------------------------
(* What the helpers of PipeEnds do, end by end.                            *)
LEMMA RunnerClosedEnds ==
  ASSUME NEW holders \in RunnerEndSets, NEW p, NEW E
  PROVE  /\ Closed(p, E, holders) \in RunnerEndSets
         /\ \A e \in AllFds : \A x : x \in Closed(p, E, holders)[e] <=> x \in holders[e] /\ ~(x = p /\ e \in E)
  BY DEF Closed, RunnerEndSets

LEMMA RunnerExitedEnds ==
  ASSUME NEW holders \in RunnerEndSets, NEW p
  PROVE  /\ Exited(p, holders) \in RunnerEndSets
         /\ \A e \in AllFds : \A x : x \in Exited(p, holders)[e] <=> x \in holders[e] /\ x # p
  BY RunnerClosedEnds DEF Exited, RunnerEndSets

LEMMA RunnerForkedEnds ==
  ASSUME NEW holders \in RunnerEndSets, NEW p, NEW q \in Holders
  PROVE  /\ Forked(p, q, holders) \in RunnerEndSets
         /\ \A e \in AllFds : \A x : x \in Forked(p, q, holders)[e] <=> x \in holders[e] \/ (x = q /\ p \in holders[e])
  BY DEF Forked, RunnerEndSets

LEMMA RunnerOpenedEnds ==
  ASSUME NEW holders \in RunnerEndSets, NEW p \in Holders, NEW E
  PROVE  /\ Opened(p, E, holders) \in RunnerEndSets
         /\ \A e \in AllFds : \A x : x \in Opened(p, E, holders)[e] <=> IF e \in E THEN x = p ELSE x \in holders[e]
  BY DEF Opened, RunnerEndSets

(* The processes are different ones, and so are the ends.                  *)
LEMMA RunnerNames ==
  ASSUME NEW r \in Runs, NEW q \in Runs
  PROVE  /\ Caller \in Holders /\ ChildOf(r) \in Holders /\ Descendant(r) \in Holders
         /\ Caller # ChildOf(r) /\ Caller # Descendant(r) /\ ChildOf(r) # Descendant(q)
         /\ r # q => ChildOf(r) # ChildOf(q)
         /\ EndsOf(r) \subseteq AllFds
         /\ r # q => \A e \in EndsOf(r) : e \notin EndsOf(q)
  <1>1. /\ Caller \in Holders /\ ChildOf(r) \in Holders /\ Descendant(r) \in Holders
        /\ EndsOf(r) \subseteq AllFds
    BY DEF Holders, AllFds
  <1>2. /\ Caller # ChildOf(r) /\ Caller # Descendant(r) /\ ChildOf(r) # Descendant(q)
        /\ r # q => ChildOf(r) # ChildOf(q)
    BY DEF Caller, ChildOf, Descendant
  <1>3. ASSUME NEW e \in EndsOf(r), e \in EndsOf(q) PROVE r = q
    <2>1. e[1] = r
      BY DEF EndsOf, readEnd, writeEnd, rawW, execW, execR
    <2>2. e[1] = q
      BY <1>3 DEF EndsOf, readEnd, writeEnd, rawW, execW, execR
    <2>3. QED
      BY <2>1, <2>2
  <1>4. QED
    BY <1>1, <1>2, <1>3

LEMMA RunnerOwnEnds ==
  ASSUME NEW r \in Runs
  PROVE  /\ EndsOf(r) = {readEnd(r), writeEnd(r), rawW(r), execW(r), execR(r)}
         /\ readEnd(r) # writeEnd(r) /\ readEnd(r) # rawW(r) /\ readEnd(r) # execW(r)
         /\ writeEnd(r) # rawW(r) /\ writeEnd(r) # execW(r) /\ rawW(r) # execW(r)
         /\ execR(r) \notin {readEnd(r), writeEnd(r), rawW(r), execW(r)}
  BY DEF EndsOf, readEnd, writeEnd, rawW, execW, execR

(* The kernel's record of a child, and the locals of a call.               *)
LEMMA ChildState ==
  ASSUME NEW c \in ChildRecords, NEW d, NEW s \in {"none", "forked", "running", "zombie", "reaped"},
         d = [c EXCEPT !.state = s]
  PROVE  /\ d \in ChildRecords /\ d.state = s
         /\ d.status = c.status /\ d.wrote = c.wrote /\ d.execerr = c.execerr
  <1>1. d \in ChildRecords
    BY Zenon DEF ChildRecords
  <1>2. d.state = s /\ d.status = c.status /\ d.wrote = c.wrote /\ d.execerr = c.execerr
    BY DEF ChildRecords
  <1>3. QED
    BY <1>1, <1>2

LEMMA ChildKid ==
  ASSUME NEW c \in ChildRecords, NEW d, NEW b \in BOOLEAN, d = [c EXCEPT !.kid = b]
  PROVE  /\ d \in ChildRecords /\ d.state = c.state
         /\ d.status = c.status /\ d.wrote = c.wrote /\ d.execerr = c.execerr
  <1>1. d \in ChildRecords
    BY Zenon DEF ChildRecords
  <1>2. d.state = c.state /\ d.status = c.status /\ d.wrote = c.wrote /\ d.execerr = c.execerr
    BY DEF ChildRecords
  <1>3. QED
    BY <1>1, <1>2

LEMMA ChildWrote ==
  ASSUME NEW c \in ChildRecords, NEW d, NEW n \in 0 .. MaxOutput, d = [c EXCEPT !.wrote = n]
  PROVE  /\ d \in ChildRecords /\ d.state = c.state
         /\ d.status = c.status /\ d.wrote = n /\ d.execerr = c.execerr
  <1>1. d \in ChildRecords
    BY Zenon DEF ChildRecords
  <1>2. d.state = c.state /\ d.status = c.status /\ d.wrote = n /\ d.execerr = c.execerr
    BY DEF ChildRecords
  <1>3. QED
    BY <1>1, <1>2

LEMMA RunCode ==
  ASSUME NEW c \in RunRecords, NEW d, NEW code \in Codes, d = [c EXCEPT !.exit_code = code]
  PROVE  /\ d \in RunRecords
         /\ d.timed_out = c.timed_out /\ d.failed = c.failed /\ d.ok = c.ok
  <1>1. d \in RunRecords
    BY Zenon DEF RunRecords
  <1>2. d.timed_out = c.timed_out /\ d.failed = c.failed /\ d.ok = c.ok
    BY DEF RunRecords
  <1>3. QED
    BY <1>1, <1>2

LEMMA RunTimedOut ==
  ASSUME NEW c \in RunRecords, NEW d, d = [c EXCEPT !.timed_out = TRUE]
  PROVE  /\ d \in RunRecords /\ d.timed_out
         /\ d.failed = c.failed /\ d.ok = c.ok
  <1>1. d \in RunRecords
    BY Zenon DEF RunRecords
  <1>2. d.timed_out /\ d.failed = c.failed /\ d.ok = c.ok
    BY DEF RunRecords
  <1>3. QED
    BY <1>1, <1>2

LEMMA RunFailed ==
  ASSUME NEW c \in RunRecords, NEW d, NEW call \in RunCalls, d = [c EXCEPT !.failed = c.failed \cup {call}]
  PROVE  d \in RunRecords /\ d.failed = c.failed \cup {call} /\ d.timed_out = c.timed_out /\ d.ok = c.ok
  <1>1. c.failed \cup {call} \in SUBSET RunCalls
    BY DEF RunRecords
  <1>2. d \in RunRecords
    BY <1>1, Zenon DEF RunRecords
  <1>3. d.failed = c.failed \cup {call}
    BY DEF RunRecords
  <1>4. d.timed_out = c.timed_out /\ d.ok = c.ok
    BY DEF RunRecords
  <1>5. QED
    BY <1>2, <1>3, <1>4
-----------------------------------------------------------------------------
HIDE ShellAssumption
USE ProcessRunnerAssumption

LEMMA RunnerTypes ==
  RunnerTypeOK => /\ at \in [Runs -> RunnerPlaces] /\ run \in [Runs -> RunRecords]
                  /\ child \in [Runs -> ChildRecords] /\ fds \in RunnerEndSets /\ unread \in [Runs -> 0 .. MaxOutput]
  BY DEF RunnerTypeOK, RunnerPlaces, RunCalls, RunRecords, ChildRecords, RunnerEndSets

LEMMA RunnerTypesKept ==
  ASSUME at' \in [Runs -> RunnerPlaces], run' \in [Runs -> RunRecords], child' \in [Runs -> ChildRecords],
         fds' \in RunnerEndSets, unread' \in [Runs -> 0 .. MaxOutput]
  PROVE  RunnerTypeOK'
  BY DEF RunnerTypeOK, RunnerPlaces, RunCalls, RunRecords, ChildRecords, RunnerEndSets

LEMMA RunnerInitIInv == RunnerInit => RunnerIInv
  <1> SUFFICES ASSUME RunnerInit PROVE RunnerIInv
    OBVIOUS
  <1> USE DEF RunnerInit
  <1>1. RunnerTypeOK
    <2>1. run \in [Runs -> RunRecords]
      BY Zenon DEF RunRecords, Codes
    <2>2. child \in [Runs -> ChildRecords]
      <3>1. 0 \in 0 .. MaxOutput
        OBVIOUS
      <3>2. QED
        BY <3>1, Zenon DEF ChildRecords
    <2>3. QED
      BY <2>1, <2>2 DEF RunnerTypeOK, RunRecords, RunCalls, ChildRecords
  <1>2. ASSUME NEW r \in Runs PROVE CallOK(r)
    <2>1. /\ at[r] = "none" /\ child[r].state = "none" /\ child[r].status = "none"
          /\ child[r].wrote = 0 /\ unread[r] = 0 /\ ~run[r].ok
      OBVIOUS
    <2>2. \A e \in EndsOf(r) : fds[e] = {}
      BY RunnerNames
    <2>3. QED
      <3>1. EndsOK(r)
        BY <2>1, <2>2 DEF EndsOK, OpenIn, RunnerAlive
      <3>2. QED
        BY <2>1, <3>1 DEF CallOK, StateOK, StatusOK, OutputOK, ResultOK
  <1>3. QED
    BY <1>1, <1>2 DEF RunnerIInv

(* A step of r keeps the ends of the other runs.                           *)
RunnerEndsKept(r) ==
  \A q \in Runs \ {r} : \A e \in EndsOf(q) :
     /\ Caller \in fds'[e] <=> Caller \in fds[e]
     /\ ChildOf(q) \in fds[e] => ChildOf(q) \in fds'[e]

LEMMA RunnerStutter == RunnerIInv /\ UNCHANGED runnerVars => RunnerIInv'
  <1> SUFFICES ASSUME RunnerIInv, UNCHANGED runnerVars PROVE RunnerIInv'
    OBVIOUS
  <1> USE DEF runnerVars
  <1>1. RunnerTypeOK'
    BY DEF RunnerIInv, RunnerTypeOK
  <1>2. ASSUME NEW r \in Runs PROVE CallOK(r)'
    <2>1. CallOK(r)
      BY DEF RunnerIInv
    <2>2. OpenIn(r)' = OpenIn(r) /\ (RunnerAlive(r)' <=> RunnerAlive(r))
      BY DEF OpenIn, RunnerAlive
    <2>3. EndsOK(r)'
      BY <2>1, <2>2 DEF CallOK, EndsOK
    <2>4. StateOK(r)' /\ StatusOK(r)' /\ OutputOK(r)' /\ ResultOK(r)'
      BY <2>1, <2>2 DEF CallOK, StateOK, StatusOK, OutputOK, ResultOK, RunnerAlive
    <2>5. QED
      BY <2>3, <2>4 DEF CallOK
  <1>3. QED
    BY <1>1, <1>2 DEF RunnerIInv

(* A step of run r, its child or its child's child: what it may do to the  *)
(* ends keeps the other runs as they were.                                 *)
LEMMA RunnerOthersKeep ==
  ASSUME RunnerIInv, NEW r \in Runs, RunnerTypeOK', CallOK(r)',
         \A q \in Runs \ {r} : at'[q] = at[q] /\ run'[q] = run[q] /\ child'[q] = child[q] /\ unread'[q] = unread[q],
         RunnerEndsKept(r)
  PROVE  RunnerIInv'
  <1>1. ASSUME NEW q \in Runs \ {r} PROVE CallOK(q)'
    <2>1. CallOK(q)
      BY DEF RunnerIInv
    <2>2. EndsOK(q)'
      <3>1. OpenIn(q)' = OpenIn(q) /\ (RunnerAlive(q)' <=> RunnerAlive(q))
        BY DEF OpenIn, RunnerAlive
      <3>2. QED
        BY <2>1, <3>1, RunnerOwnEnds DEF CallOK, EndsOK, RunnerEndsKept
    <2>3. StateOK(q)' /\ StatusOK(q)' /\ OutputOK(q)' /\ ResultOK(q)'
      BY <2>1 DEF CallOK, StateOK, StatusOK, OutputOK, ResultOK, RunnerAlive
    <2>4. QED
      BY <2>2, <2>3 DEF CallOK
  <1>2. QED
    BY <1>1 DEF RunnerIInv

(* Before the fork and at a return that fails, only the descriptors count. *)
LEMMA AbortIInv ==
  ASSUME RunnerIInv, NEW r \in Runs, NEW from \in {"pipes", "errpipe", "execpipe", "cloexec", "fork"}, NEW fault,
         NEW code \in Codes, Abort(r, from, fault, code)
  PROVE  RunnerIInv'
  <1> DEFINE d == [run[r] EXCEPT !.exit_code = code]
  <1>1. RunnerTypeOK /\ CallOK(r) /\ run[r] \in RunRecords
    BY RunnerTypes DEF RunnerIInv
  <1>2. /\ at[r] = from /\ at' = [at EXCEPT ![r] = "done"] /\ run' = [run EXCEPT ![r] = d]
        /\ fds' = Closed(Caller, EndsOf(r), fds) /\ child' = child /\ unread' = unread
    BY DEF Abort, Move
  <1>3. d \in RunRecords /\ d.ok = run[r].ok
    BY <1>1, RunCode
  <1>4. RunnerTypeOK'
    BY <1>1, <1>2, <1>3, RunnerTypes, RunnerTypesKept, RunnerClosedEnds DEF RunnerPlaces
  <1>5. at'[r] = "done" /\ child'[r] = child[r] /\ run'[r] = d /\ unread'[r] = unread[r]
    BY <1>1, <1>2, RunnerTypes
  <1>6. EndsOK(r)'
    <2>1. \A e \in EndsOf(r) : Caller \notin fds'[e]
      BY <1>1, <1>2, RunnerNames, RunnerClosedEnds, RunnerTypes
    <2>2. ~RunnerAlive(r)' /\ OpenIn(r)' = {}
      BY <1>1, <1>2, <1>5 DEF CallOK, StateOK, RunnerAlive, OpenIn
    <2>3. QED
      BY <2>1, <2>2 DEF EndsOK
  <1>7. CallOK(r)'
    BY <1>1, <1>2, <1>3, <1>5, <1>6 DEF CallOK, StateOK, StatusOK, OutputOK, ResultOK
  <1>8. RunnerEndsKept(r)
    BY <1>1, <1>2, RunnerNames, RunnerClosedEnds, RunnerTypes DEF RunnerEndsKept
  <1>9. QED
    BY <1>1, <1>2, <1>4, <1>7, <1>8, RunnerOthersKeep, RunnerTypes
LEMMA RunIInv ==
  ASSUME RunnerIInv, NEW r \in Runs, NEW args \in BOOLEAN, Run(r, args)
  PROVE  RunnerIInv'
  <1> DEFINE to == IF args THEN "pipes" ELSE "done"
             d  == [run[r] EXCEPT !.exit_code = IF args THEN "none" ELSE "INVALID_ARGS"]
  <1>1. RunnerTypeOK /\ CallOK(r) /\ run[r] \in RunRecords
    BY RunnerTypes DEF RunnerIInv
  <1>2. /\ at[r] = "none" /\ at' = [at EXCEPT ![r] = to] /\ run' = [run EXCEPT ![r] = d]
        /\ fds' = fds /\ child' = child /\ unread' = unread
    BY DEF Run, Move
  <1>3. d \in RunRecords /\ d.ok = run[r].ok
    <2>1. (IF args THEN "none" ELSE "INVALID_ARGS") \in Codes
      BY DEF Codes
    <2>2. QED
      BY <1>1, <2>1, RunCode
  <1>4. RunnerTypeOK'
    BY <1>1, <1>2, <1>3, RunnerTypes, RunnerTypesKept DEF RunnerPlaces
  <1>5. at'[r] \in {"pipes", "done"} /\ child'[r] = child[r] /\ run'[r] = d /\ unread'[r] = unread[r]
    BY <1>1, <1>2, RunnerTypes
  <1>6. CallOK(r)'
    <2>1. EndsOK(r)'
      BY <1>1, <1>2, <1>5 DEF CallOK, StateOK, EndsOK, RunnerAlive, OpenIn
    <2>2. QED
      BY <1>1, <1>2, <1>3, <1>5, <2>1 DEF CallOK, StateOK, StatusOK, OutputOK, ResultOK
  <1>7. RunnerEndsKept(r)
    BY <1>2 DEF RunnerEndsKept
  <1>8. QED
    BY <1>1, <1>2, <1>4, <1>6, <1>7, RunnerOthersKeep, RunnerTypes

(* The steps of the call before the fork that succeed: r goes from one     *)
(* place to the next and the program holds what it holds there.            *)
LEMMA OpenIInv ==
  ASSUME RunnerIInv, NEW r \in Runs, NEW to \in {"errpipe", "execpipe", "cloexec", "fork"},
         at[r] \in {"pipes", "errpipe", "execpipe", "cloexec"}, at' = [at EXCEPT ![r] = to],
         UNCHANGED <<run, child, unread>>, fds' \in RunnerEndSets, RunnerEndsKept(r),
         \A e \in EndsOf(r) : Caller \in fds'[e] <=> e \in OpenIn(r)'
  PROVE  RunnerIInv'
  <1>1. RunnerTypeOK /\ CallOK(r)
    BY DEF RunnerIInv
  <1>2. RunnerTypeOK'
    BY <1>1, RunnerTypes, RunnerTypesKept DEF RunnerPlaces
  <1>3. at'[r] = to /\ child'[r] = child[r] /\ run'[r] = run[r] /\ unread'[r] = unread[r]
    BY <1>1, RunnerTypes
  <1>4. CallOK(r)'
    <2>1. EndsOK(r)'
      BY <1>1, <1>3 DEF CallOK, StateOK, EndsOK, RunnerAlive
    <2>2. QED
      BY <1>1, <1>3, <2>1 DEF CallOK, StateOK, StatusOK, OutputOK, ResultOK
  <1>5. QED
    BY <1>1, <1>2, <1>4, RunnerOthersKeep, RunnerTypes

LEMMA CreatePipesIInv ==
  ASSUME RunnerIInv, NEW r \in Runs, CreatePipes(r)
  PROVE  RunnerIInv'
  <1>1. RunnerTypeOK /\ CallOK(r) /\ fds \in RunnerEndSets
    BY RunnerTypes DEF RunnerIInv
  <1>2. CASE Abort(r, "pipes", "pipe", "PIPE_CREATE") \/ Abort(r, "errpipe", "errpipe", "PIPE_CREATE")
    BY <1>2, AbortIInv DEF Codes
  <1>3. CASE /\ Move(r, "pipes", IF r \in Interactive THEN "execpipe" ELSE "errpipe")
             /\ fds' = IF r \in Interactive THEN fds ELSE Opened(Caller, {readEnd(r), writeEnd(r)}, fds)
             /\ UNCHANGED <<run, child, unread>>
    <2> DEFINE to == IF r \in Interactive THEN "execpipe" ELSE "errpipe"
    <2>1. at[r] = "pipes" /\ at' = [at EXCEPT ![r] = to] /\ at'[r] = to /\ to \in {"errpipe", "execpipe"}
      BY <1>1, <1>3, RunnerTypes DEF Move
    <2> HIDE DEF to
    <2>2. fds' \in RunnerEndSets /\ RunnerEndsKept(r)
      BY <1>1, <1>3, RunnerOpenedEnds, RunnerNames, RunnerOwnEnds DEF RunnerEndsKept
    <2>3. \A e \in EndsOf(r) : Caller \in fds'[e] <=> e \in OpenIn(r)'
      BY <1>1, <1>3, <2>1, RunnerOpenedEnds, RunnerNames, RunnerOwnEnds DEF CallOK, EndsOK, OpenIn, Output
    <2>4. QED
      BY <1>3, <2>1, <2>2, <2>3, OpenIInv
  <1>4. CASE Move(r, "errpipe", "execpipe") /\ UNCHANGED <<run, child, fds, unread>>
    <2>1. at[r] = "errpipe" /\ at' = [at EXCEPT ![r] = "execpipe"] /\ at'[r] = "execpipe" /\ fds' = fds
      BY <1>1, <1>4, RunnerTypes DEF Move
    <2>2. \A e \in EndsOf(r) : Caller \in fds'[e] <=> e \in OpenIn(r)'
      BY <1>1, <2>1 DEF CallOK, EndsOK, OpenIn
    <2>3. RunnerEndsKept(r)
      BY <2>1 DEF RunnerEndsKept
    <2>4. QED
      BY <1>1, <1>4, <2>1, <2>2, <2>3, OpenIInv
  <1>5. QED
    BY <1>2, <1>3, <1>4 DEF CreatePipes

LEMMA PrepareIInv ==
  ASSUME RunnerIInv, NEW r \in Runs, PrepareExecErrorPipe(r)
  PROVE  RunnerIInv'
  <1>1. RunnerTypeOK /\ CallOK(r) /\ fds \in RunnerEndSets
    BY RunnerTypes DEF RunnerIInv
  <1>2. CASE Abort(r, "execpipe", "execpipe", "SETUP")
    BY <1>2, AbortIInv DEF Codes
  <1>3. CASE /\ Move(r, "execpipe", "cloexec")
             /\ fds' = Opened(Caller, {execR(r), rawW(r)}, fds)
             /\ UNCHANGED <<run, child, unread>>
    <2>1. at[r] = "execpipe" /\ at' = [at EXCEPT ![r] = "cloexec"] /\ at'[r] = "cloexec"
      BY <1>1, <1>3, RunnerTypes DEF Move
    <2>2. fds' \in RunnerEndSets /\ RunnerEndsKept(r)
      BY <1>1, <1>3, RunnerOpenedEnds, RunnerNames, RunnerOwnEnds DEF RunnerEndsKept
    <2>3. \A e \in EndsOf(r) : Caller \in fds'[e] <=> e \in OpenIn(r)'
      BY <1>1, <1>3, <2>1, RunnerOpenedEnds, RunnerNames, RunnerOwnEnds DEF CallOK, EndsOK, OpenIn, Output
    <2>4. QED
      BY <1>3, <2>1, <2>2, <2>3, OpenIInv
  <1>4. QED
    BY <1>2, <1>3 DEF PrepareExecErrorPipe

LEMMA SetCloseOnExecIInv ==
  ASSUME RunnerIInv, NEW r \in Runs, SetCloseOnExec(r)
  PROVE  RunnerIInv'
  <1>1. RunnerTypeOK /\ CallOK(r) /\ fds \in RunnerEndSets
    BY RunnerTypes DEF RunnerIInv
  <1>2. CASE Abort(r, "cloexec", "cloexec", "SETUP")
    BY <1>2, AbortIInv DEF Codes
  <1>3. CASE /\ Move(r, "cloexec", "fork")
             /\ fds' = Opened(Caller, {execW(r)}, Closed(Caller, {rawW(r)}, fds))
             /\ UNCHANGED <<run, child, unread>>
    <2>1. at[r] = "cloexec" /\ at' = [at EXCEPT ![r] = "fork"] /\ at'[r] = "fork"
      BY <1>1, <1>3, RunnerTypes DEF Move
    <2> DEFINE holders == Closed(Caller, {rawW(r)}, fds)
    <2>2. holders \in RunnerEndSets /\ \A e \in AllFds : \A x : x \in holders[e] <=> x \in fds[e] /\ ~(x = Caller /\ e = rawW(r))
      BY <1>1, RunnerClosedEnds
    <2> HIDE DEF holders
    <2>3. fds' \in RunnerEndSets /\ \A e \in AllFds : \A x : x \in fds'[e] <=> IF e = execW(r) THEN x = Caller ELSE x \in holders[e]
      <3>1. fds' = Opened(Caller, {execW(r)}, holders) /\ Caller \in Holders
        BY <1>3, RunnerNames DEF holders
      <3>2. QED
        BY <2>2, <3>1, RunnerOpenedEnds
    <2>4. RunnerEndsKept(r)
      BY <2>2, <2>3, RunnerNames, RunnerOwnEnds DEF RunnerEndsKept
    <2>5. \A e \in EndsOf(r) : Caller \in fds'[e] <=> e \in OpenIn(r)'
      BY <1>1, <2>1, <2>2, <2>3, RunnerNames, RunnerOwnEnds DEF CallOK, EndsOK, OpenIn, Output
    <2>6. QED
      BY <1>3, <2>1, <2>3, <2>4, <2>5, OpenIInv
  <1>4. QED
    BY <1>2, <1>3 DEF SetCloseOnExec
-----------------------------------------------------------------------------
LEMMA ForkChildIInv ==
  ASSUME RunnerIInv, NEW r \in Runs, ForkChild(r)
  PROVE  RunnerIInv'
  <1>1. RunnerTypeOK /\ CallOK(r) /\ fds \in RunnerEndSets /\ child[r] \in ChildRecords
    BY RunnerTypes DEF RunnerIInv
  <1>2. CASE Abort(r, "fork", "fork", "FORK")
    BY <1>2, AbortIInv DEF Codes
  <1>3. CASE /\ Move(r, "fork", "parent")
             /\ child' = [child EXCEPT ![r].state = "forked"]
             /\ fds' = Forked(Caller, ChildOf(r), fds)
             /\ UNCHANGED <<run, unread>>
    <2> DEFINE d == [child[r] EXCEPT !.state = "forked"]
    <2>1. /\ at[r] = "fork" /\ at' = [at EXCEPT ![r] = "parent"] /\ at'[r] = "parent"
          /\ child' = [child EXCEPT ![r] = d] /\ child'[r] = d
      BY <1>1, <1>3, RunnerTypes DEF Move
    <2>2. d \in ChildRecords /\ d.state = "forked" /\ d.status = child[r].status /\ d.wrote = child[r].wrote
      BY <1>1, ChildState
    <2>3. fds' \in RunnerEndSets /\ \A e \in AllFds : \A x : x \in fds'[e] <=> x \in fds[e] \/ (x = ChildOf(r) /\ Caller \in fds[e])
      BY <1>1, <1>3, RunnerForkedEnds, RunnerNames
    <2>4. RunnerTypeOK'
      BY <1>1, <1>3, <2>1, <2>2, <2>3, RunnerTypes, RunnerTypesKept DEF RunnerPlaces
    <2>5. RunnerEndsKept(r)
      BY <2>3, RunnerNames DEF RunnerEndsKept
    <2>6. EndsOK(r)'
      BY <1>1, <2>1, <2>3, RunnerNames, RunnerOwnEnds DEF CallOK, EndsOK, OpenIn, Output
    <2>7. CallOK(r)'
      BY <1>1, <1>3, <2>1, <2>2, <2>6 DEF CallOK, StateOK, StatusOK, OutputOK, ResultOK
    <2>8. QED
      BY <1>1, <1>3, <2>1, <2>4, <2>5, <2>7, RunnerOthersKeep, RunnerTypes
  <1>4. QED
    BY <1>2, <1>3 DEF ForkChild

(* The steps that change where r is and what the program holds of its      *)
(* ends.                                                                   *)
LEMMA CloseIInv ==
  ASSUME RunnerIInv, NEW r \in Runs, NEW to \in RunnerPlaces, NEW E, E \subseteq EndsOf(r),
         at' = [at EXCEPT ![r] = to], UNCHANGED <<run, child, unread>>, fds' = Closed(Caller, E, fds),
         OpenIn(r)' = OpenIn(r) \ E, StateOK(r)', StatusOK(r)', OutputOK(r)', ResultOK(r)'
  PROVE  RunnerIInv'
  <1>1. RunnerTypeOK /\ CallOK(r) /\ fds \in RunnerEndSets
    BY RunnerTypes DEF RunnerIInv
  <1>2. fds' \in RunnerEndSets /\ \A e \in AllFds : \A x : x \in fds'[e] <=> x \in fds[e] /\ ~(x = Caller /\ e \in E)
    BY <1>1, RunnerClosedEnds
  <1>3. RunnerTypeOK'
    BY <1>1, <1>2, RunnerTypes, RunnerTypesKept
  <1>4. RunnerEndsKept(r)
    BY <1>2, RunnerNames DEF RunnerEndsKept
  <1>5. EndsOK(r)'
    BY <1>1, <1>2, RunnerNames, RunnerOwnEnds DEF CallOK, EndsOK, RunnerAlive
  <1>6. CallOK(r)'
    BY <1>5 DEF CallOK
  <1>7. QED
    BY <1>1, <1>3, <1>4, <1>6, RunnerOthersKeep, RunnerTypes

LEMMA CloseWriteEndsIInv ==
  ASSUME RunnerIInv, NEW r \in Runs, CloseWriteEnds(r)
  PROVE  RunnerIInv'
  <1>1. RunnerTypeOK /\ CallOK(r) /\ at[r] = "parent" /\ child'[r] = child[r] /\ run'[r] = run[r] /\ unread'[r] = unread[r]
    BY DEF RunnerIInv, CloseWriteEnds, Move
  <1>2. CASE /\ Move(r, "parent", IF r \in Interactive THEN "wait" ELSE "poll")
             /\ fds' = Closed(Caller, {writeEnd(r), execW(r)}, fds)
             /\ UNCHANGED <<run, child, unread>>
    <2> DEFINE to == IF r \in Interactive THEN "wait" ELSE "poll"
    <2>1. to \in RunnerPlaces /\ at' = [at EXCEPT ![r] = to] /\ at'[r] = to
      BY <1>1, <1>2, RunnerTypes DEF Move, RunnerPlaces
    <2>2. OpenIn(r)' = OpenIn(r) \ {writeEnd(r), execW(r)}
      BY <1>1, <2>1, RunnerOwnEnds DEF OpenIn, Output
    <2>3. StateOK(r)' /\ StatusOK(r)' /\ OutputOK(r)' /\ ResultOK(r)'
      BY <1>1, <2>1 DEF CallOK, StateOK, StatusOK, OutputOK, ResultOK
    <2>4. QED
      BY <1>2, <2>1, <2>2, <2>3, RunnerOwnEnds, CloseIInv
  <1>3. CASE /\ r \notin Interactive
             /\ Move(r, "parent", "abandon")
             /\ fds' = Closed(Caller, EndsOf(r), fds)
             /\ UNCHANGED <<run, child, unread>>
    <2>1. "abandon" \in RunnerPlaces /\ at' = [at EXCEPT ![r] = "abandon"] /\ at'[r] = "abandon"
      BY <1>1, <1>3, RunnerTypes DEF Move, RunnerPlaces
    <2>2. OpenIn(r)' = OpenIn(r) \ EndsOf(r)
      BY <1>1, <2>1, RunnerOwnEnds DEF OpenIn, Output
    <2>3. StateOK(r)' /\ StatusOK(r)' /\ OutputOK(r)' /\ ResultOK(r)'
      BY <1>1, <1>3, <2>1 DEF CallOK, StateOK, StatusOK, OutputOK, ResultOK
    <2>4. QED
      BY <1>3, <2>1, <2>2, <2>3, CloseIInv
  <1>4. QED
    BY <1>2, <1>3 DEF CloseWriteEnds

LEMMA ReadPipeDataIInv ==
  ASSUME RunnerIInv, NEW r \in Runs, ReadPipeData(r)
  PROVE  RunnerIInv'
  <1>1. /\ RunnerTypeOK /\ CallOK(r) /\ at[r] = "poll" /\ child'[r] = child[r]
        /\ unread[r] \in Nat /\ child[r] \in ChildRecords /\ run[r] \in RunRecords
    BY RunnerTypes DEF RunnerIInv, ReadPipeData, Move
  <1>a. r \notin Interactive
    BY <1>1 DEF CallOK, StateOK
  <1>2. CASE /\ unread' = [unread EXCEPT ![r] = 0]
             /\ UNCHANGED <<at, run, child, fds>>
    <2>1. RunnerTypeOK'
      BY <1>1, <1>2, RunnerTypes, RunnerTypesKept
    <2>2. unread'[r] = 0 /\ child[r].wrote \in Nat /\ run'[r] = run[r]
      BY <1>1, <1>2, RunnerTypes DEF ChildRecords
    <2>3. EndsOK(r)'
      BY <1>1, <1>2 DEF CallOK, EndsOK, OpenIn, RunnerAlive
    <2>4. CallOK(r)'
      BY <1>1, <1>2, <2>2, <2>3 DEF CallOK, StateOK, StatusOK, OutputOK, ResultOK
    <2>5. RunnerEndsKept(r)
      BY <1>2 DEF RunnerEndsKept
    <2>6. QED
      BY <1>1, <1>2, <2>1, <2>4, <2>5, RunnerOthersKeep, RunnerTypes
  <1>3. CASE /\ unread[r] = 0 /\ fds[writeEnd(r)] = {}
             /\ Move(r, "poll", "wait")
             /\ fds' = Closed(Caller, {readEnd(r)}, fds)
             /\ UNCHANGED <<run, child, unread>>
    <2>1. "wait" \in RunnerPlaces /\ at' = [at EXCEPT ![r] = "wait"] /\ at'[r] = "wait"
      BY <1>1, <1>3, RunnerTypes DEF Move, RunnerPlaces
    <2>2. OpenIn(r)' = OpenIn(r) \ {readEnd(r)}
      BY <1>1, <2>1, RunnerOwnEnds DEF OpenIn
    <2>3. ~RunnerAlive(r)
      BY <1>1, <1>a, <1>3 DEF CallOK, EndsOK
    <2>4. StateOK(r)' /\ StatusOK(r)' /\ OutputOK(r)' /\ ResultOK(r)'
      BY <1>1, <1>a, <1>3, <2>1, <2>3 DEF RunnerAlive, CallOK, StateOK, StatusOK, OutputOK, ResultOK
    <2>5. QED
      BY <1>3, <2>1, <2>2, <2>4, RunnerOwnEnds, CloseIInv
  <1>4. CASE /\ Move(r, "poll", "wait")
             /\ run' = [run EXCEPT ![r].failed = Failed(r, "read")]
             /\ fds' = Closed(Caller, {readEnd(r)}, fds)
             /\ UNCHANGED <<child, unread>>
    <2> DEFINE d == [run[r] EXCEPT !.failed = run[r].failed \cup {"read"}]
    <2>1. d \in RunRecords /\ d.failed = run[r].failed \cup {"read"} /\ d.timed_out = run[r].timed_out /\ d.ok = run[r].ok
      BY <1>1, RunFailed DEF RunCalls
    <2>2. run' = [run EXCEPT ![r] = d] /\ run'[r] = d
      BY <1>1, <1>4, RunnerTypes DEF Failed
    <2> HIDE DEF d
    <2>3. at' = [at EXCEPT ![r] = "wait"] /\ at'[r] = "wait"
      BY <1>1, <1>4, RunnerTypes DEF Move
    <2>4. /\ fds' \in RunnerEndSets
          /\ \A e \in AllFds : \A x : x \in fds'[e] <=> x \in fds[e] /\ ~(x = Caller /\ e \in {readEnd(r)})
      BY <1>1, <1>4, RunnerTypes, RunnerClosedEnds
    <2>5. RunnerTypeOK'
      BY <1>1, <1>4, <2>1, <2>2, <2>3, <2>4, RunnerTypes, RunnerTypesKept DEF RunnerPlaces
    <2>6. RunnerEndsKept(r)
      BY <2>4, RunnerNames, RunnerOwnEnds DEF RunnerEndsKept
    <2>7. EndsOK(r)'
      BY <1>1, <1>4, <2>3, <2>4, RunnerNames, RunnerOwnEnds DEF CallOK, EndsOK, OpenIn, RunnerAlive
    <2>8. StateOK(r)' /\ StatusOK(r)'
      BY <1>1, <1>4, <2>1, <2>2, <2>3 DEF CallOK, StateOK, StatusOK
    <2>9. OutputOK(r)' /\ ResultOK(r)'
      BY <1>1, <1>4, <2>1, <2>2, <2>3 DEF CallOK, OutputOK, ResultOK
    <2>10. CallOK(r)'
      BY <2>7, <2>8, <2>9 DEF CallOK
    <2>11. QED
      BY <1>1, <1>4, <2>2, <2>3, <2>5, <2>6, <2>10, RunnerOthersKeep, RunnerTypes
  <1>5. QED
    BY <1>2, <1>3, <1>4 DEF ReadPipeData
-----------------------------------------------------------------------------
(* The steps of the child, which leave the call where it is.               *)
LEMMA ChildIInv ==
  ASSUME RunnerIInv, NEW r \in Runs, NEW d \in ChildRecords, child' = [child EXCEPT ![r] = d],
         UNCHANGED <<at, run>>, unread' \in [Runs -> 0 .. MaxOutput],
         \A q \in Runs \ {r} : unread'[q] = unread[q],
         fds' \in RunnerEndSets,
         \A e \in AllFds : Caller \in fds'[e] <=> Caller \in fds[e],
         \A q \in Runs \ {r} : \A e \in AllFds : ChildOf(q) \in fds[e] => ChildOf(q) \in fds'[e],
         d.state \in {"forked", "running"} /\ r \notin Interactive => ChildOf(r) \in fds'[writeEnd(r)],
         StateOK(r)', StatusOK(r)', OutputOK(r)', ResultOK(r)'
  PROVE  RunnerIInv'
  <1>1. RunnerTypeOK /\ CallOK(r)
    BY DEF RunnerIInv
  <1>2. RunnerTypeOK'
    BY <1>1, RunnerTypes, RunnerTypesKept
  <1>3. child'[r] = d /\ \A q \in Runs \ {r} : child'[q] = child[q]
    BY <1>1, RunnerTypes
  <1>4. RunnerEndsKept(r)
    BY RunnerNames DEF RunnerEndsKept
  <1>5. EndsOK(r)'
    BY <1>1, <1>3, RunnerNames DEF CallOK, EndsOK, RunnerAlive, OpenIn
  <1>6. CallOK(r)'
    BY <1>5 DEF CallOK
  <1>7. QED
    BY <1>2, <1>3, <1>4, <1>6, RunnerOthersKeep

(* The child ends, whichever way: it no longer holds anything.             *)
LEMMA ChildEndsIInv ==
  ASSUME RunnerIInv, NEW r \in Runs, NEW d \in ChildRecords, child' = [child EXCEPT ![r] = d], RunnerAlive(r),
         d.state = "zombie", d.status # "none", d.status # "SIGKILL",
         d.status = "SIGPIPE" => at[r] \in {"abandon", "done"} \/ "read" \in run[r].failed, d.wrote = child[r].wrote,
         fds' = Exited(ChildOf(r), fds), UNCHANGED <<at, run, unread>>
  PROVE  RunnerIInv'
  <1>1. RunnerTypeOK /\ CallOK(r) /\ fds \in RunnerEndSets
    BY RunnerTypes DEF RunnerIInv
  <1>2. fds' \in RunnerEndSets /\ \A e \in AllFds : \A x : x \in fds'[e] <=> x \in fds[e] /\ x # ChildOf(r)
    BY <1>1, RunnerExitedEnds
  <1>3. child'[r] = d
    BY <1>1, RunnerTypes
  <1>4. StateOK(r)' /\ StatusOK(r)' /\ OutputOK(r)' /\ ResultOK(r)'
    BY <1>1, <1>3 DEF RunnerAlive, CallOK, StateOK, StatusOK, OutputOK, ResultOK
  <1>5. /\ \A e \in AllFds : Caller \in fds'[e] <=> Caller \in fds[e]
        /\ \A q \in Runs \ {r} : \A e \in AllFds : ChildOf(q) \in fds[e] => ChildOf(q) \in fds'[e]
    BY <1>2, RunnerNames
  <1>6. QED
    BY <1>1, <1>2, <1>4, <1>5, RunnerTypes, ChildIInv

LEMMA ExecChildIInv ==
  ASSUME RunnerIInv, NEW r \in Runs, ExecChild(r)
  PROVE  RunnerIInv'
  <1>1. RunnerTypeOK /\ CallOK(r) /\ fds \in RunnerEndSets /\ child[r] \in ChildRecords /\ child[r].state = "forked"
    BY RunnerTypes DEF RunnerIInv, ExecChild
  <1>2. CASE /\ child' = [child EXCEPT ![r].state = "running"]
             /\ fds' = Closed(ChildOf(r), {readEnd(r), execR(r)} \cup {execW(q) : q \in Runs}, fds)
    <2> DEFINE d == [child[r] EXCEPT !.state = "running"]
               E == {readEnd(r), execR(r)} \cup {execW(q) : q \in Runs}
    <2>1. d \in ChildRecords /\ d.state = "running" /\ d.status = child[r].status /\ d.wrote = child[r].wrote
      BY <1>1, ChildState
    <2>2. child' = [child EXCEPT ![r] = d] /\ child'[r] = d
      BY <1>1, <1>2, RunnerTypes
    <2>3. writeEnd(r) \notin E
      BY DEF readEnd, writeEnd, execW, execR
    <2> HIDE DEF E
    <2>4. fds' \in RunnerEndSets /\ \A e \in AllFds : \A x : x \in fds'[e] <=> x \in fds[e] /\ ~(x = ChildOf(r) /\ e \in E)
      BY <1>1, <1>2, RunnerClosedEnds DEF E
    <2>5. /\ \A e \in AllFds : Caller \in fds'[e] <=> Caller \in fds[e]
          /\ \A q \in Runs \ {r} : \A e \in AllFds : ChildOf(q) \in fds[e] => ChildOf(q) \in fds'[e]
      BY <2>4, RunnerNames
    <2>6. r \notin Interactive => ChildOf(r) \in fds'[writeEnd(r)]
      BY <1>1, <2>3, <2>4, RunnerNames, RunnerOwnEnds DEF CallOK, EndsOK, RunnerAlive
    <2>7. UNCHANGED <<at, run, unread>>
      BY DEF ExecChild
    <2>8. StateOK(r)' /\ StatusOK(r)' /\ OutputOK(r)' /\ ResultOK(r)'
      BY <1>1, <2>1, <2>2, <2>7 DEF CallOK, StateOK, StatusOK, OutputOK, ResultOK, RunnerAlive
    <2> HIDE DEF d
    <2>9. QED
      BY <1>1, <2>1, <2>2, <2>4, <2>5, <2>6, <2>7, <2>8, RunnerTypes, ChildIInv
  <1>3. CASE /\ child' = [child EXCEPT ![r].state = "zombie", ![r].status = "exited", ![r].execerr = TRUE]
             /\ fds' = Exited(ChildOf(r), fds)
    <2> DEFINE d == [child[r] EXCEPT !.state = "zombie", !.status = "exited", !.execerr = TRUE]
    <2>1. d \in ChildRecords /\ d.state = "zombie" /\ d.status = "exited" /\ d.wrote = child[r].wrote
      <3>1. d \in ChildRecords
        BY <1>1, Zenon DEF ChildRecords
      <3>2. QED
        BY <1>1, <3>1 DEF ChildRecords
    <2>2. child' = [child EXCEPT ![r] = d] /\ RunnerAlive(r)
      BY <1>1, <1>3 DEF RunnerAlive
    <2> HIDE DEF d
    <2>3. QED
      BY <1>3, <2>1, <2>2, ChildEndsIInv DEF ExecChild
  <1>4. QED
    BY <1>2, <1>3 DEF ExecChild

LEMMA WriteIInv ==
  ASSUME RunnerIInv, NEW r \in Runs, Write(r)
  PROVE  RunnerIInv'
  <1>1. /\ RunnerTypeOK /\ CallOK(r) /\ fds \in RunnerEndSets /\ child[r] \in ChildRecords
        /\ child[r].state = "running" /\ child[r].wrote < MaxOutput /\ r \notin Interactive
        /\ unread[r] \in Nat /\ child[r].wrote \in Nat /\ UNCHANGED <<at, run>>
    BY RunnerTypes DEF RunnerIInv, Write, ChildRecords
  <1>2. CASE fds[readEnd(r)] = {}
    <2> DEFINE d == [child[r] EXCEPT !.state = "zombie", !.status = "SIGPIPE"]
    <2>1. d \in ChildRecords /\ d.state = "zombie" /\ d.status = "SIGPIPE" /\ d.wrote = child[r].wrote
      <3>1. d \in ChildRecords
        BY <1>1, Zenon DEF ChildRecords
      <3>2. QED
        BY <1>1, <3>1 DEF ChildRecords
    <2>2. child' = [child EXCEPT ![r] = d] /\ RunnerAlive(r)
      <3>1. child' = [child EXCEPT ![r].state = "zombie", ![r].status = "SIGPIPE"]
        BY <1>2 DEF Write
      <3>2. QED
        BY <1>1, <3>1 DEF RunnerAlive
    <2>3. at[r] \in {"abandon", "done"} \/ "read" \in run[r].failed
      <3>1. at[r] \notin {"parent", "poll"}
        BY <1>1, <1>2, RunnerOwnEnds DEF CallOK, EndsOK, OpenIn, Output
      <3>2. at[r] \in {"wait", "execerr"} => "read" \in run[r].failed
        BY <1>1 DEF CallOK, StateOK, RunnerAlive
      <3>3. QED
        BY <1>1, <3>1, <3>2, RunnerTypes DEF CallOK, StateOK, RunnerPlaces
    <2> HIDE DEF d
    <2>4. QED
      BY <1>2, <2>1, <2>2, <2>3, ChildEndsIInv DEF Write
  <1>3. CASE fds[readEnd(r)] # {}
    <2> DEFINE d == [child[r] EXCEPT !.wrote = child[r].wrote + 1]
    <2>1. child[r].wrote + 1 \in 0 .. MaxOutput
      BY <1>1
    <2>2. /\ d \in ChildRecords /\ d.state = child[r].state /\ d.status = child[r].status
          /\ d.wrote = child[r].wrote + 1 /\ d.execerr = child[r].execerr
      BY <1>1, <2>1, ChildWrote
    <2>3. child' = [child EXCEPT ![r] = d] /\ child'[r] = d
      BY <1>1, <1>3, RunnerTypes DEF Write
    <2>4. unread' = [unread EXCEPT ![r] = unread[r] + 1] /\ fds' = fds
      BY <1>3 DEF Write
    <2>5. unread[r] + 1 \in 0 .. MaxOutput /\ unread'[r] = unread[r] + 1
      BY <1>1, <2>4, RunnerTypes DEF CallOK, OutputOK
    <2>6. unread' \in [Runs -> 0 .. MaxOutput] /\ \A q \in Runs \ {r} : unread'[q] = unread[q]
      BY <1>1, <2>4, <2>5, RunnerTypes
    <2> HIDE DEF d
    <2>7. at[r] \in {"wait", "execerr"} => "read" \in run[r].failed
      BY <1>1 DEF CallOK, StateOK, RunnerAlive
    <2>8. OutputOK(r)'
      BY <1>1, <2>2, <2>3, <2>5, <2>7 DEF CallOK, OutputOK
    <2>9. StateOK(r)' /\ StatusOK(r)' /\ ResultOK(r)'
      BY <1>1, <2>2, <2>3 DEF CallOK, StateOK, StatusOK, ResultOK, RunnerAlive
    <2>10. ChildOf(r) \in fds'[writeEnd(r)]
      BY <1>1, <2>4 DEF CallOK, EndsOK, RunnerAlive
    <2>11. QED
      BY <1>1, <2>2, <2>3, <2>4, <2>6, <2>8, <2>9, <2>10, ChildIInv
  <1>4. QED
    BY <1>2, <1>3

LEMMA EndIInv ==
  ASSUME RunnerIInv, NEW r \in Runs, End(r)
  PROVE  RunnerIInv'
  <1> DEFINE d == [child[r] EXCEPT !.state = "zombie", !.status = "exited"]
  <1>1. child[r] \in ChildRecords
    BY RunnerTypes DEF RunnerIInv
  <1>2. d \in ChildRecords /\ d.state = "zombie" /\ d.status = "exited" /\ d.wrote = child[r].wrote
    <2>1. d \in ChildRecords
      BY <1>1, Zenon DEF ChildRecords
    <2>2. QED
      BY <1>1, <2>1 DEF ChildRecords
  <1>3. child' = [child EXCEPT ![r] = d] /\ RunnerAlive(r)
    BY DEF End, RunnerAlive
  <1> HIDE DEF d
  <1>4. QED
    BY <1>2, <1>3, ChildEndsIInv DEF End

(* A child of the child: it may hold the ends, it is not waited for.       *)
LEMMA KidIInv ==
  ASSUME RunnerIInv, NEW r \in Runs, ForkKid(r) \/ KidEnds(r)
  PROVE  RunnerIInv'
  <1>1. RunnerTypeOK /\ CallOK(r) /\ fds \in RunnerEndSets /\ child[r] \in ChildRecords /\ UNCHANGED <<at, run, unread>>
    BY RunnerTypes DEF RunnerIInv, ForkKid, KidEnds
  <1>2. PICK b \in BOOLEAN : child' = [child EXCEPT ![r].kid = b]
    BY DEF ForkKid, KidEnds
  <1> DEFINE d == [child[r] EXCEPT !.kid = b]
  <1>3. /\ d \in ChildRecords /\ d.state = child[r].state
        /\ d.status = child[r].status /\ d.wrote = child[r].wrote /\ d.execerr = child[r].execerr
    BY <1>1, ChildKid
  <1>4. child' = [child EXCEPT ![r] = d] /\ child'[r] = d
    BY <1>1, <1>2, RunnerTypes
  <1>5. fds' \in RunnerEndSets /\ \A e \in AllFds : \A x : x # Descendant(r) => (x \in fds'[e] <=> x \in fds[e])
    <2>1. CASE ForkKid(r)
      BY <1>1, <2>1, RunnerForkedEnds, RunnerNames DEF ForkKid
    <2>2. CASE KidEnds(r)
      BY <1>1, <2>2, RunnerExitedEnds DEF KidEnds
    <2>3. QED
      BY <2>1, <2>2
  <1>6. /\ \A e \in AllFds : Caller \in fds'[e] <=> Caller \in fds[e]
        /\ \A q \in Runs : \A e \in AllFds : ChildOf(q) \in fds[e] => ChildOf(q) \in fds'[e]
    BY <1>5, RunnerNames
  <1> HIDE DEF d
  <1>7. StateOK(r)' /\ StatusOK(r)' /\ OutputOK(r)' /\ ResultOK(r)'
    BY <1>1, <1>3, <1>4 DEF CallOK, StateOK, StatusOK, OutputOK, ResultOK, RunnerAlive
  <1>8. d.state \in {"forked", "running"} /\ r \notin Interactive => ChildOf(r) \in fds'[writeEnd(r)]
    BY <1>1, <1>3, <1>6, RunnerNames, RunnerOwnEnds DEF CallOK, EndsOK, RunnerAlive
  <1>9. QED
    BY <1>1, <1>3, <1>4, <1>5, <1>6, <1>7, <1>8, RunnerTypes, ChildIInv
-----------------------------------------------------------------------------
(* kill: what it leaves of the child and of its ends.                      *)
LEMMA RunnerKilledChild ==
  ASSUME RunnerIInv, NEW r \in Runs, child' = Killed(r)
  PROVE  /\ child' \in [Runs -> ChildRecords] /\ \A q \in Runs \ {r} : child'[q] = child[q]
         /\ ~RunnerAlive(r)' /\ child'[r].wrote = child[r].wrote
         /\ child[r].state \in {"forked", "running", "zombie"} => child'[r].state = "zombie"
         /\ ~RunnerAlive(r) => child' = child
         /\ child'[r].status \in {child[r].status, "SIGKILL"}
         /\ RunnerAlive(r) => child'[r].status = "SIGKILL"
  <1>1. child \in [Runs -> ChildRecords] /\ child[r] \in ChildRecords
    BY RunnerTypes DEF RunnerIInv
  <1>2. CASE RunnerAlive(r)
    <2> DEFINE d == [child[r] EXCEPT !.state = "zombie", !.status = "SIGKILL"]
    <2>1. d \in ChildRecords
      BY <1>1, Zenon DEF ChildRecords
    <2>2. d.state = "zombie" /\ d.status = "SIGKILL" /\ d.wrote = child[r].wrote
      BY <1>1 DEF ChildRecords
    <2>3. child' = [child EXCEPT ![r] = d]
      BY <1>2 DEF RunnerAlive, Killed
    <2> HIDE DEF d
    <2>4. child' \in [Runs -> ChildRecords] /\ child'[r] = d /\ \A q \in Runs \ {r} : child'[q] = child[q]
      BY <1>1, <2>1, <2>3
    <2>5. QED
      BY <1>2, <2>2, <2>4 DEF RunnerAlive
  <1>3. CASE ~RunnerAlive(r)
    BY <1>1, <1>3 DEF RunnerAlive, Killed
  <1>4. QED
    BY <1>2, <1>3

LEMMA DroppedEnds ==
  ASSUME RunnerIInv, NEW r \in Runs
  PROVE  /\ DropsEnds(r) \in RunnerEndSets
         /\ \A e \in AllFds : \A x : x # ChildOf(r) => (x \in DropsEnds(r)[e] <=> x \in fds[e])
  <1>1. fds \in RunnerEndSets
    BY RunnerTypes DEF RunnerIInv
  <1>2. CASE RunnerAlive(r)
    BY <1>1, <1>2, RunnerExitedEnds DEF DropsEnds, RunnerAlive
  <1>3. CASE ~RunnerAlive(r)
    BY <1>1, <1>3 DEF DropsEnds, RunnerAlive
  <1>4. QED
    BY <1>2, <1>3

LEMMA TimeoutIInv ==
  ASSUME RunnerIInv, NEW r \in Runs, Timeout(r)
  PROVE  RunnerIInv'
  <1> DEFINE d == [run[r] EXCEPT !.timed_out = TRUE]
  <1>1. RunnerTypeOK /\ CallOK(r) /\ run[r] \in RunRecords /\ at[r] = "poll" /\ UNCHANGED <<at, unread>>
    BY RunnerTypes DEF RunnerIInv, Timeout
  <1>2. d \in RunRecords /\ d.timed_out /\ d.failed = run[r].failed /\ d.ok = run[r].ok
    BY <1>1, RunTimedOut
  <1>3. run' = [run EXCEPT ![r] = d] /\ run'[r] = d
    BY <1>1, RunnerTypes DEF Timeout
  <1> HIDE DEF d
  <1>4. child' = Killed(r) /\ fds' = DropsEnds(r)
    BY DEF Timeout
  <1>5. RunnerTypeOK'
    BY <1>1, <1>2, <1>3, <1>4, RunnerTypes, RunnerTypesKept, RunnerKilledChild, DroppedEnds
  <1>6. RunnerEndsKept(r)
    BY <1>4, DroppedEnds, RunnerNames DEF RunnerEndsKept
  <1>7. EndsOK(r)'
    BY <1>1, <1>4, RunnerKilledChild, DroppedEnds, RunnerNames DEF CallOK, EndsOK, OpenIn
  <1>8. StateOK(r)' /\ StatusOK(r)' /\ OutputOK(r)' /\ ResultOK(r)'
    <2>1. child[r].state \in {"forked", "running", "zombie"} /\ child'[r].state = "zombie"
      BY <1>1, <1>4, RunnerKilledChild DEF CallOK, StateOK
    <2>2. StateOK(r)'
      BY <1>1, <2>1 DEF CallOK, StateOK
    <2>3. StatusOK(r)'
      BY <1>1, <1>2, <1>3, <1>4, <2>1, RunnerKilledChild DEF CallOK, StatusOK, RunnerAlive
    <2>4. OutputOK(r)' /\ ResultOK(r)'
      BY <1>1, <1>2, <1>3, <1>4, RunnerKilledChild DEF CallOK, OutputOK, ResultOK
    <2>5. QED
      BY <2>2, <2>3, <2>4
  <1>9. CallOK(r)'
    BY <1>7, <1>8 DEF CallOK
  <1>10. QED
    BY <1>1, <1>3, <1>4, <1>5, <1>6, <1>9, RunnerKilledChild, RunnerOthersKeep, RunnerTypes

LEMMA PollFailsIInv ==
  ASSUME RunnerIInv, NEW r \in Runs, PollFails(r)
  PROVE  RunnerIInv'
  <1> DEFINE d == [run[r] EXCEPT !.failed = run[r].failed \cup {"poll"}]
             holders == DropsEnds(r)
  <1>1. /\ RunnerTypeOK /\ CallOK(r) /\ run[r] \in RunRecords /\ at[r] = "poll" /\ unread' = unread
        /\ at' = [at EXCEPT ![r] = "wait"] /\ at'[r] = "wait"
    BY RunnerTypes DEF RunnerIInv, PollFails, Move
  <1>2. d \in RunRecords /\ d.timed_out = run[r].timed_out /\ d.failed = run[r].failed \cup {"poll"} /\ d.ok = run[r].ok
    BY <1>1, RunFailed DEF RunCalls
  <1>3. run' = [run EXCEPT ![r] = d] /\ run'[r] = d
    BY <1>1, RunnerTypes DEF PollFails, Failed
  <1> HIDE DEF d
  <1>4. child' = Killed(r) /\ fds' = Closed(Caller, {readEnd(r)}, holders)
    BY DEF PollFails
  <1> HIDE DEF holders
  <1>5. holders \in RunnerEndSets /\ \A e \in AllFds : \A x : x # ChildOf(r) => (x \in holders[e] <=> x \in fds[e])
    BY DroppedEnds DEF holders
  <1>6. /\ fds' \in RunnerEndSets
        /\ \A e \in AllFds : \A x : x # ChildOf(r) => (x \in fds'[e] <=> x \in fds[e] /\ ~(x = Caller /\ e = readEnd(r)))
    BY <1>4, <1>5, RunnerClosedEnds
  <1>7. RunnerTypeOK'
    BY <1>1, <1>2, <1>3, <1>4, <1>6, RunnerTypes, RunnerTypesKept, RunnerKilledChild DEF RunnerPlaces
  <1>8. RunnerEndsKept(r)
    BY <1>6, RunnerNames, RunnerOwnEnds DEF RunnerEndsKept
  <1>9. EndsOK(r)'
    BY <1>1, <1>4, <1>6, RunnerKilledChild, RunnerNames, RunnerOwnEnds DEF CallOK, EndsOK, OpenIn
  <1>10. child[r].state \in {"forked", "running", "zombie"} /\ child'[r].state = "zombie"
    BY <1>1, <1>4, RunnerKilledChild DEF CallOK, StateOK
  <1>11. StateOK(r)'
    BY <1>1, <1>10 DEF CallOK, StateOK, RunnerAlive
  <1>12. StatusOK(r)'
    BY <1>1, <1>2, <1>3, <1>4, <1>10, RunnerKilledChild DEF CallOK, StatusOK, RunnerAlive
  <1>13. OutputOK(r)' /\ ResultOK(r)'
    BY <1>1, <1>2, <1>3, <1>4, RunnerKilledChild DEF CallOK, OutputOK, ResultOK
  <1>14. CallOK(r)'
    BY <1>9, <1>11, <1>12, <1>13 DEF CallOK
  <1>15. QED
    BY <1>1, <1>3, <1>4, <1>7, <1>8, <1>14, RunnerKilledChild, RunnerOthersKeep, RunnerTypes
-----------------------------------------------------------------------------
(* waitpid has reaped the child or has failed; nothing else is changed.    *)
LEMMA WaitedIInv ==
  ASSUME RunnerIInv, NEW r \in Runs, NEW to \in {"execerr", "done"},
         (at[r] = "wait" /\ to = "execerr") \/ (at[r] = "abandon" /\ to = "done"), at' = [at EXCEPT ![r] = to],
         NEW c \in RunRecords, run' = [run EXCEPT ![r] = c],
         c.timed_out = run[r].timed_out, c.ok = run[r].ok,
         NEW d \in ChildRecords, child' = [child EXCEPT ![r] = d],
         d.status = child[r].status, d.wrote = child[r].wrote,
         \/ child[r].state = "zombie" /\ d.state = "reaped" /\ c.failed = run[r].failed
         \/ d.state = child[r].state /\ c.failed = run[r].failed \cup {"wait"},
         UNCHANGED <<fds, unread>>
  PROVE  RunnerIInv'
  <1>1. RunnerTypeOK /\ CallOK(r)
    BY DEF RunnerIInv
  <1>2. at'[r] = to /\ run'[r] = c /\ child'[r] = d
    BY <1>1, RunnerTypes
  <1>3. RunnerTypeOK'
    BY <1>1, RunnerTypes, RunnerTypesKept DEF RunnerPlaces
  <1>4. EndsOK(r)'
    <2>1. OpenIn(r)' = OpenIn(r) /\ (RunnerAlive(r)' => RunnerAlive(r))
      BY <1>2 DEF OpenIn, RunnerAlive
    <2>2. QED
      BY <1>1, <2>1 DEF CallOK, EndsOK
  <1>5. ~run[r].ok
    BY <1>1 DEF CallOK, ResultOK
  <1>6. StateOK(r)'
    BY <1>1, <1>2 DEF CallOK, StateOK, RunnerAlive
  <1>7. StatusOK(r)' /\ OutputOK(r)' /\ ResultOK(r)'
    BY <1>1, <1>2, <1>5 DEF CallOK, StatusOK, OutputOK, ResultOK
  <1>8. CallOK(r)'
    BY <1>4, <1>6, <1>7 DEF CallOK
  <1>9. RunnerEndsKept(r)
    BY DEF RunnerEndsKept
  <1>10. QED
    BY <1>1, <1>3, <1>8, <1>9, RunnerOthersKeep, RunnerTypes

LEMMA WaitPidIInv ==
  ASSUME RunnerIInv, NEW r \in Runs, WaitPid(r)
  PROVE  RunnerIInv'
  <1>1. /\ RunnerTypeOK /\ CallOK(r) /\ child[r] \in ChildRecords /\ run[r] \in RunRecords
        /\ at[r] = "wait" /\ at' = [at EXCEPT ![r] = "execerr"] /\ UNCHANGED <<fds, unread>>
    BY RunnerTypes DEF RunnerIInv, WaitPid, Move
  <1>2. CASE WaitSucceeds(r) /\ UNCHANGED run
    <2> DEFINE d == [child[r] EXCEPT !.state = "reaped"]
    <2>1. d \in ChildRecords /\ d.state = "reaped" /\ d.status = child[r].status /\ d.wrote = child[r].wrote
      BY <1>1, ChildState
    <2>2. child' = [child EXCEPT ![r] = d] /\ child[r].state = "zombie"
      BY <1>2 DEF WaitSucceeds
    <2>3. run' = [run EXCEPT ![r] = run[r]]
      BY <1>1, <1>2, RunnerTypes
    <2> HIDE DEF d
    <2>4. QED
      BY <1>1, <2>1, <2>2, <2>3, WaitedIInv
  <1>3. CASE WaitFails(r) /\ run' = [run EXCEPT ![r].failed = Failed(r, "wait")]
    <2> DEFINE c == [run[r] EXCEPT !.failed = run[r].failed \cup {"wait"}]
    <2>1. c \in RunRecords /\ c.failed = run[r].failed \cup {"wait"} /\ c.timed_out = run[r].timed_out /\ c.ok = run[r].ok
      BY <1>1, RunFailed DEF RunCalls
    <2>2. run' = [run EXCEPT ![r] = c]
      BY <1>3 DEF Failed
    <2>3. child' = [child EXCEPT ![r] = child[r]]
      BY <1>1, <1>3, RunnerTypes DEF WaitFails
    <2> HIDE DEF c
    <2>4. QED
      BY <1>1, <2>1, <2>2, <2>3, WaitedIInv
  <1>4. QED
    BY <1>2, <1>3 DEF WaitPid

LEMMA AbandonIInv ==
  ASSUME RunnerIInv, NEW r \in Runs, Abandon(r)
  PROVE  RunnerIInv'
  <1>1. /\ RunnerTypeOK /\ CallOK(r) /\ child[r] \in ChildRecords /\ run[r] \in RunRecords
        /\ at[r] = "abandon" /\ at' = [at EXCEPT ![r] = "done"] /\ UNCHANGED <<fds, unread>>
    BY RunnerTypes DEF RunnerIInv, Abandon, Move
  <1>2. CASE WaitSucceeds(r) /\ run' = [run EXCEPT ![r].exit_code = "SETUP"]
    <2> DEFINE d == [child[r] EXCEPT !.state = "reaped"]
               c == [run[r] EXCEPT !.exit_code = "SETUP"]
    <2>1. d \in ChildRecords /\ d.state = "reaped" /\ d.status = child[r].status /\ d.wrote = child[r].wrote
      BY <1>1, ChildState
    <2>2. c \in RunRecords /\ c.failed = run[r].failed /\ c.timed_out = run[r].timed_out /\ c.ok = run[r].ok
      BY <1>1, RunCode DEF Codes
    <2>3. child' = [child EXCEPT ![r] = d] /\ child[r].state = "zombie" /\ run' = [run EXCEPT ![r] = c]
      BY <1>2 DEF WaitSucceeds
    <2> HIDE DEF c, d
    <2>4. QED
      BY <1>1, <2>1, <2>2, <2>3, WaitedIInv
  <1>3. CASE WaitFails(r) /\ run' = [run EXCEPT ![r].exit_code = "SETUP", ![r].failed = Failed(r, "wait")]
    <2> DEFINE b == [run[r] EXCEPT !.exit_code = "SETUP"]
               c == [b EXCEPT !.failed = b.failed \cup {"wait"}]
    <2>1. b \in RunRecords /\ b.failed = run[r].failed /\ b.timed_out = run[r].timed_out /\ b.ok = run[r].ok
      BY <1>1, RunCode DEF Codes
    <2>2. c = [run[r] EXCEPT !.exit_code = "SETUP", !.failed = run[r].failed \cup {"wait"}]
      BY <1>1, <2>1 DEF RunRecords
    <2>3. run' = [run EXCEPT ![r] = c]
      BY <1>3, <2>2 DEF Failed
    <2> HIDE DEF b
    <2>4. c \in RunRecords /\ c.failed = b.failed \cup {"wait"} /\ c.timed_out = b.timed_out /\ c.ok = b.ok
      BY <2>1, RunFailed DEF RunCalls
    <2>5. child' = [child EXCEPT ![r] = child[r]]
      BY <1>1, <1>3, RunnerTypes DEF WaitFails
    <2> HIDE DEF c
    <2>6. c.failed = run[r].failed \cup {"wait"} /\ c.timed_out = run[r].timed_out /\ c.ok = run[r].ok
      BY <2>1, <2>4
    <2>7. QED
      BY <1>1, <2>3, <2>4, <2>5, <2>6, WaitedIInv
  <1>4. QED
    BY <1>2, <1>3 DEF Abandon

LEMMA ReadExecErrorIInv ==
  ASSUME RunnerIInv, NEW r \in Runs, ReadExecError(r)
  PROVE  RunnerIInv'
  <1> DEFINE code == IF "wait" \in run[r].failed THEN "WAIT"
                     ELSE IF child[r].execerr     THEN IF r \in Interactive THEN "EXEC" ELSE child[r].status
                     ELSE IF run[r].timed_out     THEN "TIMEOUT"
                     ELSE IF "poll" \in run[r].failed THEN "POLL" ELSE child[r].status
             ok == ~ (child[r].execerr \/ run[r].timed_out \/ {"poll", "wait"} \cap run[r].failed # {})
             c  == [run[r] EXCEPT !.ok = ok, !.exit_code = code]
  <1>1. /\ RunnerTypeOK /\ CallOK(r) /\ child[r] \in ChildRecords /\ run[r] \in RunRecords /\ fds \in RunnerEndSets
        /\ at[r] = "execerr" /\ at' = [at EXCEPT ![r] = "done"] /\ at'[r] = "done" /\ UNCHANGED <<child, unread>>
        /\ fds' = Closed(Caller, {execR(r)}, fds)
    BY RunnerTypes DEF RunnerIInv, ReadExecError, ExecErrorKnown, Move
  <1>2. code \in Codes /\ ok \in BOOLEAN
    BY <1>1 DEF Codes, ChildRecords
  <1>3. run' = [run EXCEPT ![r] = c]
    BY DEF ReadExecError
  <1>4. c.timed_out = run[r].timed_out /\ c.failed = run[r].failed
    BY <1>1 DEF RunRecords
  <1>5. ok => /\ ~child[r].execerr /\ ~run[r].timed_out /\ "poll" \notin run[r].failed /\ "wait" \notin run[r].failed
              /\ code = child[r].status
    OBVIOUS
  <1> HIDE DEF code, ok
  <1>6. c \in RunRecords /\ c.ok = ok /\ c.exit_code = code
    <2>1. c \in RunRecords
      BY <1>1, <1>2, Zenon DEF RunRecords
    <2>2. c.exit_code = code
      BY <1>1, <2>1 DEF RunRecords
    <2>3. c.ok = ok
      BY <1>1, <1>2, Zenon DEF RunRecords
    <2>4. QED
      BY <2>1, <2>2, <2>3
  <1> HIDE DEF c
  <1>7. /\ fds' \in RunnerEndSets
        /\ \A e \in AllFds : \A x : x \in fds'[e] <=> x \in fds[e] /\ ~(x = Caller /\ e \in {execR(r)})
    BY <1>1, RunnerClosedEnds
  <1>8. run'[r] = c /\ RunnerTypeOK'
    BY <1>1, <1>3, <1>6, <1>7, RunnerTypes, RunnerTypesKept DEF RunnerPlaces
  <1>9. EndsOK(r)'
    <2>1. OpenIn(r) = {execR(r)} /\ OpenIn(r)' = {} /\ RunnerAlive(r)' = RunnerAlive(r)
      BY <1>1 DEF OpenIn, RunnerAlive
    <2>2. \A e \in EndsOf(r) : Caller \notin fds'[e]
      BY <1>1, <1>7, <2>1, RunnerNames DEF CallOK, EndsOK
    <2>3. RunnerAlive(r) /\ r \notin Interactive => ChildOf(r) \in fds'[writeEnd(r)]
      BY <1>1, <1>7, RunnerNames, RunnerOwnEnds DEF CallOK, EndsOK
    <2>4. QED
      BY <2>1, <2>2, <2>3 DEF EndsOK
  <1>10. ResultOK(r)'
    <2>1. ok => child[r].state = "reaped"
      BY <1>1, <1>5 DEF CallOK, StateOK
    <2>2. ok /\ "read" \notin run[r].failed => child[r].status = "exited" /\ unread[r] = 0
      BY <1>1, <1>5, <2>1 DEF CallOK, StatusOK, OutputOK, ChildRecords
    <2>3. QED
      BY <1>1, <1>4, <1>5, <1>6, <1>8, <2>1, <2>2 DEF ResultOK
  <1>11. CallOK(r)'
    <2>1. StateOK(r)' /\ StatusOK(r)'
      BY <1>1, <1>4, <1>8 DEF CallOK, StateOK, StatusOK
    <2>2. OutputOK(r)'
      BY <1>1, <1>4, <1>8 DEF CallOK, OutputOK
    <2>3. QED
      BY <1>9, <1>10, <2>1, <2>2 DEF CallOK
  <1>12. RunnerEndsKept(r)
    BY <1>7, RunnerNames, RunnerOwnEnds DEF RunnerEndsKept
  <1>13. QED
    BY <1>1, <1>3, <1>8, <1>11, <1>12, RunnerOthersKeep, RunnerTypes
-----------------------------------------------------------------------------
LEMMA RunnerStepIInv == RunnerIInv /\ [RunnerNext]_runnerVars => RunnerIInv'
  <1> SUFFICES ASSUME RunnerIInv, [RunnerNext]_runnerVars PROVE RunnerIInv'
    OBVIOUS
  <1>1. CASE UNCHANGED runnerVars
    BY <1>1, RunnerStutter
  <1>2. ASSUME NEW r \in Runs, NEW args \in BOOLEAN, Run(r, args) PROVE RunnerIInv'
    BY <1>2, RunIInv
  <1>3. ASSUME NEW r \in Runs, Launching(r) PROVE RunnerIInv'
    BY <1>3, CreatePipesIInv, PrepareIInv, SetCloseOnExecIInv, ForkChildIInv, CloseWriteEndsIInv DEF Launching
  <1>4. ASSUME NEW r \in Runs, Waiting(r) PROVE RunnerIInv'
    BY <1>4, ReadPipeDataIInv, WaitPidIInv, ReadExecErrorIInv, AbandonIInv DEF Waiting
  <1>5. ASSUME NEW r \in Runs, Timeout(r) \/ PollFails(r) PROVE RunnerIInv'
    BY <1>5, TimeoutIInv, PollFailsIInv
  <1>6. ASSUME NEW r \in Runs, ExecChild(r) \/ Write(r) \/ ForkKid(r) \/ End(r) \/ KidEnds(r) PROVE RunnerIInv'
    BY <1>6, ExecChildIInv, WriteIInv, KidIInv, EndIInv
  <1>7. QED
    BY <1>1, <1>2, <1>3, <1>4, <1>5, <1>6 DEF RunnerNext

LEMMA RunnerIInvHolds == RunnerSpec => []RunnerIInv
  BY RunnerInitIInv, RunnerStepIInv, PTL DEF RunnerSpec

(* What the invariant says of the properties.                             *)
LEMMA RunnerIInvImplies == RunnerIInv => RunnerTypeOK /\ RunLeavesNothing /\ TrueMeansComplete
  <1> SUFFICES ASSUME RunnerIInv PROVE RunLeavesNothing /\ TrueMeansComplete
    BY DEF RunnerIInv
  <1>1. ASSUME NEW r \in Runs, at[r] = "done"
        PROVE  /\ \A e \in EndsOf(r) : Caller \notin fds[e]
               /\ child[r].state \in {"none", "reaped"} \/ ("wait" \in run[r].failed /\ ~run[r].ok)
    <2>1. CallOK(r)
      BY DEF RunnerIInv
    <2>2. OpenIn(r) = {}
      BY <1>1 DEF OpenIn
    <2>3. \A e \in EndsOf(r) : Caller \notin fds[e]
      BY <2>1, <2>2 DEF CallOK, EndsOK
    <2>4. run[r].ok => child[r].state = "reaped"
      BY <2>1 DEF CallOK, ResultOK
    <2>5. QED
      BY <1>1, <2>1, <2>3, <2>4 DEF CallOK, StateOK
  <1>2. TrueMeansComplete
    BY DEF RunnerIInv, CallOK, ResultOK, TrueMeansComplete
  <1>3. QED
    BY <1>1, <1>2 DEF RunLeavesNothing

(* The state of every run has its type: in particular the pipe never holds *)
(* more than the child has written.                                        *)
THEOREM RunnerTypeCorrect == RunnerSpec => []RunnerTypeOK
  BY RunnerIInvHolds, RunnerIInvImplies, PTL

(* Whichever call fails, from pipe to waitpid, a run that has returned has *)
(* closed every end; it has reaped its child, or waitpid is what failed    *)
(* and the run returned false (OProcessRunner::Run,                        *)
(* RunInteractiveProcess).                                                 *)
THEOREM RunnerNothingLeft == RunnerSpec => []RunLeavesNothing
  BY RunnerIInvHolds, RunnerIInvImplies, PTL

(* Run returns true only for a child that was executed and reaped, with    *)
(* its status: neither a timeout, a failed poll nor a failed waitpid is    *)
(* taken for success; and unless a read failed the child ended by itself   *)
(* and its output was read to its end.                                     *)
THEOREM TrueIsComplete == RunnerSpec => []TrueMeansComplete
  BY RunnerIInvHolds, RunnerIInvImplies, PTL
=============================================================================
