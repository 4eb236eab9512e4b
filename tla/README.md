# TLA+ models of dq-lang

This directory holds a formal model of dq-lang: the DQ compiler, its standard
library and its tools.  One half of it is about parts in which several actors meet:
threads, processes, sockets, files that other processes replace.  The other half is
about the compiler as a sequential program whose decisions have to agree with each
other: what is parsed, what is generated, what another compiler reads back.  TLC
checks the models on small instances; TLAPS checks proofs of the main safety
properties for all instances.

    tlc -workers 2 -config MCMsgChannel.cfg MCMsgChannel    # a run
    tlapm MsgChannelProofs.tla                              # the proofs of a component

`PROJECT.json` names every run with its properties, the source lines of every
definition (`map`), the hazards the properties are for, and, for each property, a
mutated definition (`of`, `as`) under which TLC finds it violated.  The mutated
definitions stand beside the originals, marked `Mutant:`; no specification uses
them.

Contents: 1 inventory, 2 plan, 3 the models and their runs, 4 disagreements with the
documents, 5 proofs, 6 what is only model-checked and what is left out.

## 1. Inventory

| Part | Source (under `src/`) | State and operations | What is hard | Modelled in |
|---|---|---|---|---|
| Message channel | `stdpkg/threads/msgchannel.*`, `waitevent.*`, `spinlock.dqh` | a ring and two indices under a spinlock, two futex events; Put, Get and their waiting forms | lost wake-ups, timeouts against signals, the waiter count | `BoundedFifo`, `ThreadEvent`, `MsgChannel` |
| Native threads | `stdpkg/threads/threads.dq` | `running`, the pthread; start, join, try-join | who reaps a thread that has finished | `ShellRunner`, as its monitor |
| Artifact locks | `compiler/utils/artifact_lock.*` | an flock on a lock file that its holder unlinks; Lock, Unlock | a file whose name is gone; death of the holder | `ReadWriteLock`, `ArtifactLock` |
| Module build | `compiler/src/dqc.cpp`, `compiler/ast/module_intf.cpp`, `dq_module.cpp`, `parser/dqc_parser.cpp` | `.o` and `.dqm_if` artifacts and the stamps in them, output locks, a stack of child compilers | parallel builds, edits and deaths in the middle, cycles of modules | `ModuleBuild` |
| TCP server, socket watcher | `stdpkg/nanonet/nano_sockets.dq` | epoll registrations, open and closed connections; WaitForEvents, accept, close | handlers that close what the batch still mentions | `HttpServer` |
| HTTP connection | `stdpkg/nanonet/nano_http.dq` | inbuf, outbuf, the file being sent; HandleInput, SendOutput | partial sends and receives, full buffers, clients that leave | `HttpServer` |
| TCP clients, UDP; SQL over HTTP | `stdpkg/nanonet/` | connections kept for reuse; one JSON answer | a late connect error; an error half-way | not modelled |
| Process runner | `compiler/utils/processrunner.cpp` | a child and its pipes; Run, RunInteractiveProcess | timeouts against output, inherited descriptors, calls that fail in the middle | `PipeEnds`, `ProcessRunner` |
| Autotest pool | `autotest/atrunner/testfileworker.cpp`, `at_runner.cpp` | a mutex, a condition and a file per worker; RunBatch, Stop | hand-over and shutdown | `WorkerPool` |
| Test files | `autotest/atrunner/testfile.cpp` | markers, expected errors, captures, checks | a test that passes without having been tested | `TestFile` |
| Shell package | `stdpkg/shell/` | a child, its pipes and a monitor thread; Start, Execute, Kill, Finished, Join | kill against reap, SIGPIPE, restart | `PipeEnds`, `ShellRunner` |
| Language server | `compiler/langserver/` | life cycle flags, open documents, symbols; one handler per method | answers and diagnostics that get lost or are old | `LanguageServer` |
| Options and projects | `compiler/src/comp_options.cpp`, `main_dq_comp.cpp`, `ast/projectfile.cpp` | options with four sources; children that inherit them | precedence, includes, what a child is not told | `BuildOptions` |
| Module paths | `compiler/ast/module_path.cpp` | packages and roots; names to sources and artifacts and back | one name for two files, names that lead elsewhere | `ModulePaths` |
| Initialisation order | `compiler/ast/dq_module.cpp` | the lists in the interfaces | cycles, order of compilation | `ModuleInit` |
| Module interfaces | `compiler/ast/dqm_if.cpp`, `module_intf.cpp` | records, the chunked image, flattened facades | numbering, damaged files, names of two owners | `InterfaceRecords`, `InterfaceImage`, `FlatInterface` |
| Source feeder | `compiler/parser/scf_dq.cpp` | conditionals, defines, the stack of files | branches that cross files, skipped text | `SourceFeeder` |
| Statement and expression parser | `compiler/parser/dqc_parser_stmt.cpp`, `dqc_parser_expr.cpp` | open blocks, first assignments; precedence; positions in brackets | recovery, assignments on some paths, stale contexts | `StatementParser`, `ExpressionParser`, `IndexContexts` |
| Types and calls | `compiler/types/`, `compiler/ast/dqc_ast.cpp` | overload sets, conversions, constants, access attributes | ambiguity, host against target arithmetic | `OverloadCalls`, `ConstantFolding`, `StoragePaths` |
| Object types | `compiler/types/otype_compound.cpp`, `otype_func.cpp` | methods, virtual tables, constructors | slots numbered by each importer; embedded objects | `ObjectTypes`, `ObjectLifecycle` |
| Code generation | `compiler/ast/statements.cpp`, `expressions.cpp`, `codegen/` | scopes with landing pads, finally bodies, loops | leaving nested blocks, ranges at the last value | `Cleanup`, `ForLoop` |
| Managed types | `stdpkg/rtl/dynstr.dqi`, `dynarrmgr.dq` | reference counts | copy on write, temporaries | `ManagedStorage` |
| Exceptions | `stdpkg/rtl/exception.dq` | what leaves a block | - | part of `Cleanup`; backtraces are not modelled |
| Files, time, printing, JSON, collections, databases, atomics | `stdpkg/*` | thin layers over C libraries, sequential containers | - | not modelled |

How they interact: a compiler takes artifact locks, and runs other compilers
through the process runner, once for every used module that is stale.  The autotest
pool and the language server run compilers through the same runner.  Within one
compiler, the feeder decides what the parser sees, the parser what is generated, and
what it keeps of a module goes through an interface file into another compiler.  In
the library, the channel is built on the event and the spinlock; the shell runner on a
native thread; the HTTP server on the socket watcher; SQL over HTTP on both the
server and the database packages.

What makes each part correct, in a sentence:

* channel: it is a linearizable bounded FIFO, and nobody sleeps beside a message;
* artifact lock: it is a read-write lock, in spite of files that come and go;
* module build: it ends, it does not fail on a correct program, and what it links
  was made from the sources as they are;
* HTTP server: each client reads the answers to its requests, in order and whole,
  or the end of the connection; nothing deleted is used, nothing is kept for ever;
* process runner and shell: whatever fails, nothing is left open; a child is left
  unreaped only by a failed `waitpid`, and output unread only by a failed poll or read;
  a command that was accepted is reported finished;
* worker pool: every file is tested once before the results are added up;
* language server: every request is answered once, from the newest texts;
* reading: what comes back from a file, a name or an option is what was put there;
* compiling: what the generated code does is what the language reference says, or
  the program is refused.

## 2. Plan

Done, in the order of importance: the channel, the locks and the build, the network,
processes and language server, what the compiler reads, what it compiles; then the
proofs of section 5.  The composition modules `MCProcesses`, `MCReading` and
`MCCompiler` hold several components each: a variable `part` chooses the component that
runs in a behaviour.

Left: `ThreadEvent`, and `NoLostWakeup` for a channel whose caller does the locking.  The
sequential components that section 5 does not name stay with the model checker, for the
reasons of section 6.

## 3. The models

### 3.1 `MsgChannel`: channel, event, spinlock

`m_lockvar`, `idx_put`, `idx_get`, `msgs` are the fields of `OMsgChannel`; `event` maps
`"Put"` and `"Get"` to `put_event` and `get_event`, each with `m_sequence`, `m_waiters`
and the kernel's queue `sleeping`.  `pc` says which access to shared memory a thread
makes next; one action is the code between two of them:

    idle -> [snapshot ->] lock -> test -> copy -> advance -> unlock
         -> signal -> waiters -> wake -> return                  it moved a message
         -> deadline -> register -> futex -> asleep -> again     it has to wait
                                                  \-> giveup     the deadline passed

`ThreadEvent` has the indivisible steps of `Signal` and `WaitUntilNanos`.  The futex call
is one step that compares and queues, as the kernel guarantees; it ends by a wake-up,
by EAGAIN, by a signal handler (`Interrupt`, bounded by `MaxInterrupts`) or by the clock.
The test, the copy and the advance of the index are separate steps, so that a lock that
does not exclude would show as a lost or doubled message.

`BoundedFifo` is what the package's documentation and interface promise.  The refinement
mapping reads the queue off the ring and the phase of a call off `pc` and the locals; a
call takes effect when the index advances, or when the test fails.

| Run | Instance | Shows |
|---|---|---|
| `channel` | 2 threads that both put and get, 2 messages, capacity 2, 3 calls each, all kinds of timeout, 1 interrupt | `TypeOK`, `MutualExclusion`, `WaitersExact`, `NoLostWakeup`, `TimeoutOnlyPastDeadline`, `ImplementsFifo` |
| `channel_live` | 1 producer, 2 consumers, capacity 1, 1 call each | `SleeperServed`, `TimedCallReturns` |

Bounds.  Two consumers and one producer are the smallest case in which a wake-up can go
to the wrong thread (`channel_live`); three calls on a ring of three slots wrap both
indices; `SeqMod` is larger than the number of signals a run can make, as 2^32 is for
any real wait.  Threads and messages are symmetric; the liveness run uses no symmetry.

Fairness: weak fairness of each thread's own steps and of the passing of its deadline.
The threads are preemptively scheduled native threads, and the spinlock yields
(`spinlock.dqh:8`); no assumption is made on when a thread makes its next call.  The wait
for the spinlock itself is an action that is enabled only when the lock is free, so a
thread could starve on it under weak fairness alone.  In the liveness run it does not:
the others make finitely many calls.

Left out: the Windows branch of the event, `locking = FALSE`, native wait errors other
than EAGAIN, EINTR and ETIMEDOUT, reorderings weaker than sequential consistency (the
atomics are sequentially consistent except for the spinning load).  With `SeqMod = 2` the
sequence number comes back to the value a waiter holds, and `NoLostWakeup` is violated:
this is what 2^32 signals inside one wait would do, and the hypothesis of the theorem.

### 3.2 `ArtifactLock`

`path` is the inode the name of the lock file stands for, `fd` the inode a process has
open, `flock` the lock it has on it.  `Lock` is a loop of three system calls, with a
step each: open (`Open`, which may create the file), `Flock` (blocks), and the
comparison of the inodes (`Verify` or `Stale`).  `Unlock` converts a shared lock without
waiting (`Convert`), unlinks (`Remove`) and closes (`Release`).  `Die` ends a process at any
point.  `abandoned` is a history variable for `NoStrayLockFile`.

`ReadWriteLock` is what the header promises; the set of shared and exclusive holders are
the processes at `hold`.

Run `artifact_lock`: three processes, three inodes (a process has one file open, so
there are always enough), all modes, unbounded repetition and deaths.  It checks
`TypeOK`, `HolderOwnsPath`, `NoStrayLockFile`, `ImplementsReadWriteLock` and `LockReturns`.
Fairness: weak fairness of a process inside `Lock`; `LockReturns` is stated for a process
that is finally alone, since flock queues promise no order and a live-lock against a
stream of short holders is possible in principle.

Left out: errors of open and flock (they fail the build), the Windows branch.
The conversion of a lock is assumed to succeed or to fail (losing the shared lock, as
Linux does) in one step.

### 3.3 `ModuleBuild`

A session is a compiler that a user starts and the chain of children below it:
`stack[s]`.  Each entry is one process of `ODqCompiler::Run` with the module it compiles,
the place it is at (`pc`), the locks it holds and what it has recorded of its sources.
On disk there are sources with a version (standing for size and time), and for each
module an interface `.dqm_if` (with the versions of the sources it was made from and the
stamp of the object it goes with) and an object (with its stamp and, for the property,
what it was made from).

    lock -> opened -> use (for every used module: interface -> [object -> locked] -> read)
         -> publish -> finish

`AlreadyFresh` is the second look at the artifact after the lock (`dqc.cpp:608`).
`CheckInterface` and `CheckObject` are `EnsureFreshInterfaceArtifact` and
`EnsureFreshCompiledArtifact`: fresh, or run a child and look again (`again`), or fail.
`IsInModuleUseStack` is the `--ifstack` argument.  A hold is granted by the rules of
`ReadWriteLock`, which `ArtifactLock` implements.

| Run | Instance | Shows |
|---|---|---|
| `build_parallel` | two applications over four shared modules, two of which use each other in their implementations; two starts each, deaths at any point | `NoCircularWait`, `BuildsAreSound` (types, and no build fails), `EveryBuildEnds` |
| `build_edits` | one session at a time, an edit of each source at any moment, deaths, a cycle of interfaces | `LinksCurrentObjects` |
| `build_order` | a's interface uses b, b's implementation uses a; b is met first | `EveryBuildSucceeds` is violated |
| `build_hidden` | a's implementation uses b, b is edited | `LinksCurrentObjects` is violated |

The two violations are findings (section 4).

Bounds: two sessions, since a circular wait needs two and a third adds no new kind of
conflict; two starts, so that every state a death leaves is built upon; one edit of each
module.  The graphs are chosen to have a diamond met in both orders, a chain of
interfaces, a cycle of implementations that is entered from one end, and a cycle of
interfaces, which has to be refused.

Fairness: weak fairness of each session: compilers are processes of the operating
system, and a lock that is free is granted.

Left out: a change of build options or package roots between sessions, sources that
appear, vanish or resolve differently, the implicit uses of `rtl`, LTO sidecars, the
move of a library's artifacts, children that outlive a killed parent, I/O errors.  Two
different writes never carry the same stamp.

### 3.4 `HttpServer`

One server thread, its clients and the kernel.  `conn[c]` is the `OSConnectionHttp` of a
client: `st` (open, closed: in `closed_conns`, deleted), `out` (whether an output handler is
registered), and its buffers and file.  `batch` and `event` are the events of the last
`epoll_wait` still to be handled and the one at hand.  `up` and `down` are the two
directions of the socket, `asked` and `got` what the client sent and read.

One action is one system call with the code around it: `WaitForEvents`, `HandleListener`
(accept), `HandleInput` (recv), `Respond` (the loop body of `ProcessInData`), `Send` and
`ReadFile` (the loop of `SendOutput`), `Sent` (its end), `DeleteClosed`.  Clients and kernel
move in between.  A request is two units on the wire and may arrive in two pieces; an
answer is a head and the units of a page or a file; the kernel takes as much as it has
room for.

Run `http_server`: a client with two requests (a file, an unchanged file, a bad header)
and one with a page; slow readers, clients that leave, files that shrink.  It checks
`TypeOK`, `NoDeletedInUse`, `AnswersComplete` (`AnswersInOrder` and `OutputNeverStranded`),
`EveryRequestEnds` and `GoneClientsFreed`.

Bounds: a file of two units in one chunk, and a send buffer of two, force a partial
send behind the head and a full buffer; two clients make batches with two events and a
connection that closes while another one's event waits.

Fairness: weak fairness of the server loop, which the program runs for ever, and of a
client that reads what arrives and sends the rest of a request it began.  Nothing is
assumed about whether it asks again or leaves.

Preconditions of the passing run: a client waits for its answer before it asks again
(`Pipelining = FALSE`).  Without it the code strands an answer (`nano_http.dq:262`) and
drops the rest of a file (`nano_http.dq:572`): a hazard of the list without a property.

Left out: parsing of headers, handlers that raise or touch other connections, the
errors of accept other than a client that left, half-closed sockets, output lost in
flight after a reset, the `poll` branch, the client manager and UDP.

### 3.5 Programs that start others: `processes`

`PipeEnds` is the kernel's part: who holds which end of which pipe.  A reader sees the
end of a stream when nobody holds the write end, a writer gets SIGPIPE when nobody holds
the read end, and a fork copies every end the parent has open, those of other runners
included.

* `ShellRunner` - `sh[r]` are the fields of an `OShellRunner`, `caller[r]` the place of the
  thread that controls it, `thread[r]` and `monitor[r]` the native thread of
  `MonitorProcess` and where it is, `pid[r]` the number it knows its child by, `proc[r]` the
  child itself.  `Call` is what the controlling thread may do between two commands or during
  one: `Execute`, which is declined (-1) while the last thread is not joined, `Kill`, which goes
  to whatever process group has the number now, and `Finished`.  `Starting` is `StartProcess`:
  each `pipe` is a step that may fail with the ones before it open, as may the fork and the
  thread.  `Monitoring` is the poll loop: reading, writing, `waitpid`, and `Failing`, the poll,
  read and write that fail for good (`shell_posix.dqi:152`, `:176`, `:202`); `waitpid` may fail in
  `WaitChild` (`:243`).  `MonitorFaults[r]` says which of them may, and `broken[r]` remembers which
  did.  A call that fails with EINTR or EAGAIN is repeated by the code and is no step.
  `Command` is what the child may do: echo its input, quit without reading, sleep until it
  is killed, or fork a child of its own.  Data are units of `PIPE_BUF` bytes; out and err are
  one stream.
* `ProcessRunner` - `at[r]` is where a call of `OProcessRunner::Run` or
  `RunInteractiveProcess` is, `run[r]` its locals and result, `child[r]` the child, `fds` the
  ends.  `Launching` goes from the first pipe to the exec in the child, with every system
  call that `Faults[r]` lets fail, the second pipe with the first one open among them; `Waiting`
  is the poll loop, `waitpid` and the read of the exec error, `Timeout` the kill.  `waitpid` is
  called once (`processrunner.cpp:838`), so a signal is enough to make it fail while the child
  runs: the call returns `PROCRUNERR_WAIT`.  A read that fails is taken for the end of the
  stream (`:587`) and is reported by nothing; `run[r].failed` remembers it for the properties.
* `WorkerPool` - `main` is the distributor of `RunBatch`, `worker[w]` an `OTestFileWorker`, and every
  block under `wait_mtx` is a step; a notification wakes only a sleeper.
* `LanguageServer` - one loop, so a message is a step: `Handle(m)` for every method in
  every phase of the life cycle, with all compilers it starts.  A compiler that dies gives no
  symbols; the result file that the one before it left is read instead in the code
  (`lang_server.cpp:461`), and names symbols that the tables, sets here, have already.

Run `processes` composes the four (`MCProcesses`).  Instances: two concurrent runs of the
process runner, which share the failing system calls between them, one with a timeout and
one whose child forks; two workers and up to three files; two documents, two texts, two
changes, and of messages the server treats alike one (`MCMessages`).  Of the shell package (`FewCommands`): two runners with one command each, the first an
echo or a command that quits, given no input or two units, the second a command that forks; or
the first one alone with two commands one after the other, while every call of its monitor may
fail.  Each invariant is about one part:

| Property | Parts |
|---|---|
| `CommandsLeaveNothing` | `NothingLeftOver` (a finished runner holds no end of its pipes; its child is reaped, or `waitpid` failed and the exit code is -1; all output was read, or poll or read failed), `EchoCaptured` (what an echo wrote is there in full unless a call of the monitor failed, and never twice), `JoinedIsReusable` (after Join the next command is accepted) |
| `RunsAreComplete` | `RunLeavesNothing` (closed whichever call failed; reaped unless `waitpid` did, which is never returned as success), `TrueMeansComplete` (true only for a child that was executed and reaped; it ended by itself and was read to the end unless a read failed) |
| `BatchesAreComplete` | `ResultsComplete` (every file once, before the results are added up), `OneWorkerPerFile` |
| `EditorIsCurrent` | `FreshDiagnostics`, `SymbolsAreCurrent`, `DefinitionIsCertain`, `RequestsAnswered` |
| `EverythingEnds` | a command, a run and a batch that has begun ends |

What the exceptions in these properties mean for a caller: a runner whose poll or read failed
is reported finished with an exit code that may be 0 and a capture that lacks the rest, and
nothing tells so (`shell_posix.dqi:152`); `Run` returns true with the rest of the output lost
when a read failed (`processrunner.cpp:587`).  A failed `waitpid` leaves a child that still
runs, or a zombie, in the process runner (`:838`); in the shell, where EINTR is retried
(`shell_posix.dqi:243`), a child that this call cannot reap.

Bounds: an input of two units on pipes of one makes every writer block in the middle; two
runners, as the second one is the process that inherits the first one's ends; three
files on two workers make one worker take a second file.  `FewCommands` is a state constraint;
no action under a fairness condition leads out of it.  The passing run gives each runner
process numbers of its own (`Pids`), the theorems do not need that.  A runner is used again
when the descendant of its last command has ended (`~ proc[r].kid`), which is one record.
`RunInteractiveProcess` (`Interactive`) is in the model and in the theorems, not in a run.

Fairness (`ShellFairness`, `RunnerFairness`, `PoolLive`): threads are scheduled, deadlines
pass, and children that do not hang run and end; no call is assumed to fail.  Nothing is
assumed of callers: a command is killed, polled or joined or not.

Left out: the Windows branches, quoting of arguments, the wording of output, a read error in
`ReadExecError` (taken for no error), JSON and framing, completion lists, the namespaces `.`
and `..` of a document.

### 3.6 What a compiler is given to read: `reading`

Six components, chosen by `part`.  Here a behaviour is one text, file, graph or command
line, and its actions are the steps in which the code reads it.  The managed storage of the
run-time library is a seventh part, so that the two runs take the same time.

| Property | Component: state and steps | Says |
|---|---|---|
| `FeederSelects` | `SourceFeeder`: the stack of files, the open conditionals, the defines; a step is a directive or the end of a file | the parser sees the selected branches and nothing else, in files that include each other and themselves; `{$include_once}` files once |
| `AssignmentsTracked` | `StatementParser`: open blocks with the parser's marks and, beside them, what is assigned on every path; a step is a statement or a closing word, right or wrong | no use of an unset variable is accepted, outside the holes that the model names |
| `AccessRespected` | `StoragePaths`: designators of two steps, two statements | no accepted statement writes constants or refin parameters, or reads `[[noread]]` or unset storage, by a direct path; section 5 proves it for any number of statements |
| `ModulesAreFound` | `ModulePaths`: uses by package, root and relative name from every module met so far | different modules have different artifacts; a recorded name leads back |
| `OptionsAsDocumented` | `BuildOptions`: project files that include others, up to three arguments, children of children | the documented precedence; children compile with the same settings; what `-o` asks for is written |
| `TestVerdicts` | `TestFile`: markers, a build, outputs and diagnostics chosen freely | the verdict is the one the markers ask for, and no check is skipped |
| `StorageAsDocumented` | `ManagedStorage`: two strings, two arrays and two owners in four cells; a step is a statement with all the library calls generated for it | each count is the number of holders, and each variable has the value the language gives it |

Bounds: the texts, trees of files, projects and declarations are listed in the second half
of `MCReading`.  No liveness: each component ends when its input does.

### 3.7 What a compiler makes of it: `compiler`

Twelve components, again chosen by `part`: what compilers hand to each other through
interfaces, and what they generate.

| Property | Component: state and steps | Says |
|---|---|---|
| `InterfacesKeepMeaning` | `InterfaceRecords`: writer and reader of every kind of declaration with types of two levels | every declaration comes back as it was written |
| | `InterfaceImage`: the chunks with header, table, checks; cut, changed, extended | only whole files are accepted |
| | `FlatInterface`: compilers of five modules that write and read flattened interfaces, with names in every order | every reference resolves, selected names are seen, no type stays open |
| | `ObjectTypes`: declarations of up to three types with their methods, then an importer that reads them | calls and `type of` constructors reach the nearest method, whoever built the tables |
| `ModulesStartInOrder` | `ModuleInit`: interface-only and whole compilations in every order, then a program | each module is initialised once, after those whose interfaces it uses |
| `CleanupAsDocumented` | `Cleanup`: programs of two nested loops, ifs and tries, run by the code that is generated for them | nothing is destroyed twice or leaked, handlers and finally bodies run as documented |
| | `ObjectLifecycle`: hierarchies of up to three types; reading, then building, deleting and raising | every embedded object of an accepted type is built once and destroyed once, in order |
| `ExpressionsAsDocumented` | `ConstantFolding`: trees over 2 and 4 bit integers on a host of 4 bits | folding keeps the values the program would compute, and constants fold |
| | `ExpressionParser`: texts of up to six tokens | they are grouped as the precedence table says |
| | `IndexContexts`: brackets and method calls in each other | `$end` is that of the innermost array, the context is restored, methods take what the reference lists |
| `OverloadsAsDocumented` | `OverloadCalls`: up to three overloads, every form of argument | the best one is called, an exact call reaches its overload, the order of declaration does not matter |
| `LoopsAsDocumented` | `ForLoop`: every form over 2 and 3 bit variables; the body changes what it likes | a range is inclusive, a count runs that often, elements come in order |

Bounds: the worlds are listed in the second half of `MCCompiler`.  They are products of
the alternatives that the code tells apart (a type that is named, wrapped or foreign; a use
that is public, private, selective or re-exported) over as few names as make the
alternatives meet.  Words of two to four bits make every overflow happen; loops of at most
four rounds reach both ends of a two-bit variable.  `Plainly` and `InOrder` leave out texts
that differ from a checked one only in what stands at a place the code does not look at.

Run `string_iif` (`ManagedStorage` alone, with the statement form `iif`) violates `HeldIsAlive`:
a finding.

## 4. Disagreements with the documents

Three are shown by a run of their own (`findings` in `PROJECT.json` quotes the lines):

| Run | Code | Document |
|---|---|---|
| `build_order` | `dqc_parser.cpp:800` reports a use cycle for a public use of a module whose implementation is being compiled: a legal program builds in one order and not in the other | `170-modules-and-packages.md:230` |
| `build_hidden` | `module_intf.cpp:1264` leaves private uses out of an object's freshness: an edit is not compiled in | `dq_module_impl.md:1114` |
| `string_iif` | `expressions.cpp:1708`: a string chosen by an `IIf` is released by the call it is passed to, and its variable keeps a freed handle | `130-memory-management-and-ownership.md:32` |

Others were met while modelling.  Each is a definition of a module (or, in the first rows, a
choice of constants) that TLC refutes; the passing runs exclude exactly these cases, by
the constants named here or in the statement of the property, whose comment says so.

| Where | Definition or constants | What the code does |
|---|---|---|
| `ModuleBuild` | `CrossedPublic`, `CircularPrivate`, `TwoSessions`, `TwoPrograms`, no deaths: `NoCircularWait` | two compilers that enter a circle of implementations from its two ends wait for each other's locks |
| | `ChainPublic`, `MainAndA`, `MaxEdits = 1`: `LinksCurrentObjects` | an interface is read after the lock under which it was found fresh is gone |
| `HttpServer` | `FilesOnly`, `OneClient`, `FileUnits = 3`: `NobodyCutOff` | EAGAIN from a full send buffer closes the connection |
| | `Pipelining = TRUE`: `AnswersComplete` | an early request strands an answer or replaces the file being sent |
| `ShellRunner` | `SigpipeIgnored = FALSE`: `ProgramSurvives` | a command that ends without reading its input kills the program |
| | `TwoEchoes`, `OneOfEach`, both with input: `CommandFinishes` | a command started at the same time inherits the write end of the other's input |
| | `FinishedIsReusable` | `shell.dq:129` declines the next command while the thread that has set `finished` has not ended, although `WaitFinishMs` has answered true; the test `shellruntest.dq:128` starts one there and expects 0 |
| | `FewPids`: `KillHitsOwnGroup` | until `finished` is set `shell_posix.dqi:261` signals the number of a child that is reaped: a command that got the number is killed; `shell/docs/index.md:227` promises the group of the runner's own child |
| `SourceFeeder` | `IncludeCyclesAreErrors`, `UnbalancedIsAnError`, `SkippedIsNoError` | a file may include itself; an open conditional at the end is accepted; skipped directives are checked |
| `FlatInterface` | `EveryInterfaceReads`, `OneRepresentation` | an anonymous type over a third module's type, named by two modules, may not resolve; a compiler can load its own module's interface |
| `ModuleInit` | `CyclesInitialized` | a circle of implementations can leave a module uninitialised |
| `ModulePaths` | `SiblingsKept` | the recorded name of a sibling can lead to a package of the same name |
| `ObjectTypes` | `Unusual`; `TableHasPlace` | a base that is not defined yet, a table that comes late, contracts that are skipped, attributes and methods that differ outside of the type |
| `TestFile` | `ValuesAreEqual`, `CompiledErrorTestFails` | a value is compared as a beginning; an error test that compiles is no failure by itself |
| `StatementParser` | `UsesAreReported`, `OneBranchPerWord` | an if or a for inside another block, and the right operand of an `and`, mark what they may not have assigned |
| `Cleanup` | `FinallyRunsOnce`, `OnlyInitializedDestroyed` | a finally body does not run once per leaving of its block; a local is destroyed whose declaration was not reached |
| `ConstantFolding` | `FoldingIsInvisible` | comparisons of what the target's int does not hold and right shifts of unsigned values of the host's width |
| `OverloadCalls` | `OverloadingRefusesNothing`, `ElementsAreConverted` | an unset variable for a refout parameter is refused among overloads; a literal whose first element fits is not converted |
| `IndexContexts` | `EveryArrayHasAnEnd`, `NothingLeft` (`Missing`) | no `$end` in what cannot be repeated; a context that is left when a runtime module is unavailable |
| `StoragePaths` | `RefinIsReadOnly`, `AcceptedIsGenerated` | methods, addresses and slices change a refin parameter; a write-only property is accepted where it is read |
| `ForLoop` | `RangesEnd` | `for i : uint8 = 0 to 255` does not end |
| `ObjectLifecycle` | `NothingHalfBuilt`; `DeletedAs = {"base"}` | an exception in a constructor cleans nothing; a delete through a base type runs the base's destructor only |
| `ManagedStorage` | the other members of `RoughForms` | counts that do not fit after a kept temporary, a clear of shared text, a dropped array, a raise between arguments, an array property |

## 5. Proofs

Every theorem holds for all values of the constants that satisfy the assumption of its
module: finitely many threads, a natural capacity and a sequence number of at least two
values (`ChannelAssumption`); `NoInode` is not an inode (`LockAssumption`); sizes are
natural or positive and the listener is no client (`HttpAssumption`); uses and commands are of
modules (`BuildAssumption`); pipes hold something and the kinds of commands, children and faults are the
modelled ones (`ShellAssumption`, `ProcessRunnerAssumption`); there is a worker
(`WorkerPoolAssumption`); documents are finitely many and texts use documents
(`LanguageServerAssumption`); the directives of a file that includes or depends on others name files
(`SourceFeederAssumption`); the longest text has a natural length (`ParserAssumption`); a call has no value, and among the
declared names are those that statements bind (`DesignatorAssumption`).  The bounds
(`MaxCalls`, `MaxRuns`, `MaxRequests`, ...) are any natural numbers.

| Module | Theorems | State |
|---|---|---|
| `MsgChannelProofs` | `TypeCorrect`, `MutexCorrect`, `WaitersCorrect`, `TimeoutCorrect` | `[]TypeOK`, `[]MutualExclusion`, `[]WaitersExact`, `[]TimeoutOnlyPastDeadline` |
| | `FifoCorrect` | `ImplementsFifo`: the refinement of `BoundedFifo` |
| | `WakeupCorrect` | `[]NoLostWakeup`, as long as the sequence number does not come back (below) |
| `ArtifactLockProofs` | `TypeCorrect`, `HolderCorrect`, `NoFileLeft` | `[]TypeOK`, `[]HolderOwnsPath`, `[]NoStrayLockFile` |
| | `LockCorrect` | `ImplementsReadWriteLock`: the refinement of `ReadWriteLock` |
| `ModuleBuildProofs` | `TypeCorrect` | `[]TypeOK` |
| | `NoCircle` | `[]NoCircularWait`, where interfaces and objects have an order |
| | `UndisturbedBuildsSucceed` | `[]BuildsAreSound`, without edits and public uses of what is being compiled |
| | `OneAtATimeLinksCurrent` | `[]LinksCurrentObjects`, for one session at a time and no private uses |
| `HttpServerProofs` | `TypeCorrect`, `DeletionCorrect` | `[]TypeOK`, `[]NoDeletedInUse` |
| | `AnswersCorrect` | `[]AnswersComplete`, for clients that wait for their answers |
| `RunnerProofs` | `ShellTypeCorrect`, `ShellNothingLeft`, `EchoIsCaptured`, `JoinedReusable` | `[]` of the parts of `CommandsLeaveNothing`, of `ShellSpec` |
| | `RunnerTypeCorrect`, `RunnerNothingLeft`, `TrueIsComplete` | `[]` of the parts of `RunsAreComplete`, of `RunnerSpec` |
| `ProcessesProofs` | `PoolTypeCorrect`, `ResultsCorrect`, `OneWorkerCorrect` | `[]` of the parts of `BatchesAreComplete`, of `PoolSpec` |
| | `ServerTypeCorrect`, `DiagnosticsCorrect`, `SymbolsCorrect`, `DefinitionsCorrect`, `AnswersCorrect` | `[]` of the parts of `EditorIsCurrent`, of `ServerSpec` |
| | `CommandsCorrect`, `RunsCorrect`, `BatchesCorrect`, `EditorCorrect` | the four invariants of the run `processes`, of its `MCSpec` |
| `FeederProofs` | `FeederInvariant` | `[]FeederIInv`, of `FeederSpec` |
| `ReadingProofs` | `ParserInvariant` | `[]ParserIInv`, of `ParserSpec` |
| | `FeederCorrect`, `AssignmentsCorrect`, `AccessCorrect` | `[]FeederSelects`, `[]AssignmentsTracked`, `[]AccessRespected`, of the `MCSpec` of the run `reading` |

So of the invariants the concurrent runs check, all are proved; what is left to TLC there is
liveness.  Of the sequential components three are proved: the two whose state is a stack
that the input drives, and the designators.  In each module the argument is an inductive invariant, a
lemma for the initial states and one per action for the steps:

* *Channel.*  `IInv` is `TypeOK`, `MutualExclusion` and `WaitersExact` together; `TypeOK` alone
  is not inductive: the decrement of `m_waiters` keeps it natural only because the
  thread that makes it is counted.  The count is the cardinality of a finite set
  (`Registered`) that gains or loses one thread.  `FlowIInv` adds the course of a call: what its
  locals hold at each place (`CallOK`), and that the thread in the ring sees the
  indices it has read (`RingOK`).  It gives `TimeoutCorrect`, and `FifoCorrect` by one
  lemma per action: the advance of the index is the abstract Put or Get, a failing test
  the refusal, every other step a stutter.  `WakeIInv` adds `Cover`: where somebody sleeps,
  what is available is no more than the signals still to be given and the threads that
  will look again; where somebody is on its way to the futex with an unchanged
  sequence number, it is no more than the calls that have yet to change that number
  and the threads that will look again.  A number that wraps exactly to a
  waiter's snapshot breaks this, and with `SeqMod = 2` TLC shows how;
  `WakeupCorrect` therefore assumes `[][SnapshotsStayOld]_event`: no signal makes the
  sequence number equal to the value that a thread in a call has taken.  In the code this
  means that no waiter is passed by 2^32 signals within one call.
* *Artifact lock.*  `IInv` says that two flocks of one inode do not conflict
  (`FlocksAgree`), that a process which holds the lock or is about to unlink has the file
  the path names (`OwnsPath`), and that the lock it has goes with its place in the
  code.  The point is `Remove`: it unlinks whatever the name stands for, and only the
  exclusive flock of the file that the name stands for makes this harmless to the
  holders.  `LockCorrect` maps `Verify` to the moment the lock is taken, the end of `hold` or
  a death to the moment it is given up.  `StrayInv` adds that whoever has unlinked its file
  and not yet closed it has a file without a name.
* *HTTP.*  `IInv`: a connection has one event in a batch and is open until that event is
  handled, because a handler closes only its own connection (`BatchOpen`); the event at
  hand is of a connection that is open, or closed by the first half of the same event
  (`EventAlive`); the batch is empty when the loop waits (`BatchDone`).  `AInv` adds for each
  client that what it read, what is under way and what is buffered are the beginning of
  the answers due, and how that goes with the request at hand and the rest of the file
  (`Answering`); and that a connection with output has its handler, is the one being
  handled, or is closed (`Attended`).
* *Module build.*  `IInv` says that the compilers of a session form a chain (`Chain`): each
  but the last waits in the middle of the use that the next one compiles (`Calls`), a
  compiler calls another only for a module that is not in its stack (`Enters`), no two
  compile to the same artifact (`Over`), each place has its locks (`Frame`), and all of them
  are among the compiles `Entered`, those that can follow from a command.  `KInv` adds
  that what a compiler has found or written is still there.
  For `NoCircle`: the artifact a compiler waits for is below the
  ones its chain holds, in one of two orders, so a circle of waits would descend for
  ever.  Its hypothesis is that there are functions `below` and `under` into the naturals
  such that public uses descend in `below`, and the objects that some compile enters
  descend in `under`.  Programs without circular uses have both (any topological
  order), and so has a circle of implementations that can be entered from one end
  only; for one that is entered from both, the instance of section 4 shows the deadlock.
  For `UndisturbedBuildsSucceed`, `SInv` adds that locks exclude (`Exclusive`), that all
  recorded versions are those of the only sources (`Zero`), that what a called compiler makes stays
  stale until it has written it (`Good`), that a caller finds what its child was for
  (`Served`), and that nothing has failed.  Its hypothesis `Undisturbed` has three parts: no
  edits; no compile publicly uses a module that is being compiled above it (what
  `build_order` violates); the commands are for programs, which no module uses.  The
  instance of `build_parallel` satisfies `Undisturbed`.  It does not satisfy the order of
  objects, as its main program uses both ends of the circle; there `NoCircularWait` holds
  because the second end is fresh when it is reached, which TLC shows and the theorem
  does not say.
  For `OneAtATimeLinksCurrent` the difficulty is that an object is rewritten while interfaces
  on disk still name the version it had, and that a source may be edited between any
  two steps.  `LInv` orders what exists by the versions of the sources it was made from:
  an interface on disk knows a version of every module that its public uses reach, and an
  object that matches it, with the objects that one links, was compiled from sources no older
  (`OnDisk`); what a compiler of the stack has collected or found is no older than the
  start of its session (`Collected`, `Recent`, `Found`), than what its callers have
  collected, and than every interface that reaches its module (`Layer`, `Layered`); and the
  callers of a compiler publicly reach its module (`Callers`).  That a module is not
  reached from its own interface on disk, whatever the graph of uses, is part of it: a
  compiler has found the interfaces of all it uses before it writes one.  The
  hypotheses are needed: private uses break the property in `build_hidden`, and a second
  session in the instance of section 4.  TLC checked `LInv` on the instance of
  `build_edits` and on a graph of three modules with two edits and three starts.
* *Shell.*  Conservation: the units of an echo's input are at one of five places (unsent, in the
  pipe to the child, in the child, in the pipe back, captured), and each action moves
  one.  `RunnerOK` says which ends the program holds and what the child may be at each
  place of caller and monitor.  What is held is closed on every way to `finished` (`HoldsOK`), so
  a failing call needs no case of its own there; what it does cost is in `ProcOK` (a child that
  is no longer waited for is reaped, or `waitpid` is in `broken` and the exit code -1) and in
  `EchoOK` (the sum holds all the same, but units may be left at any of the five places).  The
  number of a process plays no part: `Kill` may hit any command, and hits it as its own would.
* *Process runner.*  `CallOK` lists, per place, the ends the caller holds and whether there is a child
  to reap; a run shares nothing with another one except the ends its fork copies.  A `waitpid`
  that has failed is in `run[r].failed` from then on, which the result looks at (`ResultOK`).
* *Worker pool.*  Each file before `fileidx` is processed, or is held by exactly one
  worker; nobody holds a later one (`FileOK`, `Distinct`); `Phases` ties the distributor's
  place to the workers that have been told to end.
* *Language server.*  The properties are inductive with the phase of the life cycle (`Ready`) and the
  consistency of the tables; what an analysis does is a lemma over all documents
  and all sets of compilers that fail.
* *Feeder.*  What the directives read so far mean is defined without the code's stack: the level
  of a place is the number of `#if` before it without the `#endif`, a group is the
  branches of one level, and its selected branch the first that holds.  `FeederIInv`
  compares: each condition on the stack belongs to an `#if` that is still open, at the
  level of its place, and knows of its group whether it lies in what was not selected,
  whether its last branch is an else, and whether one was taken (`Tracks`).  So text is
  skipped exactly where some open group is not in its selected branch (`SelectedBranches`).
  The lemmas are about one more directive: what it does to the levels, to which groups are
  open and to their branches.  For `ReadOnce` (`Reads`): a file whose usage
  count is 1 is open in one place, and of a file that begins with `{$include_once}` at most
  one open place is past that directive, behind everything that was read of it.
* *Statements.*  The parser marks a variable at its first assignment and takes the mark back when the
  block ends.  As long as no error was reported, `ParserIInv` says: what is marked is assigned on every path
  to here, or is one of the holes (`Marked`); what a block did not find assigned, it or a block
  inside it has marked (`Owned`); what was assigned at the beginning of a block still is (`Grown`);
  marks of different blocks are different ones (`Apart`), which makes it right to take them
  back one block at a time; and a variable that all branches of an if assigned has a value
  at their ends (`Branched`).  `SoundOutsideHoles` follows.  A closing word that is kept for an
  outer block is one that an open block expects (`PendingIsExpected`).
* *Designators.*  The compiler looks at the name a designator begins with, so what it knows
  of a name must be true of the storage behind it (`NamesOK`): a name that is not initialised
  stands for its own storage; the storage an initialised one stands for has a value, and so
  has what a pointer or slice leads to; and a name that leads straight to the storage of a
  constant or refin parameter is a constant or refin parameter itself.  While an expression
  grows, each part of it that is not to be read, and its name if unset, has its
  suppressed diagnostic, or an error has been reported (`ExprOK`).  A statement that is
  accepted has dealt with these (`ReadsAreHeldBack`, `RootIsInitialized`,
  `WritesAreDirect`), so what it binds and sets keeps `NamesOK` (`ChangeKeepsNames`).
  The proof corrected the property: `ref r = p^` and then `r = ...`, with `p`
  the address of a part of a refin parameter, writes it without any pointer in the writing
  statement.  It takes three statements, one more than the run has; since then the model
  remembers of a local reference whether a pointer lies behind it (`direct`).
* *Composition.*  `PartIInv` (`processes`) is the invariant of the part that runs, `ReadingIInv` (`reading`)
  those of all three proved parts; the others do not move.

TLC checked each of these invariants on the instances of the runs before they were proved.

## 6. Only model-checked, and not modelled

* All liveness (`SleeperServed`, `TimedCallReturns`, `LockReturns`, `EveryBuildEnds`,
  `EveryRequestEnds`, `GoneClientsFreed`, `EverythingEnds`): fairness and ENABLED are beyond the
  proof system's reach.
* The properties of `compiler`.  Nine of its modules (`Cleanup`, `ConstantFolding`,
  `ExpressionParser`, `FlatInterface`, `InterfaceImage`, `InterfaceRecords`, `ModuleInit`,
  `ObjectLifecycle`, `ObjectTypes`) and the enumeration in `MCCompiler` compute over trees with
  recursive operators, which the provers do not accept.  `OverloadCalls` and `ForLoop` fold over sequences; what a fold computes for every sequence needs induction
  with an operator as parameter, as does what a recursive operator computes.
* Of `reading`: `ModulesAreFound`, `OptionsAsDocumented`, `TestVerdicts` and
  `StorageAsDocumented`, which are about what folds over path components, option sources, test
  markers and the items of arrays compute, for the same reason.
* Not modelled, with the reason, are the components of that status in `PROJECT.json`:
  TCP client manager, UDP and SQL over HTTP; JSON, collections, files, time,
  printing and databases (sequential containers and thin layers over libraries);
  the back end behind the generated control flow (LLVM, debug information); the Windows
  branches.
* Smaller observations about the code that no property needs: an interface keeps byte
  sums, which do not see exchanged bytes; `--no-use-sys` is not part of an artifact's build
  text; the reference counts are not atomic; a program's exit status is taken modulo 256;
  a language server request without a document gets no answer.
