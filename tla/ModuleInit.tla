----------------------------- MODULE ModuleInit -----------------------------
(***************************************************************************)
(* The order in which the modules of a program are initialised             *)
(* (compiler/ast/dq_module.cpp, statements.cpp).                           *)
(*                                                                         *)
(* An interface file names the initialisation function of its module and   *)
(* those of the modules that one uses; the object file holds the calls the *)
(* function makes before its own body.  Both are written when the module   *)
(* is compiled, from the interface files it read; a module in the middle   *)
(* of its own compilation is read from an interface that knows the public  *)
(* uses only.  At run time a guard makes every initialisation run once.    *)
(***************************************************************************)
EXTENDS Naturals, Sequences, FiniteSets, SequencesExt

CONSTANTS Sources,   \* the modules
          Apps,      \* those that are built as programs
          Graphs     \* the programs: uses[m], a sequence of [module, private], and inits

ASSUME AppsAreSources == Apps \subseteq Sources

VARIABLES graph,     \* the sources
          intf,      \* module -> its interface file
          object,    \* module -> the calls of its initialisation, or none
          stack,     \* the compilers that run, the innermost last
          started    \* the initialisations of the program that ran last

initVars == <<graph, intf, object, stack, started>>

None == [written |-> FALSE]

UsesOf(m, all) == SelectSeq(graph.uses[m], LAMBDA u : all \/ ~u.private)
HasInit(m)     == m \in graph.inits
InStack(m)     == \E i \in DOMAIN stack : stack[i] = m

(* Mutant: only the modules that are used directly.                       *)
InitCallsDirect(uses) ==
  LET named == SelectSeq(uses, LAMBDA u : HasInit(u.module))
  IN  [i \in DOMAIN named |-> named[i].module]

(* ModuleInitCallList: of each used module its own function and then those  *)
(* its interface names, each once.                                          *)
InitCalls(uses) ==
  LET named == FlattenSeq([i \in DOMAIN uses |->
                 (IF HasInit(uses[i].module) THEN <<uses[i].module>> ELSE <<>>)
                 \o intf[uses[i].module].deps])
  IN  FoldLeft(LAMBDA once, m : IF m \in Range(once) THEN once ELSE Append(once, m), <<>>, named)

NothingCompiled ==
            /\ intf = [m \in Sources |-> None] /\ object = [m \in Sources |-> None]
            /\ stack = <<>> /\ started = [app |-> "none", order |-> <<>>]

InitInit == graph \in Graphs /\ NothingCompiled

(* A build of an application starts.                                        *)
StartBuild(app) ==
  /\ stack = <<>> /\ ~object[app].written
  /\ stack' = <<app>>
  /\ UNCHANGED <<graph, intf, object, started>>

Ready(m, uses) == \A i \in DOMAIN uses : intf[uses[i].module].written

(* EnsureFreshInterfaceArtifact: the interface alone, from the public uses. *)
WriteInterfaceOnly(m) ==
  /\ stack # <<>> /\ ~intf[m].written /\ Ready(m, UsesOf(m, FALSE))
  /\ intf' = [intf EXCEPT ![m] = [written |-> TRUE, deps |-> InitCalls(UsesOf(m, FALSE))]]
  /\ UNCHANGED <<graph, object, stack, started>>

(* EnsureFreshCompiledArtifact for the next use of the innermost compiler,  *)
(* unless that module is being compiled further out.                        *)
Pending == LET uses == UsesOf(Last(stack), TRUE)
           IN  SelectSeq(uses, LAMBDA u : ~object[u.module].written /\ ~InStack(u.module))

CompileUsed ==
  /\ stack # <<>> /\ Pending # <<>> /\ intf[Head(Pending).module].written
  /\ stack' = Append(stack, Head(Pending).module)
  /\ UNCHANGED <<graph, intf, object, started>>

(* All uses are there: the interface and the object are written, with the   *)
(* calls in front of the body (FinalizeModuleInitFunc).                     *)
FinishCompile ==
  /\ stack # <<>> /\ Pending = <<>>
  /\ LET m == Last(stack)  uses == UsesOf(m, TRUE)
     IN  /\ Ready(m, uses)
         /\ intf'   = [intf EXCEPT ![m] = [written |-> TRUE, deps |-> InitCalls(uses)]]
         /\ object' = [object EXCEPT ![m] = [written |-> TRUE, calls |-> InitCalls(uses)]]
  /\ stack' = Front(stack)
  /\ UNCHANGED <<graph, started>>

(* One call of an initialisation: the guard, the calls, the body.           *)
RECURSIVE Initialize(_, _)
Initialize(m, run) ==
  IF m \in run.guards THEN run
  ELSE LET inner == FoldLeft(LAMBDA r, c : Initialize(c, r),
                             [run EXCEPT !.guards = @ \cup {m}], object[m].calls)
       IN  [inner EXCEPT !.order = Append(@, m)]

(* The application starts: the initialisations its uses name, then its own. *)
RunApp(app) ==
  /\ stack = <<>> /\ object[app].written
  /\ LET calls == object[app].calls \o (IF HasInit(app) THEN <<app>> ELSE <<>>)
         run   == FoldLeft(LAMBDA r, c : Initialize(c, r), [guards |-> {}, order |-> <<>>], calls)
     IN  started' = [app |-> app, order |-> run.order]
  /\ UNCHANGED <<graph, intf, object, stack>>

InitNext == (\E m \in Sources : WriteInterfaceOnly(m)) \/ CompileUsed \/ FinishCompile
            \/ \E app \in Apps : StartBuild(app) \/ RunApp(app)

-----------------------------------------------------------------------------
(* The modules a module reaches through its uses.                           *)
RECURSIVE ReachFrom(_, _)
ReachFrom(ms, seen) ==
  LET next == {u.module : u \in UNION {Range(graph.uses[m]) : m \in ms}} \ seen
  IN  IF next = {} THEN seen ELSE ReachFrom(next, seen \cup next)
Reaches(m) == ReachFrom({m}, {})

Cyclic == \E m \in Sources : m \in Reaches(m)

(* Interfaces and objects name initialisations that exist.                  *)
InitTypeOK ==
  /\ \A m \in Sources : intf[m].written => Range(intf[m].deps) \subseteq graph.inits
  /\ \A m \in Sources : object[m].written => intf[m].written /\ Range(object[m].calls) \subseteq graph.inits
  /\ stack \in Seq(Sources) /\ Cardinality(Range(stack)) = Len(stack)

Complete ==
  started.app # "none" =>
    /\ Range(started.order) = (Reaches(started.app) \cup {started.app}) \cap graph.inits
    /\ Cardinality(Range(started.order)) = Len(started.order)

UsedFirst ==
  \A i, j \in DOMAIN started.order : started.order[j] \in Reaches(started.order[i]) => j < i

(* A used module is initialised before the module that uses it, and each    *)
(* module once, whatever lies between them and in whatever order they were  *)
(* compiled (docs/020-language/170-modules-and-packages.md:180).            *)
InitializedInOrder == Cyclic \/ (UsedFirst /\ Complete)

(* Every module is initialised also where implementations use each other.   *)
CyclesInitialized == Complete
=============================================================================
