---------------------------- MODULE ModuleBuild ----------------------------
(***************************************************************************)
(* Compilers building modules in one .dqbuild tree.  A compiler            *)
(* (ODqCompiler::Run, src/compiler/src/dqc.cpp) holds the lock of its      *)
(* output while it parses; at each `use` it brings the interface and the   *)
(* object of the used module up to date by running a child compiler for    *)
(* each (src/compiler/ast/module_intf.cpp) and waiting for it.  A session  *)
(* is a compiler somebody started and the chain of children below it; the  *)
(* last one is the one that runs.  The locks are ReadWriteLock's.          *)
(***************************************************************************)
EXTENDS Naturals, Sequences, SequencesExt

CONSTANTS Sessions,
          Modules,
          PublicUses,    (* module -> what its public section uses         *)
          PrivateUses,   (* module -> what its implementation section uses *)
          Commands,      (* session -> the [mod, ifgen] it may be told     *)
          Applications,  (* the modules with a main function: they link    *)
          MaxEdits,      (* bound on the edits of the sources              *)
          MaxStarts,     (* bound on the runs of a session                 *)
          MayDie         (* whether sessions are killed                    *)

ASSUME BuildAssumption ==
  /\ PublicUses \in [Modules -> Seq(Modules)]
  /\ PrivateUses \in [Modules -> Seq(Modules)]
  /\ Commands \in [Sessions -> SUBSET [mod : Modules, ifgen : BOOLEAN]]
  /\ MaxEdits \in Nat /\ MaxStarts \in Nat /\ MayDie \in BOOLEAN

VARIABLES src,      (* the version (size and time) of each source          *)
          intf,     (* the .dqm_if of each module, or Missing              *)
          obj,      (* the .o of each module, or Missing                   *)
          stack,    (* the compilers of each session, outermost first      *)
          result,   (* how each session ended                              *)
          started,  (* history: the sources as each session started        *)
          starts

vars == <<src, intf, obj, stack, result, started, starts>>

Missing == [missing |-> TRUE]

Init ==
  /\ src     = [m \in Modules |-> 0]
  /\ intf    = [m \in Modules |-> Missing]
  /\ obj     = [m \in Modules |-> Missing]
  /\ stack   = [s \in Sessions |-> <<>>]
  /\ result  = [s \in Sessions |-> "none"]
  /\ started = [s \in Sessions |-> src]
  /\ starts  = [s \in Sessions |-> 0]

-----------------------------------------------------------------------------
(* Locks.  An artifact is <<"if", m>> or <<"o", m>>; holds of a compiler   *)
(* maps those it has locked to the mode.                                   *)
Interface(m) == <<"if", m>>
Object(m)    == <<"o", m>>

Holders(a, modes) ==
  {s \in Sessions : \E i \in DOMAIN stack[s] :
     a \in DOMAIN stack[s][i].holds /\ stack[s][i].holds[a] \in modes}

(* The locks of a compiler that takes one more.                            *)
With(holds, a, mode) ==
  [b \in DOMAIN holds \cup {a} |-> IF b \in DOMAIN holds THEN holds[b] ELSE mode]

SharedBlockers(a)    == Holders(a, {"EXCLUSIVE"})
ExclusiveBlockers(a) == Holders(a, {"SHARED", "EXCLUSIVE"})

(* Freshness.  deps of an interface: the version of every source it was    *)
(* made from; stamp: the object it goes with, 0 if --ifgen wrote it.       *)
MetadataMatchesSources(deps) == \A m \in DOMAIN deps : src[m] = deps[m]

InterfaceArtifactIsFresh(m) ==
  intf[m] # Missing /\ MetadataMatchesSources(intf[m].deps)

ObjectArtifactIsFresh(m) ==
  /\ obj[m] # Missing
  /\ InterfaceArtifactIsFresh(m)
  /\ intf[m].stamp = obj[m].stamp

-----------------------------------------------------------------------------
(* A compiler: again tells that it ran a child for the check it is at.     *)
Compiler(m, ifgen, regen) ==
  [mod |-> m, ifgen |-> ifgen, regen |-> regen, pc |-> "lock", use |-> 1,
   again |-> FALSE, holds |-> <<>>, deps |-> <<>>, from |-> {}, links |-> {}]

Me(s)        == Last(stack[s])
At(s, where) == stack[s] # <<>> /\ Me(s).pc = where
Become(s, c) == stack' = [stack EXCEPT ![s] = Append(Front(@), c)]
Goto(s, where) == Become(s, [Me(s) EXCEPT !.pc = where, !.again = FALSE])

Output(c) == IF c.ifgen THEN Interface(c.mod) ELSE Object(c.mod)

(* The implementation section is not parsed in --ifgen mode.               *)
Uses(c) == IF c.ifgen THEN PublicUses[c.mod]
           ELSE PublicUses[c.mod] \o PrivateUses[c.mod]

Used(s)     == Uses(Me(s))[Me(s).use]
IsPublic(c) == c.use <= Len(PublicUses[c.mod])

Quiet == UNCHANGED <<src, intf, obj, result, started, starts>>

(* RunModuleChildCompile: the child runs with --regen-if-stale.            *)
RunChild(s, ifgen) ==
  stack' = [stack EXCEPT ![s] =
              Front(@) \o <<[Me(s) EXCEPT !.again = TRUE],
                            Compiler(Used(s), ifgen, TRUE)>>]

(* The compiler exits, which gives up its locks; a parent whose child      *)
(* failed fails.                                                           *)
Exit(s, outcome) ==
  LET rest == Front(stack[s]) IN
  /\ stack' = [stack EXCEPT ![s] =
       IF rest = <<>> \/ outcome = "ok" THEN rest
       ELSE Append(Front(rest), [Last(rest) EXCEPT !.pc = "error"])]
  /\ result' = [result EXCEPT ![s] = IF rest = <<>> THEN outcome ELSE @]

Start(s) ==
  /\ stack[s] = <<>> /\ starts[s] < MaxStarts
  /\ starts' = [starts EXCEPT ![s] = @ + 1]
  /\ \E c \in Commands[s] :
       stack' = [stack EXCEPT ![s] = <<Compiler(c.mod, c.ifgen, FALSE)>>]
  /\ started' = [started EXCEPT ![s] = src]
  /\ result' = [result EXCEPT ![s] = "none"]
  /\ UNCHANGED <<src, intf, obj>>

LockOutput(s) ==
  /\ At(s, "lock")
  /\ ExclusiveBlockers(Output(Me(s))) = {}
  /\ Become(s, [Me(s) EXCEPT !.pc = "opened",
                             !.holds = With(<<>>, Output(Me(s)), "EXCLUSIVE")])
  /\ Quiet

(* --regen-if-stale: somebody else may have built it while we waited.      *)
AlreadyFresh(s) ==
  /\ At(s, "opened")
  /\ Me(s).regen
  /\ IF Me(s).ifgen THEN InterfaceArtifactIsFresh(Me(s).mod)
                    ELSE ObjectArtifactIsFresh(Me(s).mod)
  /\ Exit(s, "ok")
  /\ UNCHANGED <<src, intf, obj, started, starts>>

(* scf->Init: the source is read, and its size and time with it.           *)
LoadSource(s) ==
  LET c == Me(s) IN
  /\ At(s, "opened")
  /\ c.regen => IF c.ifgen THEN ~InterfaceArtifactIsFresh(c.mod)
                           ELSE ~ObjectArtifactIsFresh(c.mod)
  /\ Become(s, [c EXCEPT !.pc = "use", !.deps = [m \in {c.mod} |-> src[m]],
                         !.from = {<<c.mod, src[c.mod]>>}])
  /\ Quiet

-----------------------------------------------------------------------------
(* --ifstack: the modules being compiled from the outermost one down.      *)
IsInModuleUseStack(s) ==
  Used(s) \in {stack[s][i].mod : i \in DOMAIN stack[s]}

MoreUses(s) == At(s, "use") /\ Me(s).use <= Len(Uses(Me(s)))

(* DQERR_USE_CYCLE.                                                        *)
UseCycle(s) ==
  /\ MoreUses(s) /\ IsInModuleUseStack(s) /\ IsPublic(Me(s))
  /\ Goto(s, "error")
  /\ Quiet

BeginUse(s) ==
  /\ MoreUses(s) /\ ~(IsInModuleUseStack(s) /\ IsPublic(Me(s)))
  /\ Goto(s, "interface")
  /\ Quiet

(* Mutant: a used module is compiled even if it is being compiled above.   *)
NeedsObjectAlways(s) == ~Me(s).ifgen

NeedsObject(s) == ~Me(s).ifgen /\ ~IsInModuleUseStack(s)

(* EnsureFreshInterfaceArtifact: a missing interface is stale unlocked.    *)
CheckInterface(s, where, found) ==
  /\ At(s, where)
  /\ intf[Used(s)] # Missing => SharedBlockers(Interface(Used(s))) = {}
  /\ \/ InterfaceArtifactIsFresh(Used(s)) /\ found
     \/ /\ ~InterfaceArtifactIsFresh(Used(s))
        /\ IF Me(s).again THEN Goto(s, "error") ELSE RunChild(s, TRUE)
  /\ Quiet

EnsureInterface(s) ==
  CheckInterface(s, "interface",
                 Goto(s, IF NeedsObject(s) THEN "object" ELSE "read"))

(* ObjectArtifactIsFresh locks the object, then the interface.             *)
LockObject(s) ==
  /\ At(s, "object")
  /\ SharedBlockers(Object(Used(s))) = {}
  /\ Become(s, [Me(s) EXCEPT !.pc = "locked",
                             !.holds = With(@, Object(Used(s)), "SHARED")])
  /\ Quiet

Unlocked(c, a) ==
  [c EXCEPT !.holds = [b \in DOMAIN @ \ {a} |-> @[b]]]

(* EnsureFreshCompiledArtifact: a stale object needs the interface, then a *)
(* child; an object still stale after the child is an error.               *)
CheckObject(s) ==
  LET c == Unlocked(Me(s), Object(Used(s))) IN
  /\ At(s, "locked")
  /\ SharedBlockers(Interface(Used(s))) = {}
  /\ Become(s, [c EXCEPT !.pc = IF ObjectArtifactIsFresh(Used(s)) THEN "read"
                                ELSE IF c.again THEN "error"
                                ELSE "reinterface",
                         !.again = FALSE])
  /\ Quiet

EnsureInterfaceAgain(s) ==
  CheckInterface(s, "reinterface", Goto(s, "compile"))

CompileUsed(s) ==
  /\ At(s, "compile")
  /\ stack' = [stack EXCEPT ![s] =
                 Front(@) \o <<[Me(s) EXCEPT !.pc = "object", !.again = TRUE],
                               Compiler(Used(s), FALSE, TRUE)>>]
  /\ Quiet

(* Mutant: the interface records the sources of its own module only.       *)
FreshnessDepsOwn(c, u) == c.deps

(* Flattened freshness: the sources of a public use are sources of this    *)
(* one; of two versions of a source, the one seen first is kept.           *)
FreshnessDeps(c, u) ==
  IF IsPublic(c)
  THEN [m \in DOMAIN c.deps \cup DOMAIN intf[u].deps |->
          IF m \in DOMAIN c.deps THEN c.deps[m] ELSE intf[u].deps[m]]
  ELSE c.deps

(* UseCompiledModule.                                                      *)
ReadInterface(s) ==
  LET c == Me(s)  u == Used(s) IN
  /\ At(s, "read")
  /\ SharedBlockers(Interface(u)) = {}
  /\ Become(s, [c EXCEPT
       !.pc = "use", !.use = @ + 1,
       !.deps = FreshnessDeps(c, u),
       !.from = @ \cup {<<m, intf[u].deps[m]>> : m \in DOMAIN intf[u].deps},
       !.links = @ \cup {u} \cup intf[u].links])
  /\ Quiet

-----------------------------------------------------------------------------
Parsed(s) == At(s, "use") /\ ~MoreUses(s)

(* WriteInterface: stamp names the object on disk.                         *)
NewInterface(c, stamp) ==
  [deps |-> c.deps, stamp |-> stamp, links |-> c.links \ {c.mod}]

PublishInterface(s) ==
  /\ Parsed(s) /\ Me(s).ifgen
  /\ intf' = [intf EXCEPT ![Me(s).mod] = NewInterface(Me(s), 0)]
  /\ Exit(s, "ok")
  /\ UNCHANGED <<src, obj, started, starts>>

(* A time no artifact on disk knows: two writes of an object never have    *)
(* the same size and time.                                                 *)
NewStamp(m) ==
  CHOOSE n \in 1..3 : /\ obj[m] # Missing => obj[m].stamp # n
                      /\ intf[m] # Missing => intf[m].stamp # n

(* GenerateIr, EmitObject.                                                 *)
EmitObject(s) ==
  /\ Parsed(s) /\ ~Me(s).ifgen
  /\ obj' = [obj EXCEPT ![Me(s).mod] =
               [from |-> Me(s).from, stamp |-> NewStamp(Me(s).mod)]]
  /\ Goto(s, "publish")
  /\ UNCHANGED <<src, intf, result, started, starts>>

(* Mutant: the interface is written without the object's stamp.            *)
WriteInterfaceUnstamped(s) ==
  LET c == Me(s) IN
  /\ At(s, "publish")
  /\ ExclusiveBlockers(Interface(c.mod)) = {}
  /\ intf' = [intf EXCEPT ![c.mod] = NewInterface(c, 0)]
  /\ Become(s, [c EXCEPT !.pc = "finish",
                         !.holds = With(@, Interface(c.mod), "EXCLUSIVE")])
  /\ UNCHANGED <<src, obj, result, started, starts>>

WriteInterface(s) ==
  LET c == Me(s) IN
  /\ At(s, "publish")
  /\ ExclusiveBlockers(Interface(c.mod)) = {}
  /\ intf' = [intf EXCEPT ![c.mod] = NewInterface(c, obj[c.mod].stamp)]
  /\ Become(s, [c EXCEPT !.pc = "finish",
                         !.holds = With(@, Interface(c.mod), "EXCLUSIVE")])
  /\ UNCHANGED <<src, obj, result, started, starts>>

(* LinkExecutable, in a compiler that has a main function and was not told *)
(* -c; it reads the objects as they are, without their locks.              *)
Links(s) == Len(stack[s]) = 1 /\ Me(s).mod \in Applications

Linked(s) == {Me(s).mod} \cup Me(s).links

Finish(s) ==
  /\ At(s, "finish")
  /\ Exit(s, "ok")
  /\ UNCHANGED <<src, intf, obj, started, starts>>

Fail(s) ==
  /\ At(s, "error")
  /\ Exit(s, "failed")
  /\ UNCHANGED <<src, intf, obj, started, starts>>

-----------------------------------------------------------------------------
(* The user saves a source file.                                           *)
Edit(m) ==
  /\ src[m] < MaxEdits
  /\ src' = [src EXCEPT ![m] = @ + 1]
  /\ UNCHANGED <<intf, obj, stack, result, started, starts>>

(* Somebody kills a session, the children with it; what is on disk stays.  *)
Die(s) ==
  /\ MayDie /\ stack[s] # <<>>
  /\ stack' = [stack EXCEPT ![s] = <<>>]
  /\ UNCHANGED <<src, intf, obj, result, started, starts>>

Run(s) ==
  \/ LockOutput(s) \/ AlreadyFresh(s) \/ LoadSource(s) \/ UseCycle(s)
  \/ BeginUse(s) \/ EnsureInterface(s) \/ LockObject(s) \/ CheckObject(s)
  \/ EnsureInterfaceAgain(s) \/ CompileUsed(s) \/ ReadInterface(s)
  \/ PublishInterface(s) \/ EmitObject(s) \/ WriteInterface(s) \/ Finish(s)
  \/ Fail(s)

(* Everybody is done: the terminal state is not a deadlock.                *)
Finished ==
  /\ \A s \in Sessions : stack[s] = <<>>
  /\ UNCHANGED vars

Next ==
  \/ \E s \in Sessions : Start(s) \/ Run(s) \/ Die(s)
  \/ \E m \in Modules : Edit(m)
  \/ Finished

Spec == Init /\ [][Next]_vars

(* The compilers are processes the operating system schedules.             *)
LiveSpec == Spec /\ \A s \in Sessions : WF_vars(Run(s))
-----------------------------------------------------------------------------
(* The artifact a session's last compiler is about to lock or read, and    *)
(* the sessions whose locks are in its way.                                *)
WaitsFor(s) ==
  CASE At(s, "lock")    -> ExclusiveBlockers(Output(Me(s)))
    [] At(s, "publish") -> ExclusiveBlockers(Interface(Me(s).mod))
    [] At(s, "object")  -> SharedBlockers(Object(Used(s)))
    [] \/ At(s, "locked") \/ At(s, "read")
       \/ (At(s, "interface") \/ At(s, "reinterface"))
          /\ intf[Used(s)] # Missing
                        -> SharedBlockers(Interface(Used(s)))
    [] OTHER            -> {}

(* The variables keep their types; only the last compiler of a session     *)
(* runs, the others wait for a child in the middle of a use; and a child   *)
(* compiles a module nobody above it compiles to the same artifact.        *)
TypeOK ==
  /\ src \in [Modules -> 0..MaxEdits]
  /\ result \in [Sessions -> {"none", "ok", "failed"}]
  /\ starts \in [Sessions -> 0..MaxStarts]
  /\ \A m \in Modules :
       /\ intf[m] # Missing => m \in DOMAIN intf[m].deps
       /\ obj[m] # Missing => obj[m].stamp \in 1..3
  /\ \A s \in Sessions : \A i \in DOMAIN stack[s] :
       LET c == stack[s][i] IN
       /\ c.mod \in Modules /\ c.links \subseteq Modules
       /\ c.use \in 1..(Len(Uses(c)) + 1)
       /\ i < Len(stack[s]) =>
            c.again /\ c.pc \in {"interface", "reinterface", "object"}
       /\ \A j \in 1..(i - 1) : Output(stack[s][j]) # Output(c)

(* No set of sessions waits for locks its own members hold: compilers that *)
(* build the same modules at the same time, each holding its output while  *)
(* it waits for the modules it uses, do not lock each other up, nor does a *)
(* child wait for the compiler that waits for it.                          *)
NoCircularWait ==
  \A W \in (SUBSET Sessions) \ {{}} :
    \E s \in W : WaitsFor(s) \cap W = {}

(* A program whose sources nobody touches, built by any number of          *)
(* compilers at once, some of them killed, builds: each child that         *)
(* returned success left an artifact its parent finds fresh.               *)
EveryBuildSucceeds == \A s \in Sessions : result[s] # "failed"

(* What is on disk and in the hands of the compilers has its type, and no  *)
(* build of unedited, compilable sources reports a failure.                *)
BuildsAreSound == TypeOK /\ EveryBuildSucceeds

(* What an application is linked from was compiled from sources, its own   *)
(* and those of every interface it read, no older than when the build      *)
(* began: no stale object is taken for a fresh one.                        *)
LinksCurrentObjects ==
  [][\A s \in Sessions : Links(s) /\ Finish(s) =>
       \A m \in Linked(s) : \A v \in obj[m].from : v[2] >= started[s][v[1]]
    ]_vars

(* Every compiler comes to an end: no lock is waited for for ever and no   *)
(* recursion of child compilers goes on.                                   *)
EveryBuildEnds == \A s \in Sessions : stack[s] # <<>> ~> stack[s] = <<>>
=============================================================================
