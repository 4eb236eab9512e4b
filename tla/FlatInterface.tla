--------------------------- MODULE FlatInterface ---------------------------
(***************************************************************************)
(* What the interface file of a module says of types that other modules    *)
(* own, and what a compiler has in memory after it has read such files     *)
(* (compiler/ast/module_intf.cpp).                                         *)
(*                                                                         *)
(* A module declares types; a declaration refers to types of its own       *)
(* module or of others, directly or through an anonymous pointer, array or *)
(* slice type, which is one object per base type.  The file of a module    *)
(* holds its own declarations and, grouped by the module they belong to,   *)
(* everything they and the reexported names need, so that a reader opens   *)
(* no other file.  A process compiles one root: it reads the files of the  *)
(* modules the root uses, in the order of its source, and writes the       *)
(* root's own file.  Module names are numbers, ordered like the names.     *)
(***************************************************************************)
EXTENDS Integers, Sequences, FiniteSets, SequencesExt, FiniteSetsExt

CONSTANTS Modules,    \* the module names
          Worlds      \* the programs: [decls, uses] per module

(* decls[m]: sequence of [name, body], body a sequence of [owner, name,     *)
(* wrapped]; uses[m]: sequence of [module, private, reexport, names].       *)
ASSUME ModulesAreOrdered == Modules \subseteq Nat

VARIABLES world,      \* the program being built
          file,       \* module -> the records of its interface file
          session,    \* the running compiler process
          outcome     \* "running", or why a process failed

flatVars == <<world, file, session, outcome>>

NoFile    == <<>>
NoSession == [root |-> 0]

Declares(m)   == {world.decls[m][i].name : i \in DOMAIN world.decls[m]}
BodyOf(m, n)  == LET i == CHOOSE j \in DOMAIN world.decls[m] : world.decls[m][j].name = n
                 IN world.decls[m][i].body

-----------------------------------------------------------------------------
(* Writing: the types a root's file has to describe.                        *)

(* AddModuleDependency: the consumer's group must come after the owner's.   *)
WithModule(groups, owner, consumer, root) ==
  LET known == IF owner \in DOMAIN groups THEN groups
               ELSE [m \in DOMAIN groups \cup {owner} |->
                      IF m = owner THEN [types |-> {}, deps |-> {}] ELSE groups[m]]
  IN  IF consumer \in DOMAIN known \ {owner} THEN [known EXCEPT ![consumer].deps = @ \cup {owner}]
      ELSE known

(* IncludeType, depth first; `work` holds [ref, consumer].  A type that was *)
(* met before adds no more than an edge to the group of its own module.     *)
RECURSIVE Include(_, _, _, _)
Include(work, visited, groups, root) ==
  IF work = <<>> THEN groups
  ELSE
    LET ref      == Head(work).ref
        consumer == Head(work).consumer
        foreign  == ~ref.wrapped /\ ref.owner # root
        entered  == IF foreign THEN WithModule(groups, ref.owner, consumer, root) ELSE groups
        declared == IF foreign THEN [entered EXCEPT ![ref.owner].types = @ \cup {ref.name}] ELSE entered
        children == IF ref.wrapped THEN <<[ref |-> [ref EXCEPT !.wrapped = FALSE], consumer |-> consumer]>>
                    ELSE [i \in DOMAIN BodyOf(ref.owner, ref.name) |->
                           [ref |-> BodyOf(ref.owner, ref.name)[i], consumer |-> ref.owner]]
    IN  IF ref \in visited THEN Include(Tail(work), visited, entered, root)
        ELSE Include(children \o Tail(work), visited \cup {ref}, declared, root)

(* OrderedModules: dependencies first, otherwise by name.                   *)
RECURSIVE OrderGroups(_, _, _)
OrderGroups(todo, groups, done) ==
  IF todo = {} THEN done
  ELSE LET m == Min(todo)
           below == (groups[m].deps \cap DOMAIN groups) \ Range(done)
       IN  OrderGroups(todo \ {m}, groups,
             IF m \in Range(done) THEN done ELSE Append(OrderGroups(below, groups, done), m))

(* The names of `used` that this use takes over (OModuleUse).               *)
Selected(use, visible) == {v \in visible : use.names = {} \/ v.name \in use.names}

(* The reexported names of the root with their owners; of two equal names   *)
(* the first one is kept (AddExport).                                       *)
Reexported(root) ==
  FoldLeft(LAMBDA taken, use :
             IF ~use.reexport THEN taken
             ELSE taken \cup {v \in Selected(use, session.loaded[use.module].scope) :
                                \A x \in taken : x.name # v.name},
           {}, world.uses[root])

Definition(m, n) == [tag |-> "def", name |-> n, refs |-> BodyOf(m, n)]
Tagged(t, n)     == [tag |-> t, name |-> n]
DeclOrder(m, names) == SelectSeq([i \in DOMAIN world.decls[m] |-> world.decls[m][i].name], LAMBDA n : n \in names)

(* One group of an embedded module: the names first, then the bodies.       *)
Group(m, names) ==
  LET ns == DeclOrder(m, names)
  IN  <<[tag |-> "embed", name |-> m]>> \o [i \in DOMAIN ns |-> Tagged("fwd", ns[i])]
      \o [i \in DOMAIN ns |-> Definition(m, ns[i])] \o <<[tag |-> "end", name |-> m]>>

(* The reexported names: the whole group, or each one by name.              *)
Exports(m, names, embedded) ==
  IF names = embedded THEN <<[tag |-> "all", module |-> m]>>
  ELSE [i \in DOMAIN DeclOrder(m, names) |->
         [tag |-> "export", module |-> m, name |-> DeclOrder(m, names)[i]]]

(* WriteInterfaceRecords, with OFlattenedDqmInterface before it.            *)
Written(root) ==
  LET own      == world.decls[root]
      reexport == Reexported(root)
      exported == SetToSortSeq(reexport, LAMBDA x, y : x.name < y.name)
      work     == [i \in DOMAIN own |->
                    [ref |-> [owner |-> root, name |-> own[i].name, wrapped |-> FALSE], consumer |-> root]]
                  \o [i \in DOMAIN exported |->
                    [ref |-> [owner |-> exported[i].owner, name |-> exported[i].name, wrapped |-> FALSE],
                     consumer |-> root]]
      groups   == Include(work, {}, <<>>, root)
      order    == OrderGroups(DOMAIN groups, groups, <<>>)
      names(m) == {v.name : v \in {w \in reexport : w.owner = m}}
      origins  == SetToSortSeq({v.owner : v \in reexport}, <)
  IN  [i \in DOMAIN own |-> Tagged("fwd", own[i].name)]
      \o FlattenSeq([i \in DOMAIN order |-> Group(order[i], groups[order[i]].types)])
      \o FlattenSeq([i \in DOMAIN origins |-> Exports(origins[i], names(origins[i]), groups[origins[i]].types)])
      \o [i \in DOMAIN own |-> Definition(root, own[i].name)]

-----------------------------------------------------------------------------
(* Reading.  An interface in memory: its types with their completeness, the *)
(* public scope, and whether only a facade has brought it so far.           *)
Fresh(partial) == [partial |-> partial, types |-> <<>>, scope |-> {}]

(* ResolveDqmIfQualifiedType: the module's own scope, or a loaded interface.*)
Resolves(st, ref) == ref.owner \in DOMAIN st.loaded /\ ref.name \in DOMAIN st.loaded[ref.owner].types

Define(st, m, n, complete) ==
  [st EXCEPT !.loaded[m].types = [k \in DOMAIN @ \cup {n} |-> IF k = n THEN complete ELSE @[k]],
             !.loaded[m].scope = @ \cup {[owner |-> m, name |-> n]}]

(* Names an interface had before the group (or the file) are skipped.       *)
Existing(intf) == IF intf.partial THEN DOMAIN intf.types ELSE {}

Loaded(st, m, partial) ==
  IF m \in DOMAIN st.loaded THEN st
  ELSE [st EXCEPT !.loaded = [k \in DOMAIN @ \cup {m} |-> IF k = m THEN Fresh(partial) ELSE @[k]]]

(* ReadEmbeddedModule, AddFlattenedExport and ReadDqmIfRecords, record by   *)
(* record; st.into is the module whose declarations are being read.         *)
ReadRecord(st, rec) ==
  IF ~st.ok THEN st
  ELSE CASE rec.tag = "embed" ->
              LET known == Loaded(st, rec.name, TRUE)
              IN  [known EXCEPT !.into = rec.name, !.existing = DOMAIN known.loaded[rec.name].types,
                                !.group[rec.name] = {}]
         [] rec.tag = "begin" -> st
         [] rec.tag = "end" -> [st EXCEPT !.into = st.reading, !.existing = st.before]
         [] rec.tag \in {"fwd", "def"} ->
              LET noted == [st EXCEPT !.group[st.into] = @ \cup {rec.name}]
              IN  IF rec.name \in (IF rec.tag = "fwd" THEN DOMAIN st.loaded[st.into].types ELSE st.existing)
                  THEN noted
                  ELSE IF rec.tag = "fwd" THEN Define(noted, st.into, rec.name, FALSE)
                  ELSE IF \A i \in DOMAIN rec.refs : Resolves(noted, rec.refs[i])
                  THEN Define(noted, st.into, rec.name, TRUE)
                  ELSE [st EXCEPT !.ok = FALSE]
         [] OTHER ->
              LET names == IF rec.tag = "all" THEN st.group[rec.module] ELSE {rec.name}
                  found == {[owner |-> rec.module, name |-> n] : n \in names}
                  clash == \E x \in found, y \in st.loaded[st.reading].scope :
                             x.name = y.name /\ x.owner # y.owner
              IN  IF clash THEN [st EXCEPT !.ok = FALSE]
                  ELSE [st EXCEPT !.loaded[st.reading].scope = @ \cup found]

(* ReadInterface: all the records of m's file into the interfaces in memory.*)
ReadInterface(loaded, m) ==
  LET known == Loaded([loaded |-> loaded], m, FALSE).loaded
      old   == Existing(known[m])
      st    == [loaded |-> known, reading |-> m, into |-> m, existing |-> old, before |-> old,
                group |-> [k \in Modules |-> {}], ok |-> TRUE]
      done  == FoldLeft(ReadRecord, st, file[m])
  IN  [done EXCEPT !.loaded[m].partial = FALSE]

-----------------------------------------------------------------------------
NothingBuilt == /\ file = [m \in Modules |-> NoFile]
                /\ session = NoSession
                /\ outcome = "running"

FlatInit == world \in Worlds /\ NothingBuilt

Public(uses) == SelectSeq(uses, LAMBDA u : ~u.private)

(* A compiler is started for m: for its interface only, which stops before  *)
(* the implementation, or for all of it.                                    *)
StartCompiler(m) ==
  /\ outcome = "running" /\ session = NoSession
  /\ \E uses \in {Public(world.uses[m]), world.uses[m]} :
       /\ \A i \in DOMAIN uses : file[uses[i].module] # NoFile
       /\ file[m] = NoFile \/ uses # Public(uses)
       /\ session' = [root |-> m, todo |-> uses, loaded |-> <<>>]
  /\ UNCHANGED <<world, file, outcome>>

(* UseCompiledModule: an interface that is already complete is not read.    *)
UseModule ==
  /\ outcome = "running" /\ session # NoSession /\ session.todo # <<>>
  /\ LET m    == Head(session.todo).module
         have == m \in DOMAIN session.loaded /\ ~session.loaded[m].partial
         done == IF have THEN [loaded |-> session.loaded, ok |-> TRUE] ELSE ReadInterface(session.loaded, m)
     IN  /\ session' = [session EXCEPT !.todo = Tail(@), !.loaded = done.loaded]
         /\ outcome' = IF done.ok THEN "running" ELSE "unreadable"
  /\ UNCHANGED <<world, file>>

(* WriteInterface, at the end of the interface and again at the end.        *)
Finish ==
  /\ outcome = "running" /\ session # NoSession /\ session.todo = <<>>
  /\ file' = [file EXCEPT ![session.root] = <<Tagged("begin", session.root)>> \o Written(session.root)]
  /\ session' = NoSession
  /\ UNCHANGED <<world, outcome>>

(* The process ends with an error, or all files are there.                  *)
FlatNext == (\E m \in Modules : StartCompiler(m)) \/ UseModule \/ Finish
-----------------------------------------------------------------------------
(* Properties.                                                              *)

(* What is in memory is what the program declares: nothing invented, and    *)
(* no group of a module's own names.                                        *)
FlatTypeOK ==
  /\ DOMAIN file = Modules /\ outcome \in {"running", "unreadable"}
  /\ session # NoSession =>
       \A m \in DOMAIN session.loaded : DOMAIN session.loaded[m].types \subseteq Declares(m)

(* The public names of m: its own, and what its reexports select.           *)
RECURSIVE PublicNames(_)
PublicNames(m) ==
  {[owner |-> m, name |-> n] : n \in Declares(m)}
  \cup UNION {Selected(u, PublicNames(u.module)) : u \in {v \in Range(world.uses[m]) : v.reexport}}

(* One anonymous type over a type of a third module, named by two modules.  *)
SharedWrapper ==
  \E m, n \in Modules : m # n /\
    \E i \in DOMAIN world.decls[m], j \in DOMAIN world.decls[n] :
      \E r \in Range(world.decls[m][i].body) \cap Range(world.decls[n][j].body) : r.wrapped

Conflicting(m) == \E x, y \in PublicNames(m) : x.name = y.name /\ x.owner # y.owner

(* Every interface the compiler writes can be read again, whatever was read *)
(* before it and in which order: its groups come in an order in which every *)
(* reference resolves (equal names of two owners are an error).             *)
EveryInterfaceReads == outcome = "unreadable" => \E m \in Modules : Conflicting(m)

(* The same except where two modules name one anonymous type of a third.    *)
InterfacesRead == outcome = "unreadable" => SharedWrapper \/ \E m \in Modules : Conflicting(m)

(* A facade shows exactly the names it selects: types that are only needed  *)
(* to describe them stay invisible, and a later `use` of their module shows *)
(* all of it (docs/030-compiler/060-build-process-and-module-artifacts.md). *)
SelectedNamesVisible ==
  session # NoSession /\ outcome = "running" =>
    \A m \in DOMAIN session.loaded :
      ~session.loaded[m].partial /\ ~Conflicting(m) => session.loaded[m].scope = PublicNames(m)

(* No type is left half read: what one file announces it also defines, and  *)
(* a type met again in another file is not opened anew.                     *)
NoTypeLeftOpen ==
  session # NoSession /\ outcome = "running" =>
    \A m \in DOMAIN session.loaded : FALSE \notin Range(session.loaded[m].types)

(* The compiler of m never gets a second copy of m's own types.             *)
OneRepresentation == session # NoSession => session.root \notin DOMAIN session.loaded
=============================================================================
