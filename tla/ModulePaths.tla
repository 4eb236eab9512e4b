----------------------------- MODULE ModulePaths -----------------------------
(***************************************************************************)
(* Where a used module comes from and where its artifacts go               *)
(* (OModulePath, src/compiler/ast/module_path.cpp).  A module has a name,  *)
(* <package>/<path below the root>, that is all an interface keeps of its  *)
(* dependencies beside their source path; the compiler that reads such an  *)
(* interface finds source and artifact again from the name and from the    *)
(* module that depends on it.                                              *)
(*                                                                         *)
(* A path is a sequence of directory and file names, absolute and normal;  *)
(* extensions are left out.                                                *)
(***************************************************************************)
EXTENDS Integers, Sequences, SequencesExt, FiniteSetsExt

CONSTANTS Directories,   \* the package directories that exist
          SourceFiles,   \* the source files that exist
          PackagePaths,  \* g_opt.package_paths: the last root wins
          PackageBuild,  \* --package-build-root, or NoPath
          Mains,         \* [source, depth, project]: what may be compiled
          UseTexts,      \* [kind, path]: what a `use` may say
          MaxUses

ASSUME PathAssumption ==
    /\ \A m \in Mains : m.source \in SourceFiles /\ m.depth \in Nat
    /\ \A u \in UseTexts : u.kind \in {"package", "local", "root"} /\ u.path # <<>>
    /\ MaxUses \in Nat

VARIABLES main,     \* the main source, or NoMain
          modules,  \* the modules compiled: what InitCurrent finds of each
          sees,     \* <<m, n>>: the interface of m depends on n
          steps

pathVars == <<main, modules, sees, steps>>

NoPath == <<>>
NoMain == [source |-> NoPath, depth |-> 0, project |-> NoPath]
Parent(path) == Front(path)
Above(path, n) == SubSeq(path, 1, Len(path) - n)

(* PrepareOutputPaths: a project owns the build tree; children are given   *)
(* it as --build-root.                                                     *)
BuildRoot == IF main.project # NoPath THEN Parent(main.project) ELSE Parent(main.source)
PackageBuildRoot == IF PackageBuild = NoPath THEN BuildRoot ELSE PackageBuild

(* ResolvePackageRoot, IsPackageRoot. *)
PackageRoot(package) ==
    LET found == {i \in DOMAIN PackagePaths : Append(PackagePaths[i], package) \in Directories}
    IN  IF found = {} THEN NoPath ELSE Append(PackagePaths[Max(found)], package)
IsPackageRoot(package, root) == \E i \in DOMAIN PackagePaths : Append(PackagePaths[i], package) = root

(* BuildArtifactPathForModule, ModuleIdFromPackageLocal. *)
ArtifactOfLocal(package, local, root) ==
    IF IsPackageRoot(package, root) THEN PackageBuildRoot \o <<".dqbuild", "pkg">> \o local
    ELSE BuildRoot \o <<".dqbuild", "local">> \o local
Artifact(package, local, root) ==
    IF IsPackageRoot(package, root) THEN PackageBuildRoot \o <<".dqbuild", "pkg", package>> \o local
    ELSE BuildRoot \o <<".dqbuild", "local">> \o local
Id(package, local) == IF local = <<package>> THEN <<package>> ELSE <<package>> \o local
LocalOf(id) == IF Len(id) = 1 THEN id ELSE Tail(id)

Module(package, local, root, source) ==
    [id |-> Id(package, local), root |-> root, source |-> source, artifact |-> Artifact(package, local, root)]

(* InitCurrent of the main source, and of a child that is told --mod-root  *)
(* and --mod-name.                                                         *)
InitMain(m) ==
    LET root == Above(m.source, m.depth + 1)
    IN  Module(Last(root), SubSeq(m.source, Len(root) + 1, Len(m.source)), root, m.source)
InitChild(resolved) == Module(Head(resolved.id), LocalOf(resolved.id), resolved.root, resolved.source)

(* NormalizeLocalPath: <<"..">> is a path above the root. *)
Climb(stack, item) ==
    CASE stack = <<"..">> -> stack
      [] item # ".." -> Append(stack, item)
      [] OTHER -> IF stack = <<>> THEN <<"..">> ELSE Front(stack)
Normalize(stack, suffix) == FoldLeft(Climb, stack, suffix)

(* ResolveFrom; NoPath as the source if it fails. *)
ResolveFrom(current, use) ==
    LET stack == IF use.kind = "local" THEN Front(LocalOf(current.id)) ELSE <<>>
        local == IF use.kind = "package" THEN LocalOf(use.path) ELSE Normalize(stack, use.path)
        package == IF use.kind = "package" THEN Head(use.path) ELSE Head(current.id)
        root == IF use.kind = "package" THEN PackageRoot(package) ELSE current.root
    IN  IF root = NoPath \/ local \in {<<>>, <<"..">>} THEN Module(package, local, root, NoPath)
        ELSE Module(package, local, root, root \o local)

(***************************************************************************)
(* From a name back to a file.                                             *)
(***************************************************************************)
(* ResolveCanonicalSource of the dependency id of module m. *)
SamePackage(id, m) == Len(id) > 1 /\ Len(m.id) > 1 /\ Head(id) = Head(m.id)
InLocal(artifact) == IsPrefix(BuildRoot \o <<".dqbuild", "local">>, artifact)
InPackages(artifact) == IsPrefix(PackageBuildRoot \o <<".dqbuild", "pkg">>, artifact)

CanonicalSource(id, m) ==
    CASE SamePackage(id, m) -> Above(m.source, Len(m.id) - 1) \o LocalOf(id)
      [] ~SamePackage(id, m) /\ PackageRoot(Head(id)) # NoPath -> PackageRoot(Head(id)) \o LocalOf(id)
      [] ~SamePackage(id, m) /\ PackageRoot(Head(id)) = NoPath ->
           IF Head(id) = Head(m.id) /\ InLocal(m.artifact) THEN BuildRoot \o LocalOf(id) ELSE NoPath

(* ResolveCanonicalArtifact, which knows the source as well. *)
CanonicalArtifact(id, m, source) ==
    LET root == PackageRoot(Head(id))
        local == LocalOf(id)
    IN  CASE root # NoPath /\ source = root \o local -> Artifact(Head(id), local, root)
          [] ~(root # NoPath /\ source = root \o local) ->
               IF source = BuildRoot \o local \/ (Head(id) = Head(m.id) /\ InLocal(m.artifact))
               THEN Artifact(Head(id), local, BuildRoot)
               ELSE IF Head(id) = Head(m.id) /\ InPackages(m.artifact)
               THEN PackageBuildRoot \o <<".dqbuild", "pkg", Head(id)>> \o local
               ELSE IF root # NoPath THEN Artifact(Head(id), local, root) ELSE NoPath

(***************************************************************************)
(* A build: every module is compiled by a compiler of its own.             *)
(***************************************************************************)
PathInit == main = NoMain /\ modules = {} /\ sees = {} /\ steps = 0

CompileMain ==
    /\ main = NoMain
    /\ main' \in Mains
    /\ modules' = {InitMain(main)'}
    /\ UNCHANGED <<sees, steps>>

(* The child ends before its parent goes on: m depends on all it uses. *)
Use(m, use) ==
    LET resolved == ResolveFrom(m, use)
        child == InitChild(resolved)
    IN  /\ steps < MaxUses /\ steps' = steps + 1
        /\ resolved.source \in SourceFiles /\ resolved.source # m.source
        /\ modules' = modules \cup {child}
        /\ sees' = sees \cup {d \in (modules \cup {child}) \X (modules \cup {child}) :
                                 /\ d[1] = m \/ <<d[1], m>> \in sees
                                 /\ d[2] = child \/ <<child, d[2]>> \in sees}
        /\ UNCHANGED main

PathNext == CompileMain \/ \E m \in modules, use \in UseTexts : Use(m, use)

(***************************************************************************)
(* Properties.                                                             *)
(***************************************************************************)
PathTypeOK ==
    /\ main \in Mains \cup {NoMain} /\ steps \in 0..MaxUses
    /\ \A m \in modules : m.source \in SourceFiles /\ Len(m.id) > 0
    /\ sees \subseteq modules \X modules

(* The directory of the main source is no package and not called like one. *)
MainRoot == Above(main.source, main.depth + 1)
NoNamesake == main # NoMain => PackageRoot(Last(MainRoot)) = NoPath

(* The modules of a build have artifacts of their own, and a module has    *)
(* one however it was imported: "Two different source files cannot claim   *)
(* the same module identity with different contents"                       *)
(* (docs/020-language/170-modules-and-packages.md:244).                    *)
ArtifactsAreDistinct ==
    NoNamesake => \A m, n \in modules : m.artifact = n.artifact <=> m.source = n.source

(* What the interface of m says of a module below it leads back to the     *)
(* source that was compiled and to the artifact it was compiled to: so an  *)
(* interface that has just been written is fresh, and everything is        *)
(* linked.  A module called like the directory it is in is the exception,  *)
(* in either place, where that is not the directory of the build.  Of the  *)
(* main module nobody reads the interface.                                 *)
LeadsBack(m, n) ==
    /\ CanonicalSource(n.id, m) = n.source
    /\ CanonicalArtifact(n.id, m, n.source) = n.artifact
Dependencies == {d \in sees : d[1].source # main.source}
NamesLeadBack ==
    NoNamesake => \A d \in Dependencies :
        LeadsBack(d[1], d[2]) \/ (1 \in {Len(d[1].id), Len(d[2].id)} /\ BuildRoot # MainRoot)

(* Of any main: "Keep sibling modules in that root instead of letting an   *)
(* unrelated package search path with the same package name override a     *)
(* local use" (src/compiler/ast/module_path.cpp:496).                      *)
SiblingsKept == \A d \in Dependencies : d[1].root = d[2].root => CanonicalSource(d[2].id, d[1]) = d[2].source
=============================================================================
