---------------------------- MODULE BuildOptions ----------------------------
(***************************************************************************)
(* The options of a compilation: defaults, the statements of a project     *)
(* file and of the files it includes (projectfile.cpp), the command line   *)
(* (main_dq_comp.cpp, comp_options.cpp), and what a compiler tells the     *)
(* compilers that it starts for the modules it uses (module_intf.cpp).     *)
(*                                                                         *)
(* A statement and an argument of the command line are records: op, value, *)
(* and name where there is one.  Flags are "on" and "off".                 *)
(***************************************************************************)
EXTENDS Integers, Sequences, SequencesExt, FiniteSetsExt

CONSTANTS Targets,      \* name -> [bare, supported, exceptions, dynstrings]
          Host,         \* the target of the machine
          DefaultRoots, \* DefaultPackagePaths
          Installed,    \* <<root, package>>: the packages that exist
          Projects,     \* [files: file -> statements]: file "top" is given, or no project
          Arguments, MaxArguments, MaxChildren

VARIABLES project,  \* the project files, NoFiles if there are none
          args,     \* the command line
          phase,
          opt,      \* g_opt
          includes, \* the include stack: [file, next]
          seen,     \* properties, defines and variables that are taken
          vars,     \* variables: name -> package root
          read,     \* history: the statements evaluated, in order, expanded
          parent,   \* the options of the compiler that started this one
          children, \* how many compilers are above
          product   \* what a compilation wrote

optionVars == <<project, args, phase, opt, includes, seen, vars, read, parent, children, product>>

NoFiles == [none |-> <<>>]
NoVars == [none |-> ""]
Unset == "unset"
Defaults == [target |-> Unset, exceptions |-> "on", exceptionsSet |-> FALSE, dynstrings |-> "on", dynstringsSet |-> FALSE,
             optlevel |-> "1", debug |-> "off", lto |-> "off", link |-> "auto", linkChosen |-> FALSE, cpu |-> Unset, defines |-> <<>>,
             cliDefines |-> {}, packages |-> DefaultRoots, linker |-> <<>>, objects |-> <<>>, input |-> Unset, output |-> Unset,
             outputChosen |-> FALSE, tag |-> <<>>, suffix |-> <<>>, ifgen |-> "off", projectSeen |-> FALSE, error |-> FALSE]

Failed(o) == [o EXCEPT !.error = TRUE]
Values(sequence, op) == LET is(x) == x.op = op IN [i \in DOMAIN SelectSeq(sequence, is) |-> SelectSeq(sequence, is)[i].value]
Has(sequence, op) == Values(sequence, op) # <<>>
DefinitionOf(w) == [name |-> w.name, value |-> w.value]

(* ResolvePackageRoot: the last root that has the package. *)
Lookup(roots, package) ==
    LET found == {i \in DOMAIN roots : <<roots[i], package>> \in Installed}
    IN  IF found = {} THEN Unset ELSE roots[Max(found)]

(***************************************************************************)
(* The project.                                                            *)
(***************************************************************************)
Unchanged == UNCHANGED <<project, args, parent, children, product>>
CurrentFile == Last(includes)
Statement == project[CurrentFile.file][CurrentFile.next]
AtStatement(ops) == phase = "project" /\ includes # <<>> /\ CurrentFile.next <= Len(project[CurrentFile.file]) /\ Statement.op \in ops
Advanced == [includes EXCEPT ![Len(includes)].next = @ + 1]
Reject == phase' = "error" /\ UNCHANGED <<opt, includes, seen, vars, read>> /\ Unchanged

Single == {"target", "exceptions", "dynstrings", "optlevel", "debug", "lto", "link", "cpu", "main", "output", "static"}

(* ${NAME} in a value. *)
Expandable(st) == st.var = "" \/ st.var \in DOMAIN vars
Expanded(st) == IF st.var = "" THEN st.value ELSE vars[st.var]

Evaluated ==
    /\ includes' = Advanced /\ UNCHANGED phase /\ Unchanged
    /\ read' = Append(read, [Statement EXCEPT !.value = Expanded(Statement)])

Property(o, op, value) ==
    CASE op = "target" -> [o EXCEPT !.target = value]
      [] op = "exceptions" -> [o EXCEPT !.exceptions = value, !.exceptionsSet = TRUE]
      [] op = "dynstrings" -> [o EXCEPT !.dynstrings = value, !.dynstringsSet = TRUE]
      [] op = "optlevel" -> [o EXCEPT !.optlevel = value]
      [] op = "debug" -> [o EXCEPT !.debug = value]
      [] op = "lto" -> [o EXCEPT !.lto = value]
      [] op = "link" -> [o EXCEPT !.link = IF value = "on" THEN "force" ELSE "compile"]
      [] op = "cpu" -> [o EXCEPT !.cpu = value]
      [] op = "main" -> [o EXCEPT !.input = value]
      [] op = "output" -> [o EXCEPT !.output = value]
      [] op = "static" -> [o EXCEPT !.linker = IF value = "on" THEN Append(@, "-static") ELSE @]
      [] op = "package" -> [o EXCEPT !.packages = Append(@, value)]
      [] op = "object" -> [o EXCEPT !.objects = Append(@, value)]
      [] op = "linker" -> [o EXCEPT !.linker = Append(@, value)]

(* ParseProperty: CheckDuplicate, then the value. *)
ParseProperty ==
    /\ AtStatement(Single \cup {"package", "object", "linker"})
    /\ IF (Statement.op \in Single /\ Statement.op \in seen) \/ ~Expandable(Statement)
          \/ (Statement.op = "target" /\ Statement.value \notin DOMAIN Targets)
       THEN Reject
       ELSE /\ opt' = Property(opt, Statement.op, Expanded(Statement))
            /\ seen' = seen \cup ({Statement.op} \cap Single)
            /\ UNCHANGED vars /\ Evaluated

ParseDefine ==
    /\ AtStatement({"define"})
    /\ IF "define " \o Statement.name \in seen THEN Reject
       ELSE /\ opt' = [opt EXCEPT !.defines = Append(@, DefinitionOf(Statement))]
            /\ seen' = seen \cup {"define " \o Statement.name}
            /\ UNCHANGED vars /\ Evaluated

(* var NAME = PackagePath('package'), with the roots of the command line.  *)
ParseVariable ==
    LET roots == opt.packages \o Values(args, "package")
        found == Lookup(roots, Statement.value)
    IN  /\ AtStatement({"var"})
        /\ IF Statement.name \in DOMAIN vars \/ found = Unset THEN Reject
           ELSE /\ vars' = [n \in DOMAIN vars \cup {Statement.name} |-> IF n = Statement.name THEN found ELSE vars[n]]
                /\ UNCHANGED <<opt, seen>> /\ Evaluated

ParseInclude ==
    /\ AtStatement({"include"})
    /\ IF Statement.value \notin DOMAIN project \/ \E i \in DOMAIN includes : includes[i].file = Statement.value THEN Reject
       ELSE /\ includes' = Append(Advanced, [file |-> Statement.value, next |-> 1])
            /\ UNCHANGED <<opt, seen, vars, read, phase>> /\ Unchanged

EndOfFile ==
    /\ phase = "project" /\ includes # <<>> /\ CurrentFile.next > Len(project[CurrentFile.file])
    /\ includes' = Front(includes)
    /\ phase' = IF Len(includes) > 1 THEN phase ELSE IF opt.input = Unset THEN "error" ELSE "arguments"
    /\ UNCHANGED <<opt, seen, vars, read>> /\ Unchanged

(***************************************************************************)
(* The command line.                                                       *)
(***************************************************************************)
(* ConfigureFromCommandLine: all --target are the same. *)
Target(o, words) ==
    LET named == ToSet(Values(words, "target"))
    IN  IF Cardinality(named) > 1 \/ ~(named \subseteq DOMAIN Targets) THEN Failed(o)
        ELSE [o EXCEPT !.target = IF named # {} THEN CHOOSE t \in named : TRUE ELSE IF @ = Unset THEN Host ELSE @]

ApplyDefaultsAlways(o) == [o EXCEPT !.exceptions = Targets[o.target].exceptions, !.dynstrings = Targets[o.target].dynstrings]
ApplyTargetDefaults(o) ==
    [o EXCEPT !.exceptions = IF o.exceptionsSet THEN @ ELSE Targets[o.target].exceptions,
              !.dynstrings = IF o.dynstringsSet THEN @ ELSE Targets[o.target].dynstrings]

Without(defines, name) == LET other(d) == d.name # name IN SelectSeq(defines, other)
ReplacedDefines(o, w) == IF w.name \in o.cliDefines THEN o.defines ELSE Without(o.defines, w.name)

SelectLinkMode(o, mode) ==
    IF o.linkChosen /\ mode # o.link THEN Failed(o) ELSE [o EXCEPT !.link = mode, !.linkChosen = TRUE]

(* The input, then the output for lack of -o; the project is neither. *)
Positional(o, w) ==
    CASE w.value = "top" /\ project # NoFiles /\ ~o.projectSeen -> [o EXCEPT !.projectSeen = TRUE]
      [] ~(w.value = "top" /\ project # NoFiles /\ ~o.projectSeen) ->
           IF o.input = Unset THEN [o EXCEPT !.input = w.value]
           ELSE IF o.outputChosen THEN Failed(o) ELSE [o EXCEPT !.output = w.value, !.outputChosen = TRUE]

ProcessArgument(o, w) ==
    CASE w.op \in {"exceptions", "dynstrings", "optlevel", "debug", "lto", "cpu", "package", "linker", "static"} -> Property(o, w.op, w.value)
      [] w.op = "link" -> SelectLinkMode(o, w.value)
      [] w.op = "define" -> [o EXCEPT !.defines = Append(ReplacedDefines(o, w), DefinitionOf(w)), !.cliDefines = @ \cup {w.name}]
      [] w.op = "build" -> [o EXCEPT !.tag = w.value]
      [] w.op = "suffix" -> [o EXCEPT !.suffix = w.value]
      [] w.op = "output" -> [o EXCEPT !.output = w.value, !.outputChosen = TRUE]
      [] w.op = "file" -> Positional(o, w)
      [] w.op = "ifgen" -> [o EXCEPT !.ifgen = "on"]
      [] w.op = "target" -> o

(* ProcessCommandLineOpts, ValidateTargetSettings; and two defines of one  *)
(* name, which Run cannot enter into @def.                                 *)
Processed(o, words) ==
    LET p == FoldLeft(ProcessArgument, [o EXCEPT !.tag = <<o.target>>], words)
        named == [p EXCEPT !.tag = @ \o p.suffix]
    IN  IF p.error \/ p.input = Unset \/ (p.exceptions = "on" /\ ~Targets[p.target].supported)
              \/ \E i, j \in DOMAIN p.defines : i # j /\ p.defines[i].name = p.defines[j].name
        THEN Failed(p) ELSE named

Configured(o, words) ==
    LET t == Target(o, words) IN IF t.error THEN t ELSE Processed(ApplyTargetDefaults(t), words)

Configure ==
    /\ phase = "arguments"
    /\ opt' = Configured(opt, args)
    /\ phase' = IF opt'.error THEN "error" ELSE "compile"
    /\ UNCHANGED <<includes, seen, vars, read>> /\ Unchanged

(***************************************************************************)
(* The compilation.                                                        *)
(***************************************************************************)
IsBare(o) == Targets[o.target].bare
ShouldLink(o, hasMain) == o.link = "force" \/ (o.link = "auto" /\ ~IsBare(o) /\ hasMain)
OutputOr(o, default) == IF o.output = Unset THEN default ELSE o.output

(* PrepareOutputPaths: what is compiled to, and what is linked to. *)
DirectObject(o) == o.link = "compile" \/ (o.link = "auto" /\ IsBare(o))
OutFilename(o) == CASE o.ifgen = "on" -> OutputOr(o, "module.dqm_if")
                    [] o.ifgen = "off" /\ DirectObject(o) -> OutputOr(o, "module.o")
                    [] o.ifgen = "off" /\ ~DirectObject(o) -> "module.o"
LinkOutput(o) == IF DirectObject(o) THEN "" ELSE OutputOr(o, "application")

(* BuildLinkArgs, by the kinds of its arguments. *)
LinkArguments(o) ==
    <<"target">> \o o.linker \o (IF o.lto = "full" THEN <<"-flto">> ELSE <<>>)
      \o <<"main object", "module objects">> \o o.objects \o <<"-o">> \o <<"libraries">>

(* ODqCompiler::Run from the end of the parsing. *)
Compile(hasMain) ==
    /\ phase = "compile"
    /\ product' = IF opt.ifgen = "on" THEN [kind |-> "interface", file |-> OutFilename(opt), command |-> <<>>]
                  ELSE IF ShouldLink(opt, hasMain)
                  THEN [kind |-> "application", file |-> LinkOutput(opt), command |-> LinkArguments(opt)]
                  ELSE [kind |-> "object", command |-> <<>>,
                        file |-> IF opt.link = "auto" /\ ~IsBare(opt) THEN OutputOr(opt, OutFilename(opt)) ELSE OutFilename(opt)]
    /\ phase' = "done"
    /\ UNCHANGED <<project, args, opt, includes, seen, vars, read, parent, children>>

(* ModuleChildArgs. *)
Word(op, value) == [op |-> op, value |-> value]
CpuWords(o) == IF o.cpu = Unset THEN <<>> ELSE <<Word("cpu", o.cpu)>>
ChildArgs(o, ifgen) ==
    <<Word(IF ifgen THEN "ifgen" ELSE "link", "compile"), Word("target", o.target), Word("file", "used"), Word("output", "artifact"), Word("build", o.tag),
      Word("optlevel", o.optlevel), Word("exceptions", o.exceptions), Word("dynstrings", o.dynstrings)>>
    \o CpuWords(o)
    \o (IF o.lto = "full" THEN <<Word("lto", "full")>> ELSE <<>>)
    \o (IF o.debug = "on" THEN <<Word("debug", "on")>> ELSE <<>>)
    \o [i \in DOMAIN o.defines |-> [op |-> "define", name |-> o.defines[i].name, value |-> o.defines[i].value]]
    \o [i \in DOMAIN o.packages |-> Word("package", o.packages[i])]

(* A module that is used is compiled by a child, which reads no project. *)
Spawn(ifgen) ==
    LET inherited == Configured(Defaults, ChildArgs(opt, ifgen))
    IN  /\ phase = "compile" /\ children < MaxChildren
        /\ parent' = opt /\ opt' = inherited /\ children' = children + 1
        /\ phase' = IF inherited.error THEN "error" ELSE phase
        /\ UNCHANGED <<project, args, includes, seen, vars, read, product>>

(***************************************************************************)
(* Somebody writes a command line.                                         *)
(***************************************************************************)
OptionsInit ==
    /\ project \in Projects
    /\ args = IF project = NoFiles THEN <<>> ELSE <<Word("file", "top")>>
    /\ phase = "write" /\ opt = Defaults
    /\ includes = <<>> /\ seen = {} /\ vars = NoVars /\ read = <<>>
    /\ parent = Defaults /\ children = 0
    /\ product = [kind |-> "none", file |-> "", command |-> <<>>]

WriteArgument(w) ==
    /\ phase = "write" /\ Len(args) < MaxArguments
    /\ args' = Append(args, w)
    /\ UNCHANGED <<project, phase, opt, includes, seen, vars, read, parent, children, product>>

(* ScanProjectStartupArgs, main. *)
Start ==
    /\ phase = "write"
    /\ IF project = NoFiles THEN phase' = "arguments" /\ UNCHANGED includes
       ELSE phase' = "project" /\ includes' = <<[file |-> "top", next |-> 1]>>
    /\ UNCHANGED <<opt, seen, vars, read>> /\ Unchanged

OptionsNext ==
    \/ \E w \in Arguments : WriteArgument(w)
    \/ Start \/ ParseProperty \/ ParseDefine \/ ParseVariable \/ ParseInclude \/ EndOfFile
    \/ Configure
    \/ \E hasMain \in BOOLEAN : Compile(hasMain)
    \/ \E ifgen \in BOOLEAN : Spawn(ifgen)

(***************************************************************************)
(* Properties.                                                             *)
(***************************************************************************)
OptionTypesOK ==
    /\ phase \in {"write", "project", "arguments", "compile", "done", "error"}
    /\ phase \in {"compile", "done"} => opt.target \in DOMAIN Targets /\ opt.input # Unset /\ opt.tag # <<>>
    /\ children \in 0..MaxChildren /\ (phase # "project" => includes = <<>> \/ phase = "error")

(* docs/030-compiler/050-project-files.md:402-427: what is on the command  *)
(* line goes before the project, the project before the defaults.          *)
Chosen(op, default) ==
    IF Has(args, op) THEN Last(Values(args, op)) ELSE IF Has(read, op) THEN Last(Values(read, op)) ELSE default
Root == phase \in {"compile", "done"} /\ children = 0
DefinesOf(sequence) == LET is(x) == x.op = "define" IN [i \in DOMAIN SelectSeq(sequence, is) |-> DefinitionOf(SelectSeq(sequence, is)[i])]
Names(defines) == {defines[i].name : i \in DOMAIN defines}

LinkerOf(sequence) ==
    LET is(x) == x.op = "linker" \/ (x.op = "static" /\ x.value = "on")
        own == SelectSeq(sequence, is)
    IN  [i \in DOMAIN own |-> IF own[i].op = "static" THEN "-static" ELSE own[i].value]

SettingsChosen ==
    /\ opt.target = Chosen("target", Host)
    /\ opt.cpu = Chosen("cpu", Unset)
    /\ opt.optlevel = Chosen("optlevel", "1")
    /\ opt.lto = Chosen("lto", "off")
    /\ opt.exceptions = Chosen("exceptions", Targets[opt.target].exceptions)
    /\ opt.dynstrings = Chosen("dynstrings", Targets[opt.target].dynstrings)
    /\ opt.debug = IF Has(args, "debug") THEN "on" ELSE Chosen("debug", "off")
    /\ opt.link = IF Has(args, "link") THEN Head(Values(args, "link"))
                  ELSE CASE ~Has(read, "link") -> "auto" [] Values(read, "link") = <<"on">> -> "force" [] OTHER -> "compile"
ListsChosen ==
    LET given == DefinesOf(args)
        own == DefinesOf(read)
        kept(d) == d.name \notin Names(given)
    IN  /\ opt.defines = SelectSeq(own, kept) \o given
        /\ opt.packages = DefaultRoots \o Values(read, "package") \o Values(args, "package")
        /\ opt.linker = LinkerOf(read) \o LinkerOf(args)
PrecedenceAsDocumented == Root => SettingsChosen /\ ListsChosen

(* The compilers of the modules used, and of the modules those use, work   *)
(* with the target and the settings of the first: they find the same       *)
(* packages, keep their artifacts in the same place and write the same     *)
(* build options into them, so that what one writes is fresh to the other  *)
(* (docs/030-compiler/050-project-files.md:423).                           *)
BuildText(o) == <<o.optlevel, o.debug, o.lto, o.exceptions, o.dynstrings, o.cpu, o.defines>>
Packages == {i[2] : i \in Installed}
ChildrenInherit ==
    children > 0 =>
        /\ phase # "error"
        /\ opt.target = parent.target /\ opt.tag = parent.tag
        /\ BuildText(opt) = BuildText(parent)
        /\ \A p \in Packages : Lookup(opt.packages, p) = Lookup(parent.packages, p)

(* What is asked for with -o (or the project's output) is what the         *)
(* compilation leaves there, whatever kind of result it is; and an         *)
(* application has a name.                                                 *)
AskedForIsWritten ==
    phase = "done" =>
        /\ opt.output # Unset => product.file = opt.output
        /\ product.file # ""
=============================================================================
