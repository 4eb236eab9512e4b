----------------------------- MODULE MCReading -----------------------------
(* What a compiler is given to read: source files with conditionals and    *)
(* includes, the statements and designators in them, names and places of   *)
(* modules, options; what the test runner makes of a test file; and the    *)
(* managed storage of the run-time library.  One component runs in each    *)
(* behaviour, the others stay in their initial states.                     *)
EXTENDS SourceFeeder, StatementParser, StoragePaths, ModulePaths, BuildOptions, TestFile, TLC

VARIABLES cell, holds, meaning, listed,   \* of ManagedStorage
          part

(* Two variables of each managed kind and four cells; no statement of the  *)
(* forms whose counting is known to be wrong.                              *)
Storage == INSTANCE ManagedStorage WITH
  Strings <- {"a", "b"}, Arrays <- {"x", "y"}, Owners <- {"p", "q"}, Marks <- {"m"}, MaxCells <- 4, MaxItems <- 2, Forms <- {}
storageVars == <<cell, holds, meaning, listed>>
mcVars == <<feederVars, parserVars, designatorVars, pathVars, optionVars, testVars, storageVars, part>>

MCInit ==
  /\ part \in {"feeder", "parser", "designators", "paths", "options", "test", "storage"}
  /\ IF part = "options" THEN project \in Projects ELSE project = NoFiles
  /\ FeederInit /\ ParserInit /\ DesignatorInit /\ PathInit /\ OptionsInit /\ TestInit /\ Storage!StorageInit

MCNext ==
  /\ UNCHANGED part
  /\ \/ /\ part = "feeder" /\ FeederNext
        /\ UNCHANGED <<parserVars, designatorVars, pathVars, optionVars, testVars, storageVars>>
     \/ /\ part = "parser" /\ ParserNext
        /\ UNCHANGED <<feederVars, designatorVars, pathVars, optionVars, testVars, storageVars>>
     \/ /\ part = "designators" /\ DesignatorNext
        /\ UNCHANGED <<feederVars, parserVars, pathVars, optionVars, testVars, storageVars>>
     \/ /\ part = "paths" /\ PathNext
        /\ UNCHANGED <<feederVars, parserVars, designatorVars, optionVars, testVars, storageVars>>
     \/ /\ part = "options" /\ OptionsNext
        /\ UNCHANGED <<feederVars, parserVars, designatorVars, pathVars, testVars, storageVars>>
     \/ /\ part = "test" /\ TestNext
        /\ UNCHANGED <<feederVars, parserVars, designatorVars, pathVars, optionVars, storageVars>>
     \/ /\ part = "storage" /\ Storage!StorageNext
        /\ UNCHANGED <<feederVars, parserVars, designatorVars, pathVars, optionVars, testVars>>

MCSpec == MCInit /\ [][MCNext]_mcVars

(* The parser sees the selected branches and what they define, and a file  *)
(* that is to be read once once (OScFeederDq).                             *)
FeederSelects == FeederTypeOK /\ SelectedBranches /\ DefinedWhereSelected /\ ReadOnce

(* A symbol read in a text without an error has a value on every path, but *)
(* for the holes the definition names; a closing word that is kept for an  *)
(* outer block finds one (dqc_parser_stmt.cpp).                            *)
AssignmentsTracked == ParserTypeOK /\ SoundOutsideHoles /\ PendingIsExpected

(* No accepted statement writes a constant or a refin parameter by a path  *)
(* of members and elements, reads [[noread]] storage but for its address   *)
(* or a reference, or reads a name that is unset (dqc_parser_expr.cpp).    *)
AccessRespected == DesignatorTypesOK /\ DirectWritesRespected /\ NoReadHonoured /\ NothingReadUnset

(* Different modules have different artifacts, and the name an interface   *)
(* keeps leads back to the source and the artifact it was made of          *)
(* (OModulePath).                                                          *)
ModulesAreFound == PathTypeOK /\ ArtifactsAreDistinct /\ NamesLeadBack

(* Command line, project file and defaults have the precedence the         *)
(* reference gives them, child compilers work with the same settings, and  *)
(* what is asked for with -o is written (OCompOptions, ODqProjectFile).    *)
OptionsAsDocumented == OptionTypesOK /\ PrecedenceAsDocumented /\ ChildrenInherit /\ AskedForIsWritten

(* A test file gets the verdict its markers ask for, run and error tests   *)
(* alike, and nothing they ask for is left out (OTestFile::Process).       *)
TestVerdicts == part = "test" => TestTypeOK /\ RunVerdict /\ ErrorVerdict /\ NothingSkipped

(* A reference count is the number of variables, elements and temporaries  *)
(* that hold the storage, and every variable has the value the program     *)
(* gave it (otype_string.cpp, otype_array.cpp, dynstr.dqi, dynarrmgr.dq).  *)
StorageAsDocumented ==
  part = "storage" => Storage!StorageTypesOK /\ Storage!CountIsHolders /\ Storage!ValuesAsDocumented

-----------------------------------------------------------------------------
(* A name of every kind, through pointers, members and elements.           *)
Shape(k, e, m) == [kind |-> k, elem |-> e, members |-> m]
Field(t, a) == [type |-> t, attrs |-> a]
MCTypes ==
  [int |-> Shape("int", "", <<>>), none |-> Shape("none", "", <<>>), char |-> Shape("char", "", <<>>),
   arr |-> Shape("array", "int", <<>>), slice |-> Shape("slice", "int", <<>>), dyn |-> Shape("dynarray", "int", <<>>),
   str |-> Shape("str", "char", <<>>), rostr |-> Shape("rostr", "char", <<>>), ptr |-> Shape("pointer", "arr", <<>>),
   rec |-> Shape("struct", "", [a |-> Field("arr", {}), w |-> Field("int", {"nowrite"}), d |-> Field("ptr", {"noread"}), t |-> Field("str", {})]),
   obj |-> Shape("object", "", [f |-> Field("int", {}), pr |-> Field("int", {"property", "nowrite"}),
                                pw |-> Field("obj", {"property", "noread"}), ps |-> Field("str", {"property"})])]
DeclaredName(s, m, t, i) == [sort |-> s, mode |-> m, type |-> t, attrs |-> {}, fixed |-> FALSE, inited |-> i]
MCDeclarations ==
  [c |-> DeclaredName("const", "value", "arr", TRUE), i |-> DeclaredName("parameter", "refin", "rec", TRUE),
   o |-> DeclaredName("parameter", "refout", "arr", FALSE), v |-> DeclaredName("variable", "value", "rec", FALSE),
   b |-> [DeclaredName("variable", "value", "obj", TRUE) EXCEPT !.fixed = TRUE], q |-> DeclaredName("parameter", "refin", "obj", TRUE),
   p |-> DeclaredName("variable", "value", "ptr", FALSE), s |-> DeclaredName("variable", "value", "slice", FALSE),
   r |-> DeclaredName("variable", "ref", "int", FALSE), t |-> DeclaredName("parameter", "refin", "rostr", TRUE),
   n |-> DeclaredName("parameter", "refin", "str", TRUE),
   h |-> [DeclaredName("variable", "value", "arr", TRUE) EXCEPT !.attrs = {"noread"}]]
(* Packages in two roots and beside the program, modules of the same names *)
(* in different places; programs of a project, below the root, and in a    *)
(* package.                                                                *)
MCDirectories == {<<"std", "json">>, <<"std", "rtl">>, <<"user", "json">>}
MCSourceFiles ==
  {<<"std", "json", "json">>, <<"std", "json", "x">>, <<"std", "rtl", "sys">>, <<"std", "rtl", "x">>,
   <<"user", "json", "json">>, <<"user", "json", "x">>, <<"w", "app", "main">>, <<"w", "app", "app">>,
   <<"w", "app", "x">>, <<"w", "app", "sub", "main">>, <<"w", "app", "sub", "x">>, <<"w", "app", "sub", "sub">>,
   <<"w", "json", "main">>, <<"w", "json", "json">>, <<"w", "json", "x">>}
MCPackagePaths == <<<<"std">>, <<"user">>>>
MainAt(s, d, p) == [source |-> s, depth |-> d, project |-> p]
MCMains ==
  {MainAt(<<"w", "app", "main">>, 0, <<>>), MainAt(<<"w", "app", "sub", "main">>, 0, <<"w", "app", "p">>),
   MainAt(<<"w", "app", "sub", "main">>, 1, <<>>), MainAt(<<"w", "json", "main">>, 0, <<>>), MainAt(<<"std", "json", "x">>, 0, <<>>)}
MCUseTexts ==
  [kind : {"local"}, path : {<<"x">>, <<"..", "x">>, <<"sub", "x">>, <<"app">>, <<"sub">>, <<"json">>, <<"..", "..", "x">>}]
  \cup [kind : {"root"}, path : {<<"x">>, <<"sub", "x">>, <<"app">>}]
  \cup [kind : {"package"}, path : {<<"json">>, <<"json", "x">>, <<"rtl", "sys">>, <<"rtl", "x">>, <<"app", "x">>}]
MCPackageBuild == <<>>

(* Projects with every property, included files, wrong ones; what the      *)
(* command line may add to them.                                           *)
TargetOf(b, s, e, d) == [bare |-> b, supported |-> s, exceptions |-> e, dynstrings |-> d]
MCTargets == [host |-> TargetOf(FALSE, TRUE, "on", "on"), bare |-> TargetOf(TRUE, TRUE, "off", "off"), wasi |-> TargetOf(FALSE, FALSE, "off", "on")]
MCRoots == <<"std">>
MCInstalled == {<<"std", "p">>, <<"mine", "p">>, <<"cli", "p">>, <<"std", "q">>, <<"mine", "q">>}
Line(op, v) == [op |-> op, value |-> v, var |-> "", name |-> ""]
NameLine(op, n, v) == [op |-> op, value |-> v, var |-> "", name |-> n]
MainLine == Line("main", "m")
MCProjects == {NoFiles,
  [top |-> <<MainLine, Line("target", "bare"), Line("exceptions", "on"), NameLine("define", "A", "1"), NameLine("define", "B", "1"),
             Line("linker", "pl"), Line("link", "on"), Line("include", "inc")>>,
   inc |-> <<Line("package", "mine"), NameLine("var", "Q", "q"), [Line("object", "") EXCEPT !.var = "Q"], Line("debug", "off"), Line("lto", "full")>>],
  [top |-> <<Line("include", "inc"), MainLine, NameLine("var", "P", "p"), Line("package", "mine"), Line("cpu", "f1"), Line("link", "off"),
             Line("output", "po"), Line("include", "inc"), Line("dynstrings", "off")>>, inc |-> <<Line("linker", "il")>>],
  [top |-> <<MainLine, Line("include", "inc")>>, inc |-> <<Line("optlevel", "2"), Line("include", "top")>>],
  [top |-> <<MainLine, NameLine("define", "A", "1"), Line("include", "inc")>>, inc |-> <<NameLine("define", "A", "2")>>],
  [top |-> <<MainLine, NameLine("var", "P", "nope")>>],
  [top |-> <<MainLine, Line("optlevel", "2"), Line("static", "on"), Line("exceptions", "off"), Line("static", "on")>>],
  [top |-> <<MainLine, Line("static", "on"), Line("exceptions", "off"), Line("debug", "on"), Line("target", "wasi")>>],
  [top |-> <<Line("debug", "on")>>]}
Given(op, v) == [op |-> op, value |-> v]
DefineArgument(n, v) == [op |-> "define", name |-> n, value |-> v]
MCArguments ==
  {Given("file", "x"), Given("target", "host"), Given("target", "bare"), Given("cpu", "f2"), Given("optlevel", "s"), Given("debug", "on"),
   Given("lto", "full"), Given("exceptions", "on"), Given("exceptions", "off"), Given("dynstrings", "on"), Given("link", "compile"),
   Given("link", "force"), DefineArgument("A", "2"), DefineArgument("A", "3"), Given("package", "cli"), Given("linker", "cl"),
   Given("static", "on"), Given("build", <<"t">>), Given("suffix", <<"s">>), Given("output", "co"), Given("ifgen", "on")}

(* A source with every directive, a file that includes itself and a C     *)
(* header that includes the source again.                                  *)
Branch(op, kind, test) == [op |-> op, kind |-> kind, test |-> test, brace |-> FALSE]
PlainLine(op)      == [op |-> op, brace |-> FALSE]
IncludeLine(f)     == [op |-> "include", file |-> f, brace |-> FALSE]
DependLine(f)      == [op |-> "srcdep", file |-> f, brace |-> FALSE]
MCDirectives ==
  "main" :> {Branch("if", "name", "defined"), Branch("if", "expression", "true"),
             Branch("elif", "name", "undefined"), PlainLine("else"), PlainLine("endif"), PlainLine("define"),
             IncludeLine("inc")}
  @@ "inc" :> {PlainLine("include_once"), PlainLine("endif"), PlainLine("define"), IncludeLine("inc"),
               Branch("if", "name", "defined"), PlainLine("implementation"), DependLine("header"), PlainLine("unknown")}
  @@ "header" :> {IncludeLine("main"), PlainLine("else")} @@ "gone" :> {}
MCMaxDirectives == "main" :> 4 @@ "inc" :> 3 @@ "header" :> 2 @@ "gone" :> 0

(* Test files and what their programs and the compiler print.              *)
Check(i, v, g)   == [kind |-> "check", id |-> i, value |-> v, ignore |-> g]
Expect(t, l, c)  == [kind |-> "error", msgtype |-> t, id |-> "E", line |-> l, contains |-> c]
OutPair(i, v)       == [kind |-> "pair", id |-> i, value |-> v]
Diag(t, l, s)    == [ok |-> TRUE, msgtype |-> t, id |-> "E", line |-> l, says |-> s]
ExitCode(n)      == [kind |-> "exitcode", value |-> n]
HostArch(a)      == [kind |-> "hostarch", arch |-> a]
Marker(k)        == [kind |-> k]

MCMarkers ==
  {Check("x", <<1>>, FALSE), Check("x", <<>>, TRUE), Check("y", <<2>>, FALSE),
   Expect("ERROR", 1, "nothing"), Expect("ERROR", 2, "a"), Expect("WARNING", 2, "nothing"),
   ExitCode(1), ExitCode(256), HostArch("x64"), HostArch("arm64")}
  \cup {Marker(k) : k \in {"build_only", "build_suffix", "compargs", "malformed", "skip_test"}}
MCOutLines ==
  {OutPair("x", <<1>>), OutPair("x", <<1, 0>>), OutPair("y", <<2>>),
   [kind |-> "text", id |-> "x"], [kind |-> "empty"]}
MCDiagLines ==
  {Diag("ERROR", 1, {}), Diag("ERROR", 2, {}), Diag("ERROR", 2, {"a"}), Diag("WARNING", 2, {}), [ok |-> FALSE]}
=============================================================================
