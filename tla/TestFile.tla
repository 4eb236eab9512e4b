------------------------------ MODULE TestFile ------------------------------
(***************************************************************************)
(* One test file of the autotest runner (src/autotest/atrunner/            *)
(* testfile.cpp): its markers are read, the file is compiled and run as    *)
(* they ask for, and what came out is compared with what they expect.      *)
(* A marker is a record with its kind and line; malformed ones carry       *)
(* ok = FALSE. The values that outputs are compared with are sequences, so *)
(* that one can be the beginning of another.                               *)
(***************************************************************************)
EXTENDS Integers, Sequences, SequencesExt, FiniteSets

CONSTANTS Markers,      (* the markers a file may contain                  *)
          OutLines,     (* the lines a program may write                   *)
          DiagLines,    (* the lines the compiler may write                *)
          ExitCodes,    (* the exit codes a program may have               *)
          MaxMarkers, MaxLines,   (* bounds                                *)
          HostArchitecture

ASSUME TestFileAssumption ==
  MaxMarkers \in Nat /\ MaxLines \in Nat /\ ExitCodes \subseteq 0..255

VARIABLES stage,        (* the phase of Process                            *)
          markersRead,  (* the markers, in the order of the file           *)
          tf,           (* the members of OTestFile                        *)
          observed      (* what compiler and program really did            *)

testVars == <<stage, markersRead, tf, observed>>

Empty == [skip_test |-> FALSE, build_only |-> FALSE, has_exit_code |-> FALSE, expected_exit_code |-> 0,
          has_host_arch |-> FALSE, required_host_arch |-> "none", has_suffix |-> FALSE,
          run_captures |-> <<>>, err_captures |-> <<>>,
          exec |-> {}, errorcnt |-> [tf |-> 0, build |-> 0, run |-> 0, err |-> 0]]

Nothing == [compiled |-> {}, output |-> <<>>, exit_code |-> 0, diags |-> <<>>]

TestInit == stage = "new" /\ markersRead = <<>> /\ tf = Empty /\ observed = Nothing

AddErrors(t, which, n) == [t EXCEPT !.errorcnt[which] = @ + n]
AddTfError(t) == AddErrors(t, "tf", 1)
-----------------------------------------------------------------------------
(* ParseText: every marker changes the members or is an error of the test  *)
(* file. ParseMarkerHostArch and ParseMarkerExitCode refuse values outside *)
(* their range.                                                            *)
ParseMarkerError(t, m) ==
  [t EXCEPT !.err_captures = Append(@, [msgtype |-> m.msgtype, errid |-> m.id, line |-> m.line,
                                        contains |-> m.contains, captured |-> FALSE, missing_printed |-> FALSE])]

ParseMarkerCheck(t, m) ==
  [t EXCEPT !.run_captures = Append(@, [strid |-> m.id, checkvalue |-> m.value,
                                        ignore |-> m.ignore, captured |-> FALSE])]

ParseMarkerExitCode(t, m) ==
  IF m.value \notin 0..255 \/ t.has_exit_code THEN AddTfError(t)
  ELSE [t EXCEPT !.has_exit_code = TRUE, !.expected_exit_code = m.value]

ParseMarkerHostArch(t, m) ==
  IF m.arch \notin {"x64", "arm64"} \/ t.has_host_arch THEN AddTfError(t)
  ELSE [t EXCEPT !.has_host_arch = TRUE, !.required_host_arch = m.arch]

ParseMarkerBuildSuffix(t) == IF t.has_suffix THEN AddTfError(t) ELSE [t EXCEPT !.has_suffix = TRUE]

ParseMarkerBuildOnly(t) == [IF t.build_only THEN AddTfError(t) ELSE t EXCEPT !.build_only = TRUE]

ParseMarker(t, m) ==
  CASE m.kind \in {"unknown", "malformed"} -> AddTfError(t)
    [] m.kind = "skip_test"    -> [t EXCEPT !.skip_test = TRUE]
    [] m.kind = "build_only"   -> ParseMarkerBuildOnly(t)
    [] m.kind = "build_suffix" -> ParseMarkerBuildSuffix(t)
    [] m.kind = "compargs"     -> t
    [] m.kind = "exitcode"     -> ParseMarkerExitCode(t, m)
    [] m.kind = "hostarch"     -> ParseMarkerHostArch(t, m)
    [] m.kind = "error"        -> ParseMarkerError(t, m)
    [] m.kind = "check"        -> ParseMarkerCheck(t, m)

ParseText(markers) == FoldLeft(ParseMarker, Empty, markers)

HasRunTest(t) == t.has_exit_code \/ t.run_captures # <<>>

(* Its second test is passed as soon as the file has no error.             *)
ValidateMarkers(t) ==
  LET checked == IF t.build_only /\ HasRunTest(t) THEN AddTfError(t) ELSE t
  IN  [checked EXCEPT !.skip_test = @ \/ (t.has_host_arch /\ t.required_host_arch # HostArchitecture)]

(* Process up to the first test, or to its end.                            *)
ReadMarkers(markers) ==
  LET parsed == ParseText(markers)
      valid  == IF parsed.errorcnt.tf > 0 THEN parsed ELSE ValidateMarkers(parsed)
      untested == ~valid.build_only /\ ~HasRunTest(valid) /\ valid.err_captures = <<>>
  IN  IF valid.errorcnt.tf > 0 \/ valid.skip_test \/ ~untested THEN valid ELSE AddTfError(valid)

LoadText(markers) ==
  /\ stage = "new"
  /\ markersRead' = markers
  /\ tf' = ReadMarkers(markers)
  /\ stage' = IF tf'.errorcnt.tf > 0 \/ tf'.skip_test THEN "processed" ELSE "build"
  /\ UNCHANGED observed

LoadFails ==
  /\ stage = "new"
  /\ tf' = AddTfError(tf) /\ stage' = "processed"
  /\ UNCHANGED <<markersRead, observed>>
-----------------------------------------------------------------------------
(* The result of ExecCompiler: started, exit code and lines of output.     *)
Compiled == [started : BOOLEAN, result : {0, 1}, lines : {0, 2}]

(* Every line the compiler wrote becomes an error; without one the exit    *)
(* code does.                                                              *)
CompileErrors(c) == IF c.result # 0 /\ c.lines = 0 THEN 1 ELSE c.lines

FailedCompile(c) == ~c.started \/ c.result # 0
CountCompile(t, which, c) == AddErrors(t, which, IF c.started THEN CompileErrors(c) ELSE 1)

ExecBuildTest(c) ==
  /\ stage = "build" /\ tf.build_only
  /\ tf' = LET t == [tf EXCEPT !.exec = @ \cup {"build"}]
           IN  IF FailedCompile(c) THEN CountCompile(t, "build", c) ELSE t
  /\ observed' = [observed EXCEPT !.compiled = IF FailedCompile(c) THEN @ ELSE @ \cup {"build"}]
  /\ stage' = "run" /\ UNCHANGED markersRead

NoBuildTest == stage = "build" /\ ~tf.build_only /\ stage' = "run" /\ UNCHANGED <<markersRead, tf, observed>>

(* AnalyzeRunOutput. CheckSymbol accepts a line that only begins with the  *)
(* expected value; a "name = value" line belongs to the first capture of   *)
(* the name.                                                               *)
ValueMatches(cap, line) == IsPrefix(cap.checkvalue, line.value)

CheckPair(t, line) ==
  LET idcap == SelectInSeq(t.run_captures, LAMBDA c : c.strid = line.id)
      cap   == t.run_captures[idcap]
      good  == ValueMatches(cap, line)
      ok    == good /\ (cap.ignore \/ ~cap.captured)
      u     == IF cap.ignore /\ ~good THEN t ELSE [t EXCEPT !.run_captures[idcap].captured = TRUE]
  IN  IF idcap = 0 THEN AddErrors(t, "run", 1)
      ELSE IF ok THEN u ELSE AddErrors(u, "run", 1)

CheckText(t, line) ==
  LET cap == SelectInSeq(t.run_captures,
               LAMBDA c : c.ignore /\ c.checkvalue = <<>> /\ c.strid = line.id)
  IN  IF cap = 0 THEN AddErrors(t, "run", 1) ELSE [t EXCEPT !.run_captures[cap].captured = TRUE]

AnalyzeRunLine(t, line) ==
  CASE line.kind = "empty" -> t
    [] line.kind = "pair"  -> CheckPair(t, line)
    [] line.kind = "text"  -> CheckText(t, line)

(* As it would be if an ignored check had to be met.                       *)
MissingCapturesAll(t) == Len(SelectSeq(t.run_captures, LAMBDA c : ~c.captured))
MissingCaptures(t) == Len(SelectSeq(t.run_captures, LAMBDA c : ~c.ignore /\ ~c.captured))

AnalyzeRunOutput(t, lines) ==
  IF t.run_captures = <<>> THEN t
  ELSE LET u == FoldLeft(AnalyzeRunLine, t, lines) IN AddErrors(u, "run", MissingCaptures(u))

(* ExecRunTest: compile, execute, compare the lines and the exit code. The *)
(* program may also fail to run or time out (ran = FALSE).                 *)
RunTested(t) == [t EXCEPT !.exec = @ \cup {"run"}]

ExecRunTest(ran, output, exit_code) ==
  /\ stage = "run" /\ HasRunTest(tf)
  /\ LET t == AnalyzeRunOutput(RunTested(tf), output)
         e == IF exit_code # tf.expected_exit_code THEN 1 ELSE 0
     IN  tf' = IF ran THEN AddErrors(t, "run", e) ELSE AddErrors(RunTested(tf), "run", 1)
  /\ observed' = [observed EXCEPT !.compiled = IF ran THEN @ \cup {"run"} ELSE @, !.output = output, !.exit_code = exit_code]
  /\ stage' = "err" /\ UNCHANGED markersRead

RunBuildFails(c) ==
  /\ stage = "run" /\ HasRunTest(tf) /\ FailedCompile(c)
  /\ tf' = CountCompile(RunTested(tf), "run", c)
  /\ stage' = "err" /\ UNCHANGED <<markersRead, observed>>

NoRunTest == stage = "run" /\ ~HasRunTest(tf) /\ stage' = "err" /\ UNCHANGED <<markersRead, tf, observed>>
-----------------------------------------------------------------------------
(* AnalyzeErrOutput: a diagnostic on a later line declares the markers of  *)
(* the lines before it missing.                                            *)
PrintMissingErrors(t, linenum) ==
  LET missing(c) == ~c.captured /\ ~c.missing_printed /\ c.line < linenum
  IN  [AddErrors(t, "err", Len(SelectSeq(t.err_captures, missing)))
         EXCEPT !.err_captures = [i \in DOMAIN @ |-> [@[i] EXCEPT !.missing_printed = @ \/ missing(t.err_captures[i])]]]

CheckDiagnostic(t, d) ==
  LET u   == PrintMissingErrors(t, d.line)
      cap == SelectInSeq(u.err_captures, LAMBDA c : c.msgtype = d.msgtype /\ c.errid = d.id /\ c.line = d.line)
  IN  IF cap = 0 THEN AddErrors(u, "err", 1)
      ELSE AddErrors([u EXCEPT !.err_captures[cap].captured = TRUE], "err",
                     IF u.err_captures[cap].contains \in d.says \cup {"nothing"} THEN 0 ELSE 1)

AnalyzeErrLine(t, d) == IF d.ok THEN CheckDiagnostic(t, d) ELSE AddErrors(t, "err", 1)

LastLine == 1000000
AnalyzeErrOutput(t, diags) == PrintMissingErrors(FoldLeft(AnalyzeErrLine, t, diags), LastLine)

(* ExecErrorTest does not look at the exit code of the compiler.           *)
ExecErrorTest(started, result, diags) ==
  /\ stage = "err" /\ tf.err_captures # <<>>
  /\ LET t == [tf EXCEPT !.exec = @ \cup {"err"}]
     IN  tf' = IF started THEN AnalyzeErrOutput(t, diags) ELSE AddErrors(t, "err", 1)
  /\ observed' = [observed EXCEPT !.compiled = IF started /\ result = 0 THEN @ \cup {"err"} ELSE @, !.diags = IF started THEN diags ELSE <<>>]
  /\ stage' = "processed" /\ UNCHANGED markersRead

NoErrorTest == stage = "err" /\ tf.err_captures = <<>> /\ stage' = "processed" /\ UNCHANGED <<markersRead, tf, observed>>

(* A compiler that succeeds reports no error.                              *)
DiagsOf(result) == {d \in SeqOf(DiagLines, MaxLines) :
                      result = 0 => \A i \in DOMAIN d : d[i].ok /\ d[i].msgtype # "ERROR"}

TestNext ==
  \/ \E markers \in SeqOf(Markers, MaxMarkers) : LoadText(markers)
  \/ LoadFails \/ NoBuildTest \/ NoRunTest \/ NoErrorTest
  \/ \E c \in Compiled : ExecBuildTest(c) \/ RunBuildFails(c)
  \/ \E ran \in BOOLEAN, output \in SeqOf(OutLines, MaxLines), code \in ExitCodes : ExecRunTest(ran, output, code)
  \/ \E started \in BOOLEAN, result \in {0, 1} : \E diags \in DiagsOf(result) : ExecErrorTest(started, result, diags)

TestSpec == TestInit /\ [][TestNext]_testVars
-----------------------------------------------------------------------------
(* The counters and phases of a test file.                                 *)
TestTypeOK ==
  /\ stage \in {"new", "build", "run", "err", "processed"}
  /\ tf.exec \subseteq {"build", "run", "err"}
  /\ \A which \in DOMAIN tf.errorcnt : tf.errorcnt[which] \in Nat

(* What a run must look like, without the order in which AnalyzeRunOutput  *)
(* meets the lines: every check is the first capture of its name and has   *)
(* exactly one line; every line is one a capture accepts.                  *)
First(caps, id) == SelectInSeq(caps, LAMBDA c : c.strid = id)
PairsOf(output, id) == {k \in DOMAIN output : output[k].kind = "pair" /\ output[k].id = id}
Accepted(caps, line) ==
  \/ line.kind = "empty"
  \/ line.kind = "pair" /\ First(caps, line.id) > 0 /\ ValueMatches(caps[First(caps, line.id)], line)
  \/ line.kind = "text" /\ \E i \in DOMAIN caps : caps[i].ignore /\ caps[i].checkvalue = <<>> /\ caps[i].strid = line.id
RunAsExpected(caps, output) ==
  /\ \A i \in DOMAIN caps : ~caps[i].ignore =>
        First(caps, caps[i].strid) = i /\ Cardinality(PairsOf(output, caps[i].strid)) = 1
  /\ \A k \in DOMAIN output : Accepted(caps, output[k])

(* A run test is clean exactly when the program was built, ended with the  *)
(* expected code and wrote what the checks say, in any order: no line is   *)
(* left over, no check is missing or met twice (AnalyzeRunOutput).         *)
RunVerdict ==
  stage \in {"err", "processed"} /\ "run" \in tf.exec =>
     (tf.errorcnt.run = 0 <=>
        /\ "run" \in observed.compiled
        /\ observed.exit_code = tf.expected_exit_code
        /\ tf.run_captures = <<>> \/ RunAsExpected(tf.run_captures, observed.output))

(* An error test whose diagnostics come sorted by line is clean exactly    *)
(* when each of them is marked and each marker is met (AnalyzeErrOutput,   *)
(* PrintMissingErrors).                                                    *)
Meets(d, c) == d.ok /\ c.msgtype = d.msgtype /\ c.errid = d.id /\ c.line = d.line
FirstMarker(d, i) == \A j \in 1..(i - 1) : ~Meets(d, tf.err_captures[j])
Sorted(diags) == \A i, j \in DOMAIN diags : i < j /\ diags[i].ok /\ diags[j].ok => diags[i].line <= diags[j].line
MetFirst(d, i) == Meets(d, tf.err_captures[i]) /\ FirstMarker(d, i)
ErrorVerdict ==
  stage = "processed" /\ "err" \in tf.exec /\ Sorted(observed.diags) =>
    (tf.errorcnt.err = 0 <=>
       /\ \A k \in DOMAIN observed.diags : \E i \in DOMAIN tf.err_captures :
             MetFirst(observed.diags[k], i) /\ tf.err_captures[i].contains \in observed.diags[k].says \cup {"nothing"}
       /\ \A i \in DOMAIN tf.err_captures : \E k \in DOMAIN observed.diags : MetFirst(observed.diags[k], i))

(* Every well-formed file that is not for another host is tested for       *)
(* everything its markers ask for, or reported (Process).                  *)
NothingSkipped ==
  stage = "processed" /\ ~(\E i \in DOMAIN markersRead : markersRead[i].kind = "skip_test")
      /\ ~(\E i \in DOMAIN markersRead : markersRead[i].kind = "hostarch" /\ markersRead[i].arch # HostArchitecture) =>
    \/ tf.errorcnt.tf > 0
    \/ \A i \in DOMAIN markersRead :
         /\ markersRead[i].kind = "build_only" => "build" \in tf.exec
         /\ markersRead[i].kind \in {"check", "exitcode"} => "run" \in tf.exec
         /\ markersRead[i].kind = "error" => "err" \in tf.exec

(* dq-autotest-req-spec.md: an error variant that compiles fails.          *)
CompiledErrorTestFails ==
  stage = "processed" /\ "err" \in tf.exec /\ "err" \in observed.compiled => tf.errorcnt.err > 0

(* dq-autotest-req-spec.md: the rest of the line equals the value.         *)
ValuesAreEqual ==
  stage = "processed" /\ "run" \in tf.exec /\ tf.errorcnt.run = 0 =>
     \A i \in DOMAIN tf.run_captures : ~tf.run_captures[i].ignore =>
        \E k \in PairsOf(observed.output, tf.run_captures[i].strid) : observed.output[k].value = tf.run_captures[i].checkvalue
=============================================================================
