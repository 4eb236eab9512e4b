---------------------------- MODULE SourceFeeder ----------------------------
(***************************************************************************)
(* OScFeederDq (src/compiler/parser/scf_dq.cpp): the directives of a       *)
(* source file and of the files it includes decide which text the parser   *)
(* sees. A text is a sequence of directives; between any two of them there *)
(* may be code, which the parser gets unless inactive_code is set. Texts   *)
(* come into being as they are read. Reading goes on after an error in the *)
(* program; here it stops, as the compilation has failed.                  *)
(***************************************************************************)
EXTENDS Integers, Sequences, SequencesExt, FiniteSets

CONSTANTS Files, Main, Header, Missing,  (* Missing: files that cannot be loaded *)
          Directives,                    (* Directives[f]: what f may contain *)
          MaxDirectives,                 (* bound: MaxDirectives[f] of f    *)
          MaxIncludes                       (* bound: files being included       *)

ASSUME SourceFeederAssumption ==
  /\ {Main, Header} \subseteq Files /\ Missing \subseteq Files \ {Main}
  /\ MaxDirectives \in [Files -> Nat] /\ MaxIncludes \in Nat
  /\ \A f \in Files : \A d \in Directives[f] : d.op \in {"include", "srcdep"} => d.file \in Files

VARIABLES text, complete,   (* what is known of the files                  *)
          returnpos,        (* where to go on, the current file last       *)
          curcond,          (* the open conditionals, the innermost last   *)
          inactive_code,
          feeder,           (* the other members of the feeder             *)
          trace             (* history: the directives read                *)

feederVars == <<text, complete, returnpos, curcond, inactive_code, feeder, trace>>

FeederInit ==
  /\ text = [f \in Files |-> <<>>] /\ complete = [f \in Files |-> FALSE]
  /\ returnpos = <<[file |-> Main, pos |-> 0]>>
  /\ curcond = <<>> /\ inactive_code = FALSE
  /\ feeder = [usagecount |-> [f \in Files |-> IF f = Main THEN 1 ELSE 0], defines |-> {},
               source_dependencies |-> {Main}, implementation_section |-> FALSE, errors |-> FALSE]
  /\ trace = <<>>

curfile == Last(returnpos).file
Truth(test) == CASE test = "true" -> TRUE [] test = "false" -> FALSE
                 [] test = "defined" -> "X" \in feeder.defines
                 [] test = "undefined" -> "X" \notin feeder.defines
                 [] OTHER -> FALSE
-----------------------------------------------------------------------------
(* What a directive does to the conditionals: the new stack, whether the   *)
(* code that follows is inactive, and whether it is an error.              *)
Outcome(conds, inactive, error) == [conds |-> conds, inactive |-> inactive, error |-> error]

NewCondition(inactive) ==
  [state |-> "if", parent_inactive |-> inactive, branch_taken |-> FALSE, file |-> curfile]

TopUpdated(conds, f(_)) == ReplaceAt(conds, Len(conds), f(Last(conds)))

ApplyConditionalResult(conds, inactive, true) ==
  Outcome(IF ~inactive /\ true THEN TopUpdated(conds, LAMBDA c : [c EXCEPT !.branch_taken = TRUE]) ELSE conds,
          inactive \/ ~true, FALSE)

(* FindDirectiveEnd after an expression that was not parsed: a directive   *)
(* in braces must end at once, any other one ends with its line.           *)
Unparsed(conds, d) == Outcome(conds, TRUE, d.kind = "expression" /\ d.brace)

(* #if, #ifdef, #ifndef. A name is read even where the code is inactive,   *)
(* an expression only where it is active.                                  *)
IfDirective(d) ==
  LET conds == Append(curcond, NewCondition(inactive_code))
  IN  IF d.test = "badname" THEN Outcome(conds, TRUE, TRUE)
      ELSE IF inactive_code THEN Unparsed(conds, d)
      ELSE IF d.test = "badexpression" THEN Outcome(conds, TRUE, TRUE)
      ELSE ApplyConditionalResult(conds, FALSE, Truth(d.test))

(* ContinueConditionalBranch, then #elif, #elifdef, #elifndef.             *)
ElifDirective(d) ==
  LET c        == Last(curcond)
      inactive == c.parent_inactive \/ c.branch_taken
      conds    == TopUpdated(curcond, LAMBDA e : [e EXCEPT !.state = "elif"])
  IN  IF curcond = <<>> \/ d.test = "badname" THEN Outcome(curcond, TRUE, TRUE)
      ELSE IF c.state = "else" \/ c.file # curfile THEN Outcome(curcond, TRUE, TRUE)
      ELSE IF inactive THEN Unparsed(conds, d)
      ELSE IF d.test = "badexpression" THEN Outcome(conds, TRUE, TRUE)
      ELSE ApplyConditionalResult(conds, FALSE, Truth(d.test))

(* As it would be without branch_taken.                                    *)
ElseAlways ==
  LET c == Last(curcond)
  IN  IF curcond = <<>> \/ c.state = "else" \/ c.file # curfile
      THEN Outcome(curcond, inactive_code, TRUE)
      ELSE Outcome(TopUpdated(curcond, LAMBDA e : [e EXCEPT !.state = "else"]), c.parent_inactive, FALSE)

ElseDirective ==
  LET c == Last(curcond)
  IN  IF curcond = <<>> \/ c.state = "else" \/ c.file # curfile
      THEN Outcome(curcond, inactive_code, TRUE)
      ELSE Outcome(TopUpdated(curcond, LAMBDA e : [e EXCEPT !.state = "else"]),
                   c.parent_inactive \/ c.branch_taken, FALSE)

EndifDirective ==
  IF curcond = <<>> THEN Outcome(curcond, inactive_code, TRUE)
  ELSE Outcome(Front(curcond), Last(curcond).parent_inactive, Last(curcond).file # curfile)

CheckConditionals(d) ==
  CASE d.op = "if"    -> IfDirective(d)
    [] d.op = "elif"  -> ElifDirective(d)
    [] d.op = "else"  -> ElseDirective
    [] d.op = "endif" -> EndifDirective
-----------------------------------------------------------------------------
(* The next directive of the current file: one of its text, or a new one.  *)
Readable == ~feeder.errors /\ returnpos # <<>>
AtEnd    == Last(returnpos).pos = Len(text[curfile])

Next_(d) ==
  /\ Readable
  /\ IF AtEnd
     THEN /\ ~complete[curfile] /\ Len(text[curfile]) < MaxDirectives[curfile] /\ d \in Directives[curfile]
          /\ text' = [text EXCEPT ![curfile] = Append(@, d)]
     ELSE d = text[curfile][Last(returnpos).pos + 1] /\ text' = text
  /\ trace' = Append(trace, [d |-> d, file |-> curfile, pos |-> Last(returnpos).pos + 1,
                             true |-> d.op \in {"if", "elif"} /\ Truth(d.test)])

Moved == [returnpos EXCEPT ![Len(returnpos)].pos = @ + 1]
Error == feeder' = [feeder EXCEPT !.errors = TRUE]

Conditional(d) ==
  /\ Next_(d) /\ d.op \in {"if", "elif", "else", "endif"}
  /\ LET r == CheckConditionals(d)
     IN  /\ curcond' = r.conds /\ inactive_code' = r.inactive
         /\ IF r.error THEN Error ELSE UNCHANGED feeder
  /\ returnpos' = Moved /\ UNCHANGED complete

(* Other directives are ignored in inactive code, but for their end.       *)
IgnoredDirective(d) ==
  /\ Next_(d) /\ d.op \in {"define", "include", "include_once", "srcdep", "unknown"} /\ inactive_code
  /\ IF d.brace THEN Error ELSE UNCHANGED feeder
  /\ returnpos' = Moved /\ UNCHANGED <<complete, curcond, inactive_code>>

Active(d, op) == Next_(d) /\ d.op = op /\ ~inactive_code /\ UNCHANGED <<curcond, inactive_code>>

(* DefineValSym: a name that is defined already is an error.               *)
ParseDirectiveDefine(d) ==
  /\ Active(d, "define")
  /\ IF "X" \in feeder.defines THEN Error ELSE feeder' = [feeder EXCEPT !.defines = @ \cup {"X"}]
  /\ returnpos' = Moved /\ UNCHANGED complete

IsDirectIncludeSource == curfile \in {Main, Header}

(* LoadFile counts the uses of a file that is loaded already.              *)
ParseDirectiveInclude(d) ==
  /\ Active(d, "include")
  /\ IF \/ d.file \in Missing
        \/ d.file = Header /\ (feeder.implementation_section \/ curfile = Header)
     THEN Error /\ returnpos' = Moved
     ELSE /\ Len(returnpos) < MaxIncludes
          /\ returnpos' = Append(Moved, [file |-> d.file, pos |-> 0])
          /\ feeder' = [feeder EXCEPT !.usagecount[d.file] = @ + 1,
                          !.source_dependencies = IF IsDirectIncludeSource /\ ~feeder.implementation_section
                                                  THEN @ \cup {d.file} ELSE @]
  /\ UNCHANGED complete

ParseDirectiveSourceDependency(d) ==
  /\ Active(d, "srcdep")
  /\ IF feeder.implementation_section \/ d.file \in Missing THEN Error
     ELSE feeder' = [feeder EXCEPT !.source_dependencies = @ \cup {d.file}]
  /\ returnpos' = Moved /\ UNCHANGED complete

(* The second and later uses of a file end here.                           *)
IncludeOnce(d) ==
  /\ Active(d, "include_once")
  /\ IF feeder.usagecount[curfile] > 1
     THEN returnpos' = Front(returnpos)
     ELSE returnpos' = Moved
  /\ UNCHANGED <<complete, feeder>>

UnknownDirective(d) ==
  /\ Active(d, "unknown")
  /\ Error /\ returnpos' = Moved /\ UNCHANGED complete

(* EnterImplementationSection, called by the parser at the keyword.        *)
EnterImplementationSection(d) ==
  /\ Next_(d) /\ d.op = "implementation"
  /\ feeder' = [feeder EXCEPT !.implementation_section = @ \/ ~inactive_code]
  /\ returnpos' = Moved /\ UNCHANGED <<complete, curcond, inactive_code>>

(* SkipWhite at the end of a file returns to the one that included it.     *)
ReturnFromInclude ==
  /\ Readable /\ AtEnd
  /\ complete' = [complete EXCEPT ![curfile] = TRUE]
  /\ returnpos' = Front(returnpos)
  /\ UNCHANGED <<text, curcond, inactive_code, feeder, trace>>

ParseDirective(d) ==
  \/ Conditional(d) \/ IgnoredDirective(d) \/ ParseDirectiveDefine(d) \/ ParseDirectiveInclude(d)
  \/ ParseDirectiveSourceDependency(d) \/ IncludeOnce(d) \/ UnknownDirective(d) \/ EnterImplementationSection(d)

FeederNext ==
  \/ \E d \in UNION {Directives[f] : f \in Files} : ParseDirective(d)
  \/ ReturnFromInclude

FeederSpec == FeederInit /\ [][FeederNext]_feederVars
-----------------------------------------------------------------------------
(* The types of the feeder.                                                *)
FeederTypeOK ==
  /\ \A i \in DOMAIN returnpos : returnpos[i].file \in Files /\ returnpos[i].pos \in 0..MaxDirectives[returnpos[i].file]
  /\ \A i \in DOMAIN curcond : curcond[i].state \in {"if", "elif", "else"} /\ curcond[i].file \in Files
  /\ feeder.source_dependencies \subseteq Files

(* What the directives mean, from the whole text read so far: a group is   *)
(* open when its #endif is still to come; its branches are the #if and the *)
(* #elif and #else of the same level; the last branch is selected when its *)
(* condition holds and that of no earlier branch of the group did.         *)
Occurrences(op, i, k) == Cardinality({j \in i..k : trace[j].d.op = op})
Level(k)        == Occurrences("if", 1, k) - Occurrences("endif", 1, k)
IsOpen(i, k)    == trace[i].d.op = "if" /\ \A j \in i..k : Level(j) >= Level(i)
Branches(i, k)  == {i} \cup {j \in i..k : trace[j].d.op \in {"elif", "else"} /\ Level(j) = Level(i)}
Holds(j)        == trace[j].d.op = "else" \/ trace[j].true
BranchSelected(i, k)  == \A j \in Branches(i, k) : Holds(j) <=> \A h \in Branches(i, k) : h <= j
ActiveAfter(k)  == \A i \in 1..k : IsOpen(i, k) => BranchSelected(i, k)

(* Through every nesting of conditionals and includes the parser sees the  *)
(* code of the selected branches and no other (CheckConditionals,          *)
(* ContinueConditionalBranch, ApplyConditionalResult).                     *)
SelectedBranches == ~feeder.errors => (inactive_code <=> ~ActiveAfter(Len(trace)))

(* A name is defined exactly when a #define of it was in selected code, so *)
(* that a skipped branch changes nothing (IgnoredDirective, ParseDirectiveDefine).  *)
DefinedWhereSelected ==
  ~feeder.errors =>
    ("X" \in feeder.defines <=> \E k \in DOMAIN trace : trace[k].d.op = "define" /\ ActiveAfter(k))

(* Behind an #include_once at its beginning a file is read only once,      *)
(* whoever includes it and even if it includes itself (LoadFile, Reset).   *)
ReadOnce ==
  \A f \in Files : text[f] # <<>> /\ text[f][1].op = "include_once" =>
    \A j, k \in DOMAIN trace :
      trace[j].file = f /\ trace[k].file = f /\ trace[j].pos = trace[k].pos /\ trace[j].pos > 1 => j = k

(* attributes-directives-and-interop.md: include cycles are errors.        *)
IncludeCyclesAreErrors == \A i, j \in DOMAIN returnpos : returnpos[i].file = returnpos[j].file => i = j

(* 190-compiler-directives.md: conditional directives must balance.        *)
UnbalancedIsAnError == returnpos = <<>> /\ curcond # <<>> => feeder.errors

(* 190-compiler-directives.md: other branches are skipped: in them only    *)
(* the balance of the conditionals can be wrong.                           *)
SkippedIsNoError ==
  feeder.errors /\ trace # <<>> /\ Last(trace).d.op \in {"if", "define", "include"} =>
    \/ ActiveAfter(Len(trace) - 1)
    \/ "test" \in DOMAIN Last(trace).d /\ Last(trace).d.test = "badname"
=============================================================================
