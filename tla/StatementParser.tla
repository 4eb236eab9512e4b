-------------------------- MODULE StatementParser --------------------------
(***************************************************************************)
(* The statement parser of a function body: opening and closing blocks,    *)
(* recovering from a closing word that does not fit, and deciding where a  *)
(* variable may be read (compiler/parser/dqc_parser_stmt.cpp, OScope's     *)
(* first assignments in compiler/ast/oscope.cpp).                          *)
(*                                                                         *)
(* Every action reads one statement, or one opening or closing word, of a  *)
(* source text that nothing restricts.  Beside the parser's own state the  *)
(* blocks carry what the text means: the variables assigned on every path  *)
(* (assigned; all of them where no path arrives) and the arm of an if.     *)
(***************************************************************************)
EXTENDS Integers, Sequences, SequencesExt, FiniteSets

CONSTANTS Vars,       \* the uninitialised locals of the function
          Words,      \* closing words that occur in the text
          Styles,     \* block styles that occur: subset of {"colon", "brace"}
          MaxLength,  \* statements and words in the text
          MaxDepth    \* blocks open at a time

ASSUME ParserAssumption == MaxLength \in Nat

VARIABLES blocks,      \* the blocks being read, the outermost first
          initialized, \* the symbols the parser takes for initialised
          pending,     \* a closing word that is to be read again, or ""
          skip,        \* SkipToSymbol: nothing counts up to this word, or ""
          errors,      \* the kinds of error reported
          assigned,    \* what the text assigns on every path to this point
          unsafe,      \* symbols read without an error and without a value
          holes,       \* symbols that got their mark where it does not hold on every path
          length

parserVars == <<blocks, initialized, pending, skip, errors, assigned, unsafe, holes, length>>

Symbols == Vars \cup {"result"}

Top == blocks[Len(blocks)]
Kinds == {blocks[i].kind : i \in DOMAIN blocks}

(* Counted from the innermost subfn, which starts at zero. *)
Inside(kinds) ==
    \E i \in DOMAIN blocks :
        /\ blocks[i].kind \in kinds
        /\ \A j \in i .. Len(blocks) : blocks[j].kind # "subfn"

ClosersOf(kind) ==
    CASE kind = "func" -> {"endfunc"}
      [] kind = "subfn" -> {"endsubfn"}
      [] kind = "if" -> {"endif", "elif", "else"}
      [] kind = "while" -> {"endwhile"}
      [] kind = "for" -> {"endfor"}
      [] kind \in {"try", "except"} -> {"except", "finally", "endtry"}
      [] kind = "finally" -> {"endtry"}

Closers(style, kind) == IF style = "brace" THEN {"}"} ELSE ClosersOf(kind)

(* What ReadStatementBlock starts with; first is the scope's firstassign. *)
NewBlock(kind, style, entry) ==
    [kind |-> kind, closers |-> Closers(style, kind), first |-> {}, arms |-> <<>>,
     else |-> FALSE, parts |-> 0, entry |-> entry, ends |-> Symbols, words |-> 0, outer |-> {}]

Open(b) == blocks' = Append(blocks, b)
Tally(kind) == errors' = errors \cup {kind}

(* SetVarInitialized, on the scope of block i. *)
FirstAssign(bs, i, v) ==
    IF v \in initialized THEN bs ELSE [bs EXCEPT ![i].first = @ \cup {v}]

(* The parser is ready for a statement. *)
Reading ==
    /\ blocks # <<>> /\ pending = "" /\ length < MaxLength
    /\ length' = length + 1

Ignored == skip # "" /\ UNCHANGED <<blocks, initialized, pending, skip, errors, assigned, unsafe, holes>>

(* v = expression, or a call that passes v to a refout parameter; guarded: *)
(* the call is the right operand of an and.                                *)
Assign(v, guarded) ==
    /\ Reading
    /\ v = "result" => ~Inside({"subfn"}) /\ "subfn" \notin Kinds
    /\ \/ Ignored
       \/ /\ skip = ""
          /\ blocks' = FirstAssign(blocks, Len(blocks), v)
          /\ initialized' = initialized \cup {v}
          /\ assigned' = IF guarded THEN assigned ELSE assigned \cup {v}
          /\ holes' = IF guarded THEN holes \cup {v} ELSE holes
          /\ UNCHANGED <<pending, skip, errors, unsafe>>

(* An expression that names v, or a modify-assignment. *)
Read(v) ==
    /\ Reading
    /\ \/ Ignored
       \/ /\ skip = ""
          /\ IF v \in initialized
             THEN unsafe' = unsafe \cup ({v} \ assigned) /\ UNCHANGED errors
             ELSE Tally("VarNotInit") /\ UNCHANGED unsafe
          /\ UNCHANGED <<blocks, initialized, pending, skip, assigned, holes>>

(* ParseStmtReturn. *)
Return(value) ==
    /\ Reading
    /\ "subfn" \notin Kinds
    /\ \/ Ignored
       \/ /\ skip = ""
          /\ IF value
             THEN /\ blocks' = FirstAssign(blocks, Len(blocks), "result")
                  /\ initialized' = initialized \cup {"result"}
                  /\ UNCHANGED <<unsafe, holes>>
             ELSE /\ unsafe' = unsafe \cup ({"result"} \ assigned)
                  /\ holes' = holes \cup {"result"}
                  /\ UNCHANGED <<blocks, initialized>>
          /\ assigned' = Symbols
          /\ UNCHANGED <<pending, skip, errors>>

(* ParseStmtBreak, ParseStmtContinue and a raise without a value. *)
Jump(kinds) ==
    /\ Reading
    /\ \/ Ignored
       \/ /\ skip = ""
          /\ IF Inside(kinds) THEN assigned' = Symbols /\ UNCHANGED errors
             ELSE Tally("StatementInvalid") /\ UNCHANGED assigned
          /\ UNCHANGED <<blocks, initialized, pending, skip, unsafe, holes>>

(* ParseStmtIf, ParseStmtWhile, ParseStmtTry and ParseSubFunction up to    *)
(* their first block.                                                      *)
OpenBlock(kind, style) ==
    /\ Reading
    /\ Len(blocks) < MaxDepth
    /\ \/ Ignored
       \/ /\ skip = ""
          /\ Open([NewBlock(kind, style, assigned) EXCEPT !.outer = Symbols \ initialized])
          /\ IF kind = "subfn" /\ "subfn" \in Kinds THEN Tally("SubfnNesting") ELSE UNCHANGED errors
          /\ UNCHANGED <<initialized, pending, skip, assigned, unsafe, holes>>

(* ParseStmtFor over a range or over an array, with a variable that exists. *)
OpenFor(v, range, style) ==
    /\ Reading
    /\ Len(blocks) < MaxDepth
    /\ \/ Ignored
       \/ /\ skip = ""
          /\ LET b == NewBlock("for", style, IF range THEN assigned \cup {v} ELSE assigned)
             IN Open(IF range \/ v \in initialized THEN b ELSE [b EXCEPT !.first = {v}])
          /\ initialized' = initialized \cup {v}
          /\ assigned' = assigned \cup {v}
          /\ holes' = IF range /\ Len(blocks) > 1 THEN holes \cup {v} ELSE holes
          /\ UNCHANGED <<pending, skip, errors, unsafe>>

----------------------------------------------------------------------------
(* ReadStatementBlock returns to the statement that called it; word is ""   *)
(* where the block was given up, reported is what has been reported.       *)
Reverted == initialized \ Top.first
Report(kinds) == errors' = errors \cup kinds

(* All branches of an if are read: what every branch assigned first stays  *)
(* initialised when there is an else.                                      *)
FinishIf(b, reported) ==
    LET kept == IF b.else THEN {v \in b.arms[1] : \A i \in DOMAIN b.arms : v \in b.arms[i]} ELSE {}
    IN /\ blocks' = Front(blocks)
       /\ initialized' = Reverted \cup kept
       /\ holes' = IF Len(blocks) > 2 THEN holes \cup kept ELSE holes
       /\ assigned' = IF b.else THEN b.ends ELSE b.ends \cap b.entry
       /\ Report(reported)

EndBranch(word, reported) ==
    LET b == [Top EXCEPT !.arms = Append(@, Top.first), !.ends = @ \cap assigned]
        next == [b EXCEPT !.first = {}, !.words = @ + 1, !.else = @ \/ word = "else"]
    IN IF word = "elif" \/ (word = "else" /\ ~b.else)
       THEN /\ blocks' = Append(Front(blocks), next)
            /\ initialized' = Reverted
            /\ assigned' = b.entry
            /\ UNCHANGED <<errors, holes>>
       ELSE FinishIf(b, reported \cup (IF word = "else" THEN {"MultipleElse"} ELSE {}))

(* A closing brace, and the word that follows it: the loop goes on with    *)
(* the block of the same branch.                                           *)
EndBraceBranch(word) ==
    LET same == [Top EXCEPT !.ends = @ \cap assigned, !.words = IF word = "endif" THEN @ ELSE @ + 1]
    IN IF word \in {"else", "elif", "endif"}
       THEN /\ initialized' = Reverted
            /\ assigned' = Top.entry
            /\ blocks' = Append(Front(blocks),
                                IF word = "else" THEN same ELSE [same EXCEPT !.closers = ClosersOf("if")])
            /\ Report(IF word = "else" THEN {} ELSE {"BlockStartMissing"})
            /\ UNCHANGED holes
       ELSE EndBranch("", {})

(* A part of a try statement: the word names the next one.  Where a        *)
(* handler is given up the word is still the except that opened it, whose  *)
(* exception type is missing.                                              *)
EndTry(word, reported) ==
    LET b == [Top EXCEPT !.first = {}, !.ends = IF Top.kind = "finally" THEN @ ELSE @ \cap assigned]
        lost == word = "" /\ Top.kind = "except"
    IN /\ initialized' = Reverted
       /\ skip' = IF lost THEN "endtry" ELSE ""
       /\ IF word \in {"except", "finally"}
          THEN /\ blocks' = Append(Front(blocks),
                                   [b EXCEPT !.kind = word, !.parts = @ + 1, !.closers = ClosersOf(word)])
               /\ assigned' = b.entry
               /\ Report(reported)
          ELSE /\ blocks' = Front(blocks)
               /\ assigned' = IF Top.kind = "finally" THEN b.ends \cup assigned ELSE b.ends
               /\ Report(reported \cup (IF lost THEN {"TypeExpected"} ELSE {})
                                   \cup (IF b.parts = 0 THEN {"TryWithoutExcept"} ELSE {}))

EndBlock(word, reported) ==
    CASE Top.kind = "if" -> EndBranch(word, reported) /\ UNCHANGED <<skip, unsafe>>
      [] Top.kind \in {"try", "except", "finally"} -> EndTry(word, reported) /\ UNCHANGED <<unsafe, holes>>
      [] Top.kind \in {"while", "for", "subfn"} ->
           /\ blocks' = Front(blocks)
           /\ initialized' = IF Top.kind = "subfn" THEN initialized \ Top.outer ELSE Reverted
           /\ assigned' = Top.entry
           /\ Report(reported)
           /\ UNCHANGED <<skip, unsafe, holes>>
      [] Top.kind = "func" ->
           /\ blocks' = <<>>
           /\ Report(reported \cup (IF "result" \in initialized THEN {} ELSE {"FuncResultNotSet"}))
           /\ unsafe' = unsafe \cup ({"result"} \cap (initialized \ assigned))
           /\ UNCHANGED <<initialized, assigned, skip, holes>>

(* As it would be if the word were kept without looking for its block. *)
ClosesKeepingAny(word) ==
    /\ skip = ""
    /\ \/ word \in Top.closers /\ EndBlock(word, {}) /\ pending' = ""
       \/ /\ word \notin Top.closers
          /\ EndBlock("", {"CloseMismatch"})
          /\ pending' = IF Top.kind # "except" THEN word ELSE ""

(* ParseStatement finds a closing word that is not one the block ends      *)
(* with: it is left to the block it belongs to, if there is one, and the   *)
(* block is given up.                                                      *)
Closes(word) ==
    LET expected == \E i \in DOMAIN blocks : word \in blocks[i].closers
    IN /\ skip = ""
       /\ \/ word \in Top.closers /\ EndBlock(word, {}) /\ pending' = ""
          \/ /\ word \notin Top.closers
             /\ EndBlock("", {"CloseMismatch"})
             /\ pending' = IF expected /\ Top.kind # "except" THEN word ELSE ""

(* A closing word of the text. *)
Closer(word) ==
    /\ Reading
    /\ \/ /\ skip # "" /\ skip' = (IF word = skip THEN "" ELSE skip)
          /\ UNCHANGED <<blocks, initialized, pending, errors, assigned, unsafe, holes>>
       \/ Closes(word)

(* The word that was left to an outer block is read again. *)
ReadAgain ==
    /\ blocks # <<>> /\ pending # ""
    /\ Closes(pending)
    /\ UNCHANGED length

(* A closing brace; follow is the word after it where the if looks for it. *)
Brace(follow) ==
    /\ Reading
    /\ skip = "" /\ "}" \in Top.closers
    /\ IF Top.kind = "if" THEN EndBraceBranch(follow) /\ UNCHANGED <<skip, unsafe>>
       ELSE follow = "" /\ EndBlock("}", {})
    /\ UNCHANGED pending

(* The end of the text: every open block is reported. *)
EndOfText ==
    /\ blocks # <<>> /\ pending = ""
    /\ blocks' = <<>>
    /\ Tally("BlockCloseMissing")
    /\ UNCHANGED <<initialized, pending, skip, assigned, unsafe, holes, length>>

ParserInit ==
    /\ blocks = <<NewBlock("func", "colon", {})>>
    /\ initialized = {} /\ pending = "" /\ skip = "" /\ errors = {}
    /\ assigned = {} /\ unsafe = {} /\ holes = {} /\ length = 0

ParseStatement ==
    \/ \E v \in Symbols : Assign(v, FALSE)
    \/ \E v \in Vars : Assign(v, TRUE) \/ Read(v)
    \/ \E b \in BOOLEAN : Return(b)
    \/ Jump({"while", "for"}) \/ Jump({"except"})

Opening ==
    \E style \in Styles :
        \/ \E k \in {"if", "while", "try", "subfn"} : OpenBlock(k, style)
        \/ \E v \in Vars, range \in BOOLEAN : OpenFor(v, range, style)

Closing ==
    \/ \E w \in Words : Closer(w)
    \/ \E w \in Words \cup {""} : Brace(w)
    \/ ReadAgain \/ EndOfText

ParserNext == ParseStatement \/ Opening \/ Closing

ParserSpec == ParserInit /\ [][ParserNext]_parserVars

----------------------------------------------------------------------------
ParserTypeOK ==
    /\ \A i \in DOMAIN blocks : blocks[i].first \subseteq Symbols /\ blocks[i].entry \subseteq Symbols
    /\ initialized \subseteq Symbols /\ assigned \subseteq Symbols /\ unsafe \subseteq Symbols
    /\ length \in 0 .. MaxLength

(* In a text without an error a symbol that is read has a value on every   *)
(* path, but for the symbols marked by an if or as the variable of a for   *)
(* inside another block, by a call that is the right operand of an and,    *)
(* and for the result at a bare return.                                    *)
SoundOutsideHoles == errors = {} => unsafe \subseteq holes

(* docs/020-language/030-variables-constants-references-and-scope.md, line *)
(* 32: the compiler tracks definite assignment across branches and reports *)
(* uninitialized uses.                                                     *)
UsesAreReported == errors = {} => unsafe \cap Vars = {}

(* A closing word that is kept for an outer block belongs to one that is   *)
(* still open.                                                             *)
PendingIsExpected ==
    pending # "" => skip = "" /\ \E i \in DOMAIN blocks : pending \in blocks[i].closers

(* docs/020-language/050-statements-and-control-flow.md, line 47: branches *)
(* are considered in order, at most one body runs; so each elif and else   *)
(* begins a branch of its own.                                             *)
OneBranchPerWord ==
    \A i \in DOMAIN blocks : blocks[i].kind = "if" /\ errors = {} => Len(blocks[i].arms) = blocks[i].words

=============================================================================
