------------------------------ MODULE Cleanup ------------------------------
(***************************************************************************)
(* The code the compiler generates for the statements that leave a block:  *)
(* what destroys the managed locals, what runs a finally body and which    *)
(* landing pad an exception reaches (compiler/ast/statements.cpp,          *)
(* compiler/codegen/oscope_codegen.cpp).                                   *)
(*                                                                         *)
(* A function body is a tree of statements (records with a field op); a    *)
(* block is a sequence of them.  Run... follows the control of the         *)
(* generated code: the environment e is what the generator holds while it  *)
(* emits a statement, that is the chain of scopes with their landing pad   *)
(* (exception_cleanup_bb) and cleanup block (unwind_cleanup_bb), the stack *)
(* of active finally bodies and the scope of the innermost loop.  A result *)
(* is the trace of events and the way the statement is left; an exception  *)
(* carries the pad its invoke names.  A statement list has no statement    *)
(* after one that leaves, and a finally body does not leave its block.     *)
(***************************************************************************)
EXTENDS Integers, Sequences, SequencesExt, FiniteSets

CONSTANTS Programs,      \* the function bodies that are compiled and run
          BaseOf,        \* exception type -> the type it extends, or AnyType
          AnyType,       \* the type of a handler that names none
          MaxIterations  \* a loop's condition is true at most so often

VARIABLES program, result

cleanupvars == <<program, result>>

NoPad == 0      \* null; as a target: the exception goes to the caller

Normal == [kind |-> "normal"]
RaiseTo(pad, type) == [kind |-> "raise", to |-> pad, type |-> type]
Reaches(exit, pad) == exit.kind = "raise" /\ exit.to = pad

(* The statements of a block follow each other until one leaves it. *)
Then(events, r) == [events |-> events \o r.events, exit |-> r.exit]
AndThen(r, next) == IF r.exit.kind = "normal" THEN Then(r.events, next) ELSE r
Leaving(exit) == [events |-> <<>>, exit |-> exit]

(* A round of a loop, and the others if it is not left. *)
Round(r, others) ==
    CASE r.exit.kind \in {"normal", "continue"} -> Then(r.events, others)
      [] r.exit.kind = "break" -> [r EXCEPT !.exit = Normal]
      [] OTHER -> r

VarNames(block) ==
    LET vars == SelectSeq(block, LAMBDA s : s.op = "var")
    IN [i \in DOMAIN vars |-> vars[i].name]

(* EmitOwnedObjectDestructors: the symbols of one scope that have storage. *)
Destructors(scope) == [i \in DOMAIN scope.owned |-> <<"free", Reverse(scope.owned)[i]>>]

(* EmitOwnedObjectDestructorsUntil: from the current scope to scope stop. *)
DestructorsUntil(e, stop) ==
    FlattenSeq([i \in 1 .. (Len(e.scopes) - stop + 1) |-> Destructors(e.scopes[Len(e.scopes) + 1 - i])])

Innermost(scopes, field) ==
    LET set == {i \in DOMAIN scopes : scopes[i][field] # NoPad}
    IN IF set = {} THEN NoPad ELSE scopes[CHOOSE i \in set : \A j \in set : j <= i][field]

ExceptionCleanup(e) == Innermost(e.scopes, "lpad")

(* GenerateCallOrInvoke: where a call goes on that raises an exception. *)
Invoke(e, type) == RaiseTo(ExceptionCleanup(e), type)

TopScope(e) == e.scopes[Len(e.scopes)]
WithTop(e, scope) == [e EXCEPT !.scopes = Append(Front(@), scope)]

RECURSIVE RunBlock(_, _), RunList(_, _), RunStatement(_, _), ActiveFinally(_), Loop(_, _, _)

(* EmitActiveFinallyBlocks: every active body, the innermost first, each   *)
(* in the scope its try statement stands in.                               *)
ActiveFinally(e) ==
    IF e.finally = <<>> THEN Leaving(Normal)
    ELSE LET f == Last(e.finally)
             below == [e EXCEPT !.finally = Front(@)]
         IN AndThen(RunBlock(f.body, [below EXCEPT !.scopes = SubSeq(@, 1, f.depth)]), ActiveFinally(below))

(* Mutant: the function's own block is not left. *)
LeaveTooNear(how, e) ==
    LET stop == IF how = "return" THEN 2 ELSE e.loop
    IN AndThen(ActiveFinally(e), [events |-> DestructorsUntil(e, stop), exit |-> [kind |-> how]])

(* OStmtReturn, OBreakStmt, OContinueStmt. *)
Leave(how, e) ==
    LET stop == IF how = "return" THEN 1 ELSE e.loop
    IN AndThen(ActiveFinally(e), [events |-> DestructorsUntil(e, stop), exit |-> [kind |-> how]])

(* OStmtWhile and OStmtFor: break and continue jump to its end and its condition. *)
Loop(body, e, left) ==
    IF left = 0 THEN Leaving(Normal)
    ELSE Round(RunBlock(body, [e EXCEPT !.loop = Len(e.scopes) + 1]), Loop(body, e, left - 1))

(* GenerateExceptBranchMatch: the type informations of an exception, from  *)
(* its own to that of its root, are searched for the handler's type.       *)
RECURSIVE TypeInfos(_)
TypeInfos(type) == IF type = AnyType THEN {} ELSE {type} \cup TypeInfos(BaseOf[type])
ExceptBranchMatch(branch, type) == branch.type \in TypeInfos(type) \cup {AnyType}
Matching(s, type) == SelectSeq(s.except, LAMBDA b : ExceptBranchMatch(b, type))

(* OStmtTry: the finally body is active while the statement's bodies run. *)
WithFinally(s, e) ==
    IF s.finally = <<>> THEN e
    ELSE [e EXCEPT !.finally = Append(@, [body |-> s.finally, depth |-> Len(e.scopes)])]

(* The handlers of an exception that reached the pad; last runs the finally body. *)
HandleException(s, e, type, last) ==
    LET matching == Matching(s, type)
    IN CASE s.except = <<>> -> AndThen(last, Leaving(RaiseTo(TopScope(e).cleanup, type)))
         [] s.except # <<>> /\ matching = <<>> -> AndThen(last, Leaving(Invoke(e, type)))
         [] OTHER -> AndThen(Then(<< <<"catch">> >>, RunBlock(matching[1].body, [WithFinally(s, e) EXCEPT !.current = type])),
                             Then(<< <<"endcatch">> >>, last))

(* The body is left as r says. *)
TryLeft(r, s, e, last) ==
    CASE r.exit.kind = "normal" -> Then(r.events, last)
      [] Reaches(r.exit, e.pads) -> Then(r.events, HandleException(s, e, r.exit.type, last))
      [] OTHER -> r

Try(s, e) ==
    LET pad == e.pads + 1
        inner == [WithTop(e, [TopScope(e) EXCEPT !.lpad = pad, !.cleanup = pad]) EXCEPT !.pads = pad]
    IN TryLeft(RunBlock(s.body, WithFinally(s, inner)), s, [e EXCEPT !.pads = pad], RunBlock(s.finally, e))

(* OStmtIf: the first branch whose condition holds, or that has none. *)
If(s, e) ==
    LET taken == SelectSeq(s.branches, LAMBDA b : b.holds)
    IN IF taken = <<>> THEN Leaving(Normal) ELSE RunBlock(taken[1].body, e)

(* OStmtRaise: a new exception, or the one that is being handled again. *)
Raise(s, e) == Leaving(Invoke(e, IF s.type = AnyType THEN e.current ELSE s.type))

RunStatement(s, e) ==
    CASE s.op = "mark" -> [events |-> << <<"mark", s.name>> >>, exit |-> Normal]
      [] s.op = "var" -> [events |-> << <<"new", s.name>> >>, exit |-> Normal]
      [] s.op = "raise" -> Raise(s, e)
      [] s.op \in {"break", "continue", "return"} -> Leave(s.op, e)
      [] s.op = "if" -> If(s, e)
      [] s.op = "loop" -> Loop(s.body, e, MaxIterations)
      [] s.op = "try" -> Try(s, e)

(* The statements of a block in order; a declaration gives its symbol storage. *)
RunList(list, e) ==
    IF list = <<>> THEN Leaving(Normal)
    ELSE LET next == IF Head(list).op = "var"
                     THEN WithTop(e, [TopScope(e) EXCEPT !.owned = Append(@, Head(list).name)]) ELSE e
         IN AndThen(RunStatement(Head(list), e), RunList(Tail(list), next))

(* OStmtBlock: a block with managed locals has a landing pad of its own,   *)
(* which destroys all of them and goes on to the nearest cleanup above.    *)
BlockLeft(r, e, pad, destroyed) ==
    CASE r.exit.kind = "normal" -> Then(r.events, [events |-> destroyed, exit |-> Normal])
      [] pad # NoPad /\ Reaches(r.exit, pad) ->
           Then(r.events, [events |-> destroyed, exit |-> RaiseTo(Innermost(e.scopes, "cleanup"), r.exit.type)])
      [] OTHER -> r

RunBlock(block, e) ==
    LET managed == VarNames(block)
        pad == IF managed = <<>> THEN NoPad ELSE e.pads + 1
        scope == [owned |-> <<>>, lpad |-> pad, cleanup |-> pad]
    IN BlockLeft(RunList(block, [e EXCEPT !.scopes = Append(@, scope), !.pads = @ + 1]), e, pad,
                 Destructors([scope EXCEPT !.owned = managed]))

Function(body) ==
    RunBlock(body, [scopes |-> <<>>, finally |-> <<>>, loop |-> 0, pads |-> 0, current |-> AnyType])

----------------------------------------------------------------------------
(* What the language reference says of the same statements: a local is     *)
(* destroyed when its block is left, whichever way, a finally body runs    *)
(* once whenever its try statement is left.                                *)
RECURSIVE SayBlock(_, _), SayList(_, _), SayLoop(_, _, _)

SayHandled(body, s, h) ==
    IF body.exit.kind # "raise" \/ Matching(s, body.exit.type) = <<>> THEN body
    ELSE [events |-> body.events \o << <<"catch">> >> \o h.events \o << <<"endcatch">> >>, exit |-> h.exit]

SayFinally(r, last) ==
    [events |-> r.events \o last.events, exit |-> IF last.exit = Normal THEN r.exit ELSE last.exit]

SayBody(body, s) ==
    SayHandled(body, s, SayBlock(Matching(s, body.exit.type)[1].body, body.exit.type))

SayTry(s, current) ==
    SayFinally(SayBody(SayBlock(s.body, current), s), SayBlock(s.finally, current))

SayLoop(body, left, current) ==
    IF left = 0 THEN Leaving(Normal)
    ELSE Round(SayBlock(body, current), SayLoop(body, left - 1, current))

SayIf(s, current) ==
    IF \E i \in DOMAIN s.branches : s.branches[i].holds
    THEN SayBlock(s.branches[CHOOSE i \in DOMAIN s.branches :
            s.branches[i].holds /\ \A j \in 1..(i - 1) : ~s.branches[j].holds].body, current)
    ELSE Leaving(Normal)

SayStatement(s, current) ==
    CASE s.op \in {"mark", "var"} -> RunStatement(s, <<>>)
      [] s.op = "raise" -> Leaving(RaiseTo(NoPad, IF s.type = AnyType THEN current ELSE s.type))
      [] s.op \in {"break", "continue", "return"} -> Leaving([kind |-> s.op])
      [] s.op = "if" -> SayIf(s, current)
      [] s.op = "loop" -> SayLoop(s.body, MaxIterations, current)
      [] s.op = "try" -> SayTry(s, current)

SayList(list, current) ==
    IF list = <<>> THEN Leaving(Normal)
    ELSE SayFinally(AndThen(SayStatement(Head(list), current), SayList(Tail(list), current)),
                    [events |-> IF Head(list).op = "var" THEN << <<"free", Head(list).name>> >> ELSE <<>>, exit |-> Normal])

SayBlock(block, current) == SayList(block, current)
Say(body) == SayBlock(body, AnyType)

----------------------------------------------------------------------------
CleanupInit == program = <<>> /\ result = Function(<<>>)

(* One program is compiled and its function is called. *)
Compile ==
    /\ program = <<>>
    /\ \E p \in Programs : program' = p /\ result' = Function(p)

CleanupNext == Compile

CleanupSpec == CleanupInit /\ [][CleanupNext]_cleanupvars

----------------------------------------------------------------------------
RECURSIVE Parts(_), ListParts(_)
ListParts(list) == UNION {Parts(list[i]) : i \in DOMAIN list}
(* The statements of a statement, with itself. *)
Parts(s) ==
    {s} \cup (CASE s.op = "loop" -> ListParts(s.body)
                [] s.op = "if" -> UNION {ListParts(s.branches[i].body) : i \in DOMAIN s.branches}
                [] s.op = "try" -> ListParts(s.body) \cup ListParts(s.finally)
                     \cup UNION {ListParts(s.except[i].body) : i \in DOMAIN s.except}
                [] OTHER -> {})

Tries(p) == {s \in ListParts(p) : s.op = "try"}
Raises(block) == \E s \in ListParts(block) : s.op = "raise"
Leaves(block) == \E s \in ListParts(block) : s.op \in {"break", "continue", "return"}

Times(events, event) == Len(SelectSeq(events, LAMBDA x : x = event))

(* Each list of a program and of its statements. *)
Lists(p) ==
    {p} \cup {s.body : s \in {x \in ListParts(p) : x.op \in {"loop", "try"}}}
        \cup UNION {{s.branches[i].body : i \in DOMAIN s.branches} : s \in {x \in ListParts(p) : x.op = "if"}}
        \cup {s.finally : s \in Tries(p)}
        \cup UNION {{s.except[i].body : i \in DOMAIN s.except} : s \in Tries(p)}

(* Locals are declared before anything in their block can raise. *)
DeclaresFirst(p) ==
    \A b \in Lists(p) : \A i, j \in DOMAIN b : b[j].op = "var" /\ i < j => ~Raises(<<b[i]>>)

(* Every try statement below the function's own block shares its block     *)
(* with a managed local: the block has a cleanup the try can go on to.     *)
Chained(p) ==
    \A b \in Lists(p) \ {p} : VarNames(b) # <<>> \/ \A i \in DOMAIN b : b[i].op # "try"

CleanupTypeOK ==
    /\ DOMAIN program \subseteq Nat
    /\ result.exit.kind \in {"normal", "break", "continue", "return", "raise"}

(* A managed local is never destroyed twice and never destroyed before it  *)
(* holds a value (a block declares its locals before it can raise).        *)
NoDoubleDestroy ==
    DeclaresFirst(program) =>
        \A i \in DOMAIN result.events : result.events[i][1] = "free" =>
            LET v == result.events[i][2]
                before == SubSeq(result.events, 1, i - 1)
            IN Times(before, <<"new", v>>) = Times(before, <<"free", v>>) + 1

(* Every value a function constructed is destroyed by the time it has been *)
(* left, by a return, the end of its body or an exception (a finally body  *)
(* does not raise and the try statements are chained).                     *)
NothingLeaks ==
    Chained(program) /\ (\A s \in Tries(program) : ~Raises(s.finally)) =>
        \A i \in DOMAIN result.events : result.events[i][1] = "new" =>
            Times(result.events, <<"new", result.events[i][2]>>)
                <= Times(result.events, <<"free", result.events[i][2]>>)

(* Programs that neither leave a try by a jump nor raise in its handlers   *)
(* do what the reference says, in its order, and an exception reaches the  *)
(* handler the reference names.                                            *)
StructuredAsDocumented ==
    /\ DeclaresFirst(program)
    /\ \A s \in Tries(program) :
          /\ ~Leaves(<<s>>)
          /\ \A i \in DOMAIN s.except : ~Raises(s.except[i].body)
    /\ Chained(program)
    => result = Say(program)

(* docs/020-language/140-exceptions-and-error-handling.md, line 303: a     *)
(* finally block performs its action whenever execution leaves the try     *)
(* block.                                                                  *)
FinallyRunsOnce ==
    \A s \in Tries(program) : s.finally # <<>> /\ s.finally[1].op = "mark" =>
        Times(result.events, <<"mark", s.finally[1].name>>)
            = Times(Say(program).events, <<"mark", s.finally[1].name>>)

(* The same document, "Cleanup Details": initialized local values are      *)
(* cleaned up when an exception leaves their scope.                        *)
OnlyInitializedDestroyed ==
    \A i \in DOMAIN result.events : result.events[i][1] = "free" =>
        Times(SubSeq(result.events, 1, i - 1), <<"new", result.events[i][2]>>) > 0
=============================================================================
