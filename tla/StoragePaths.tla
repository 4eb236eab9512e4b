---------------------------- MODULE StoragePaths ----------------------------
(***************************************************************************)
(* Designators: what the postfix operators of an expression denote and     *)
(* what a statement may do with it.  The compiler reports a variable that  *)
(* is read before it is set, a read of [[noread]] and a write of           *)
(* [[nowrite]] storage, of a constant and of a refin parameter, a property *)
(* without the accessor it needs (dqc_parser_expr.cpp, dqc_parser_stmt.cpp,*)
(* dqc_ast.cpp).  Beside what the compiler remembers of a name, the model  *)
(* keeps whose storage the name really stands for.                         *)
(*                                                                         *)
(* A part of an expression is named by the number of its steps: part 0 is  *)
(* the name it begins with.                                                *)
(***************************************************************************)
EXTENDS Integers, Sequences, FiniteSets

CONSTANTS Types,    \* name -> [kind, elem, members]
          Declarations,    \* name -> [sort, mode, type, attrs, fixed, inited]
          MaxSteps, MaxStatements

(* The expression of a call has no value; the names that statements bind.  *)
ASSUME DesignatorAssumption ==
    /\ MaxSteps \in Nat
    /\ Types["none"].kind = "none"
    /\ {"p", "r", "s"} \subseteq DOMAIN Declarations /\ {"nothing", "elsewhere"} \cap DOMAIN Declarations = {}
    /\ \A x \in DOMAIN Declarations :
         {"sort", "mode", "type", "attrs", "fixed", "inited"} \subseteq DOMAIN Declarations[x] /\ Declarations[x].inited \in BOOLEAN

VARIABLES names,     \* what is declared: Names and the local references
          expr,      \* the expression being parsed
          diags,     \* suppressed left expression diagnostics: <<kind, part>>
          reported,  \* an error that was not held back
          last,      \* the statement compiled last
          statements

designatorVars == <<names, expr, diags, reported, last, statements>>

Kind(t) == Types[t].kind
TextTypes == {"embstr", "str", "rostr", "strslice"}
Arrays == {"array", "slice", "dynarray"}
Compounds == {"struct", "object"}
Uses == {"assign", "modify", "read", "argument", "ref", "refin", "refout", "local ref",
         "address", "slice", "delete", "delete = nil", "call"}
(* The expressions a statement begins with, and those of arguments, are    *)
(* parsed with the diagnostics held back; of an address only the accesses. *)
HeldBack(use) == use \in {"assign", "modify", "call", "argument", "ref", "refin", "refout"}
AccessHeldBack(use) == HeldBack(use) \/ use \in {"local ref", "address"}

Step(op, type, name) == [op |-> op, type |-> type, name |-> name]
NoStatement == [use |-> "none", writes |-> "nothing", faults |-> {}, unset |-> FALSE, escapes |-> FALSE]
NoExpression == [name |-> "none", steps |-> <<>>, use |-> "none"]

(***************************************************************************)
(* The expression.                                                         *)
(***************************************************************************)
PartType(e, n) == IF n = 0 THEN names[e.name].type ELSE e.steps[n].type
TypeOf(e) == PartType(e, Len(e.steps))
Op(e, n) == IF n = 0 THEN "name" ELSE e.steps[n].op
LastOp(e) == Op(e, Len(e.steps))
IsLValue(e) == LastOp(e) \in {"name", "member", "index", "deref", "property"}
Container(e, n) == Kind(PartType(e, n - 1))
Member(e, n) == Types[IF Container(e, n) = "pointer" THEN Types[PartType(e, n - 1)].elem ELSE PartType(e, n - 1)].members[e.steps[n].name]

(* GetAssignRootValSym: members and elements lead back to the name.  A     *)
(* member of what a pointer designates is reached through a dereference.   *)
InPart(e, n) == Op(e, n) = "index" \/ (Op(e, n) = "member" /\ Container(e, n) # "pointer")
Rooted(e) == \A n \in DOMAIN e.steps : InPart(e, n)
RootSymbol(e) == names[e.name]

(* NoReadSymbol, NoWriteSymbol: of the expression up to part k. *)
Restricted(e, attr, k) ==
    \/ attr \in RootSymbol(e).attrs /\ \A n \in 1..k : InPart(e, n)
    \/ \E m \in 1..k : /\ Op(e, m) = "member" /\ attr \in Member(e, m).attrs
                       /\ \A n \in (m + 1)..k : InPart(e, n)

RefWriteable(e) == RootSymbol(e).mode # "refin"

(* A new step of the postfix loop, with the diagnostics that it raises. *)
Extend(step) == expr' = [expr EXCEPT !.steps = Append(@, step)]
Raise(kind, part) ==
    IF (kind = "access" /\ AccessHeldBack(expr.use)) \/ (kind = "init" /\ HeldBack(expr.use))
    THEN diags' = diags \cup {<<kind, part>>} /\ UNCHANGED reported
    ELSE reported' = TRUE /\ UNCHANGED diags
Silent == UNCHANGED <<diags, reported>>
Parsing == expr # NoExpression /\ Len(expr.steps) < MaxSteps
Same == UNCHANGED <<names, last, statements>>

(* A symbol: an access or an initialisation diagnostic. *)
Begin(x, use) ==
    LET held(kind) == IF kind = "access" THEN AccessHeldBack(use) ELSE HeldBack(use)
        raised == (IF "noread" \in names[x].attrs THEN {"access"} ELSE {}) \cup (IF names[x].inited THEN {} ELSE {"init"})
    IN  /\ expr = NoExpression /\ statements < MaxStatements
        /\ expr' = [name |-> x, steps |-> <<>>, use |-> use]
        /\ diags' = {<<k, 0>> : k \in {k \in raised : held(k)}}
        /\ reported' = (\E k \in raised : ~held(k))
        /\ Same

(* x[i]: of an array or a text that can be designated, not of a property,  *)
(* which has no address; an index of a pointer is a pointer again.         *)
ParseIndex ==
    /\ Parsing /\ Same /\ IsLValue(expr) /\ LastOp(expr) # "property"
    /\ Kind(TypeOf(expr)) \in Arrays \cup TextTypes
    /\ Extend(Step("index", Types[TypeOf(expr)].elem, "")) /\ Silent

ParsePointerIndex ==
    /\ Parsing /\ Same /\ Kind(TypeOf(expr)) = "pointer"
    /\ Extend(Step("pointer index", TypeOf(expr), "")) /\ Silent

(* p^ *)
ParseDeref ==
    /\ Parsing /\ Same /\ Kind(TypeOf(expr)) = "pointer"
    /\ Extend(Step("deref", Types[TypeOf(expr)].elem, "")) /\ Silent

(* x.m of a compound or of a pointer to one.  Of an object that cannot be  *)
(* designated there are only properties.  CheckPropertyReadable is silent  *)
(* where initialisation is not checked, and nothing repeats it.            *)
ParseMember ==
    LET base == IF Kind(TypeOf(expr)) = "pointer" THEN Types[TypeOf(expr)].elem ELSE TypeOf(expr)
    IN  /\ Parsing /\ Same /\ Kind(base) \in Compounds
        /\ \E m \in DOMAIN Types[base].members :
             LET member == Types[base].members[m]
                 step == Step(IF "property" \in member.attrs THEN "property" ELSE "member", member.type, m)
             IN  /\ IsLValue(expr) \/ (Kind(TypeOf(expr)) = "object" /\ step.op = "property")
                 /\ Extend(step)
                 /\ IF step.op = "property" /\ "noread" \in member.attrs
                    THEN reported' = (reported \/ ~HeldBack(expr.use)) /\ UNCHANGED diags
                    ELSE IF step.op = "member" /\ "noread" \in member.attrs THEN Raise("access", Len(expr.steps) + 1)
                    ELSE Silent

(* The methods of dynamic arrays, texts and anyvalues that change what     *)
(* they are called on: any designator will do. *)
ParseMutator ==
    /\ Parsing /\ Same /\ IsLValue(expr) /\ expr.use = "call"
    /\ Kind(TypeOf(expr)) \in {"dynarray", "str", "embstr", "anyvalue"}
    /\ Extend(Step("mutator", "none", "")) /\ Silent

(* A method of an object takes it as a hidden ref parameter. *)
ParseMethodCall ==
    /\ Parsing /\ Same /\ IsLValue(expr) /\ expr.use = "call"
    /\ Kind(TypeOf(expr)) \in Compounds /\ LastOp(expr) # "property"
    /\ Extend(Step("method", "none", ""))
    /\ UNCHANGED diags
    /\ reported' = (reported \/ (Rooted(expr) /\ (RootSymbol(expr).sort = "const" \/ ~RefWriteable(expr))))

(***************************************************************************)
(* The statement.                                                          *)
(***************************************************************************)
(* CollectIgnoredPlainAssignVars, CollectPlainAssignTargetLValues: parts   *)
(* that a plain assignment sets and does not read.                         *)
Passed(e, n) == (Op(e, n) = "member" /\ Container(e, n) # "pointer") \/ (Op(e, n) = "index" /\ Container(e, n) \in {"array", "embstr"})
Unread(e) == {k \in 0..Len(e.steps) : \A n \in (k + 1)..Len(e.steps) : Passed(e, n)}

(* EmitFilteredAssignLeftExprDiags: only a plain assignment ignores any. *)
EmittedOfReads(e) == {d \in diags : d[2] \notin Unread(e)}
Emitted(e) == IF e.use = "assign" THEN {d \in diags : d[2] \notin Unread(e)} ELSE diags

PropertyLacks(e, accessor) == LastOp(e) = "property" /\ accessor \in Member(e, Len(e.steps)).attrs
ReadOnlyText(e) == LastOp(e) = "index" /\ Container(e, Len(e.steps)) \in {"rostr", "strslice"}
FixedObject(e) == CASE LastOp(e) = "name" -> RootSymbol(e).fixed
                    [] LastOp(e) = "member" -> "fixed" \in Member(e, Len(e.steps)).attrs
                    [] OTHER -> FALSE

(* FinalizeStmtAssign. *)
Assignable(e) ==
    /\ IsLValue(e)
    /\ IF LastOp(e) = "property"
       THEN ~PropertyLacks(e, "nowrite") /\ (e.use = "modify" => ~PropertyLacks(e, "noread"))
       ELSE /\ ~Restricted(e, "nowrite", Len(e.steps))
            /\ Rooted(e) => RootSymbol(e).sort # "const" /\ RefWriteable(e)
            /\ ~FixedObject(e) /\ ~ReadOnlyText(e)

(* The reference branch of BindCallArguments, and ParseStmtRef, which asks *)
(* the same of every reference it binds. *)
Bindable(e) ==
    /\ IsLValue(e) /\ LastOp(e) # "property" /\ (e.use = "refin" \/ ~ReadOnlyText(e))
    /\ Rooted(e) => RootSymbol(e).sort # "const" /\ RefWriteable(e)
Argument(e) ==
    /\ Bindable(e) /\ ~(e.use \in {"ref", "refin"} /\ \E d \in diags : d[1] = "init")
    /\ ~(FixedObject(e) /\ LastOp(e) = "name" /\ e.use # "refin")

(* ParseAddressableExpr: the address of a name must be one of a variable   *)
(* or parameter; parts of names are not looked at.                         *)
Addressable(e) == IsLValue(e) /\ LastOp(e) # "property" /\ (LastOp(e) = "name" => RootSymbol(e).sort # "const")

(* ParseStmtDelete clears the reference to an object that it deletes. *)
Deletable(e) ==
    /\ Kind(TypeOf(e)) \in {"pointer", "object"}
    /\ e.use = "delete = nil" => IsLValue(e)
    /\ IsLValue(e) /\ (Kind(TypeOf(e)) = "object" \/ e.use = "delete = nil")
          => (Rooted(e) => RootSymbol(e).sort # "const" /\ RefWriteable(e)) /\ (Kind(TypeOf(e)) = "object" => ~FixedObject(e))

StatementAccepted(e) ==
    /\ ~reported
    /\ CASE e.use \in {"assign", "modify"} -> Emitted(e) = {} /\ Assignable(e)
         [] e.use \in {"read", "slice"} -> TRUE
         [] e.use = "argument" -> diags = {}   \* by value
         [] e.use \in {"ref", "refin", "refout"} -> Argument(e)
         [] e.use = "local ref" -> Bindable(e)
         [] e.use = "address" -> Addressable(e)
         [] e.use = "call" -> diags = {}
         [] OTHER -> Deletable(e)

(***************************************************************************)
(* What the generated code does.                                           *)
(***************************************************************************)
(* The parts whose value is loaded: a pointer that is followed, the header *)
(* of a slice or dynamic array, and the whole if the statement reads it.   *)
Followed(e, n) == Op(e, n) # "property" /\ Op(e, n) # "method" /\ ~Passed(e, n) /\ Op(e, n) # "mutator"
Loads(e) == {n - 1 : n \in {n \in DOMAIN e.steps : Followed(e, n)}}
              \cup IF e.use \in {"modify", "read", "argument", "ref", "refin"} THEN {Len(e.steps)} ELSE {}

(* Whose storage an expression designates: the storage that its name       *)
(* stands for, or where the pointer or slice in that name came from.       *)
Outward(e) == {n \in DOMAIN e.steps : Op(e, n) \notin {"mutator", "method"} /\ ~Passed(e, n)}
Owner(e) == CASE Outward(e) = {} -> RootSymbol(e).owner
              [] Outward(e) = {1} -> RootSymbol(e).target
              [] OTHER -> "elsewhere"
Writes(e) == e.use \in {"assign", "modify", "ref", "refout", "call"}
                \/ (e.use \in {"delete", "delete = nil"} /\ (Kind(TypeOf(e)) = "object" \/ e.use = "delete = nil"))

(* A read that the declaration forbids, or an address that does not exist. *)
PropertyRead(e, n) == Op(e, n) = "property" /\ (n < Len(e.steps) \/ n \in Loads(e)) /\ Op(e, n + IF n < Len(e.steps) THEN 1 ELSE 0) # "mutator"
Faults(e) ==
    {f \in {"noread", "write-only", "no address"} :
        CASE f = "noread" -> \E n \in Loads(e) : Restricted(e, "noread", n)
          [] f = "write-only" -> \E n \in DOMAIN e.steps : PropertyRead(e, n) /\ "noread" \in Member(e, n).attrs
          [] OTHER -> LastOp(e) = "mutator" /\ Op(e, Len(e.steps) - 1) = "property"}
ReadsUnset(e) == LET own == {n \in Loads(e) : \A m \in 1..n : Passed(e, m)}
            IN  own # {} /\ RootSymbol(e).owner \in DOMAIN names /\ ~names[RootSymbol(e).owner].set

Effect(e) == [use |-> e.use, writes |-> IF Writes(e) THEN Owner(e) ELSE "nothing", faults |-> Faults(e), unset |-> ReadsUnset(e),
                 escapes |-> Outward(e) # {} \/ LastOp(e) = "mutator" \/ ~RootSymbol(e).direct]

(* What the statement binds (ref r = x, p = %x, s = x[:]) and sets. *)
Bound(e) ==
    CASE e.use = "local ref" -> [names EXCEPT !["r"] = [@ EXCEPT !.type = TypeOf(e), !.owner = Owner(e), !.inited = TRUE,
                                                         !.direct = RootSymbol(e).direct /\ Outward(e) = {}]]
      [] e.use = "address" -> [names EXCEPT !["p"] = [@ EXCEPT !.target = Owner(e), !.inited = TRUE, !.set = TRUE]]
      [] e.use = "slice" -> [names EXCEPT !["s"] = [@ EXCEPT !.target = Owner(e), !.inited = TRUE, !.set = TRUE]]
      [] e.use = "assign" /\ Rooted(e) -> [names EXCEPT ![e.name].inited = TRUE]
      [] e.use = "refout" /\ Rooted(e) -> [names EXCEPT ![e.name].inited = TRUE, ![e.name].set = TRUE]
      [] OTHER -> names
Fits(e) == CASE e.use = "address" -> TypeOf(e) = Types[names["p"].type].elem
             [] e.use = "slice" -> Kind(TypeOf(e)) = "array" /\ IsLValue(e) /\ LastOp(e) # "property"
             [] e.use = "local ref" -> ~names["r"].inited
             [] OTHER -> TRUE

CompileStatement ==
    /\ expr # NoExpression /\ Fits(expr)
    /\ (expr.use = "call") <=> LastOp(expr) \in {"mutator", "method"}
    /\ IF StatementAccepted(expr)
       THEN LET owner == IF Writes(expr) THEN Owner(expr) ELSE "nothing"
                bound == Bound(expr)
            IN  /\ last' = Effect(expr)
                /\ names' = IF owner \in DOMAIN names THEN [bound EXCEPT ![owner] = [@ EXCEPT !.set = TRUE]] ELSE bound
       ELSE last' = NoStatement /\ UNCHANGED names
    /\ statements' = statements + 1
    /\ expr' = NoExpression /\ diags' = {} /\ reported' = FALSE

DesignatorInit ==
    /\ names = [x \in DOMAIN Declarations |->
                  [f \in DOMAIN Declarations[x] \cup {"owner", "target", "direct", "set"} |->
                      CASE f = "owner" -> x [] f = "target" -> "elsewhere" [] f = "direct" -> TRUE
                        [] f = "set" -> Declarations[x].inited [] OTHER -> Declarations[x][f]]]
    /\ expr = NoExpression /\ diags = {} /\ reported = FALSE
    /\ last = NoStatement /\ statements = 0

DesignatorNext ==
    \/ \E x \in DOMAIN names, use \in Uses : Begin(x, use)
    \/ ParseIndex \/ ParsePointerIndex \/ ParseDeref \/ ParseMember
    \/ ParseMutator \/ ParseMethodCall \/ CompileStatement

(***************************************************************************)
(* Properties.                                                             *)
(***************************************************************************)
DesignatorTypesOK ==
    /\ expr = NoExpression \/ (expr.name \in DOMAIN names /\ expr.use \in Uses /\ Len(expr.steps) <= MaxSteps)
    /\ \A d \in diags : d[1] \in {"access", "init"} /\ d[2] \in 0..Len(expr.steps)
    /\ \A x \in DOMAIN names : names[x].owner \in DOMAIN names \cup {"elsewhere"}

ReadOnlyStorage == {x \in DOMAIN Declarations : Declarations[x].sort = "const" \/ Declarations[x].mode = "refin"}

(* However a designator is composed, and through whatever local reference, *)
(* an assignment, a writable argument or a deletion that the compiler      *)
(* accepts never changes a constant or a refin parameter: as long as       *)
(* nothing but members and elements lies between, in the statement and in  *)
(* those that bound the reference.                                         *)
DirectWritesRespected == last.writes \in ReadOnlyStorage => last.escapes

(* The same of everything: a refin parameter is "a read-only input alias"  *)
(* (docs/020-language/060-functions.md:58).  It is not one to the methods  *)
(* that change a text or an array in place, nor to its address or slice.   *)
RefinIsReadOnly == last.writes \notin {x \in DOMAIN Declarations : Declarations[x].mode = "refin"}

(* [[noread]] storage is not read by an accepted statement, except by one  *)
(* that takes an address or a reference, which is documented to discard    *)
(* the restriction. *)
NoReadHonoured == "noread" \in last.faults => AccessHeldBack(last.use) /\ last.use \notin {"assign", "modify", "call", "argument"}

(* No accepted statement reads a name whose storage nothing has written,   *)
(* not even under another name: but for a refout argument, whose way there *)
(* may lead through a pointer or a slice that was never set (and that      *)
(* counts as set from then on).                                            *)
NothingReadUnset == last.unset => last.use = "refout"

(* What is accepted can be generated: a property that has no read accessor *)
(* is not read ("omit read for a write-only property",                     *)
(* docs/020-language/120-objects-and-properties.md) or used as storage.    *)
AcceptedIsGenerated == last.faults \cap {"write-only", "no address"} = {}
=============================================================================
