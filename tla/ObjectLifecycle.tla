--------------------------- MODULE ObjectLifecycle ---------------------------
(***************************************************************************)
(* The life of an object: the compiler reads the object types of a file,   *)
(* completes their constructors and destructors and checks them            *)
(* (ParseObjectDecl, ValidateConstructorEmbeddedObjects and the generated  *)
(* methods), and the program it makes builds one object and deletes it     *)
(* again (GenerateFuncBody, OStmtInheritedCall, ONewExpr, OStmtDelete).    *)
(*                                                                         *)
(* An object type is what stands in its block and what follows behind it:  *)
(* fields, which are "plain", embedded and "built" by their declaration,   *)
(* or embedded and "late"; and constructors and destructors, which are     *)
(* told apart by the number of their arguments.  A level is the place of a *)
(* type in the chain of its bases, the root is level 1.                    *)
(***************************************************************************)
EXTENDS Integers, Sequences, FiniteSets, SequencesExt

CONSTANTS Hierarchies,  \* [objects: sequence of [inside, outside], virtual]
          DeletedAs     \* {"base"}: through a base variable also where nothing is virtual

VARIABLES source,   \* the hierarchy
          types,    \* what the compiler has made of it so far
          place,    \* [level, side, item]: the next item that is read
          errors,
          stack,    \* frames of the program: [level, kind, todo]
          cells,    \* level -> field -> how often it was built and destroyed
          table,    \* the level whose virtual table the object carries
          log,      \* <<what, level>> in the order it happened
          phase     \* "reading", "building", "live", "raised", "deleting", "gone"

lifeVars == <<source, types, place, errors, stack, cells, table, log, phase>>

Statement(op, n, body) == [op |-> op, n |-> n, body |-> body]
Method(kind, n, body) == [kind |-> kind, args |-> n, body |-> body, defined |-> TRUE]
Inherited(kind, n) == Statement("inherited " \o kind, n, <<>>)
NewType == [fields |-> <<>>, creates |-> <<>>, destroys |-> <<>>]

(***************************************************************************)
(* Looking methods up.                                                     *)
(***************************************************************************)
FindSpecialMethod(ts, level, kind, n) ==
    SelectSeq(IF kind = "create" THEN ts[level].creates ELSE ts[level].destroys, LAMBDA m : m.args = n)

(* FindInheritedMethod looks for constructors and destructors in the base  *)
(* only.                                                                   *)
FindInheritedMethod(ts, level, kind, n) == level > 1 /\ FindSpecialMethod(ts, level - 1, kind, n) # <<>>

(* What a statement needs when it is read: the fields and constructors     *)
(* that have been declared before it.                                      *)
RECURSIVE Resolves(_, _, _)
Resolves(ts, level, s) ==
    CASE s.op = "inherited create" -> FindInheritedMethod(ts, level, "create", s.n)
      [] s.op = "inherited destroy" -> FindInheritedMethod(ts, level, "destroy", 0)
      [] s.op = "delegate" -> FindSpecialMethod(ts, level, "create", s.n) # <<>>
      [] s.op = "create field" -> s.n \in DOMAIN ts[level].fields
      [] s.op = "if" -> \A i \in DOMAIN s.body : Resolves(ts, level, s.body[i])
      [] OTHER -> TRUE

(***************************************************************************)
(* ValidateConstructorEmbeddedObjects looks at the statements of the       *)
(* outermost block only.                                                   *)
(***************************************************************************)
Places(body, op) == {i \in DOMAIN body : body[i].op = op}

WithInherited(ts, level, m) ==
    IF level = 1 \/ Places(m.body, "inherited " \o m.kind) # {} THEN m.body
    ELSE IF m.kind = "destroy" THEN Append(m.body, Inherited("destroy", 0))
    ELSE IF FindSpecialMethod(ts, level - 1, "create", 0) # <<>> THEN <<Inherited("create", 0)>> \o m.body
    ELSE m.body

InheritedOnce(level, m, body) ==
    level > 1 => Places(body, "inherited " \o m.kind) = {IF m.kind = "create" THEN 1 ELSE Len(body)}

(* The fields that are there yet are constructed once.                     *)
EmbeddedOnce(fields, m, body) ==
    m.kind = "create" =>
      \A f \in {f \in DOMAIN fields : fields[f] # "plain"} :
        Cardinality({i \in Places(body, "create field") : body[i].n = f}) = (IF fields[f] = "built" THEN 0 ELSE 1)

(* ReadFunctionBody *)
Checked(ts, level, m) ==
    LET body == WithInherited(ts, level, m)
    IN  [method |-> [m EXCEPT !.body = body, !.defined = TRUE],
         ok     |-> /\ \A i \in DOMAIN m.body : Resolves(ts, level, m.body[i])
                    /\ InheritedOnce(level, m, body) /\ EmbeddedOnce(ts[level].fields, m, body)]

(***************************************************************************)
(* Reading an object type.                                                 *)
(***************************************************************************)
Level == place.level
Object == source.objects[Level]
Items == Object[place.side]
Item == Items[place.item]
Members == IF Item.kind = "create" THEN "creates" ELSE "destroys"
Same == {i \in DOMAIN types[Level][Members] : types[Level][Members][i].args = Item.args}
NextItem == place' = [place EXCEPT !.item = @ + 1]
Reading == phase = "reading" /\ errors = 0
RuntimeIdle == UNCHANGED <<source, stack, cells, table, log, phase>>

ReadField ==
    /\ Reading /\ place.item <= Len(Items) /\ Item.kind = "field"
    /\ types' = [types EXCEPT ![Level].fields = Append(@, Item.storage)]
    /\ NextItem /\ RuntimeIdle /\ UNCHANGED errors

(* ReadCompoundMethod: the method is known in its own body.                *)
ReadMethod ==
    /\ Reading /\ place.side = "inside" /\ place.item <= Len(Items) /\ Item.kind # "field"
    /\ IF Same # {} THEN errors' = errors + 1 /\ UNCHANGED types
       ELSE LET known == [types EXCEPT ![Level][Members] = Append(@, [Item EXCEPT !.defined = FALSE])]
                read == Checked(known, Level, Item)
            IN  IF ~Item.defined THEN types' = known /\ UNCHANGED errors
                ELSE /\ types' = [types EXCEPT ![Level][Members] = Append(@, read.method)]
                     /\ errors' = errors + (IF read.ok THEN 0 ELSE 1)
    /\ NextItem /\ RuntimeIdle

(* ParseQualifiedObjectFunction and ResolveForwardDecl: the body of a      *)
(* method behind the object. A method the object does not announce is      *)
(* refused where its name is taken, and every type has both names by now.  *)
DefineOutside ==
    /\ Reading /\ place.side = "outside" /\ place.item <= Len(Items)
    /\ LET open == {i \in Same : ~types[Level][Members][i].defined}
           read == Checked(types, Level, Item)
       IN  IF open = {} THEN errors' = errors + 1 /\ UNCHANGED types
           ELSE /\ types' = [types EXCEPT ![Level][Members] = [i \in DOMAIN @ |-> IF i \in open THEN read.method ELSE @[i]]]
                /\ errors' = errors + (IF read.ok THEN 0 ELSE 1)
    /\ NextItem /\ RuntimeIdle

(* AddGeneratedObjectConstructor: nothing checks the body it makes.        *)
Forwarding(ts, level) ==
    IF level = 1 THEN <<Method("create", 0, <<>>)>>
    ELSE [i \in DOMAIN ts[level - 1].creates |->
            LET n == ts[level - 1].creates[i].args IN Method("create", n, <<Inherited("create", n)>>)]

AddGeneratedObjectDestructor(level) == Method("destroy", 0, IF level = 1 THEN <<>> ELSE <<Inherited("destroy", 0)>>)

EndObject ==
    /\ Reading /\ place.side = "inside" /\ place.item > Len(Items)
    /\ types' = [types EXCEPT ![Level] = [fields   |-> @.fields,
                                          creates  |-> IF @.creates = <<>> THEN Forwarding(types, Level) ELSE @.creates,
                                          destroys |-> IF @.destroys = <<>> THEN <<AddGeneratedObjectDestructor(Level)>> ELSE @.destroys]]
    /\ place' = [place EXCEPT !.side = "outside", !.item = 1]
    /\ RuntimeIdle /\ UNCHANGED errors

NextObject ==
    /\ Reading /\ place.side = "outside" /\ place.item > Len(Items) /\ Level < Len(source.objects)
    /\ types' = Append(types, NewType)
    /\ place' = [level |-> Level + 1, side |-> "inside", item |-> 1]
    /\ RuntimeIdle /\ UNCHANGED errors

(* ValidateForwardDecl, and then the program runs: ONewExpr, with the      *)
(* constructor that FindConstructorForArgs picks.                          *)
Top == Len(types)
AllDefined == \A l \in DOMAIN types : \A m \in ToSet(types[l].creates) \cup ToSet(types[l].destroys) : m.defined

(***************************************************************************)
(* The code of a method.                                                   *)
(***************************************************************************)
Internal(op, level) == Statement(op, level, <<>>)
Prologue(level, m) ==
    IF m.kind = "destroy" THEN <<>>
    ELSE <<Internal("table", level)>> \o (IF level = 1 THEN <<Internal("init", level)>> ELSE <<>>)
Epilogue(level, m) == IF m.kind = "destroy" /\ level = 1 THEN <<Internal("clean", level)>> ELSE <<>>

(* OStmtInheritedCall: around the call of the base's method.               *)
BeforeInherited(level, kind, op) ==
    IF kind = "destroy" /\ op = "inherited destroy" THEN <<Internal("clean", level)>> ELSE <<>>
AfterInherited(level, kind, op) ==
    IF kind = "create" /\ op = "inherited create" THEN <<Internal("table", level), Internal("init", level)>> ELSE <<>>

Frame(level, m) == [level |-> level, kind |-> m.kind, todo |-> Prologue(level, m) \o m.body \o Epilogue(level, m)]
FrameOf(level, kind, n) == Frame(level, FindSpecialMethod(types, level, kind, n)[1])

New ==
    /\ Reading /\ place.level = Len(source.objects) /\ place.side = "outside" /\ place.item > Len(Items) /\ AllDefined
    /\ \E i \in DOMAIN types[Top].creates : stack' = <<Frame(Top, types[Top].creates[i])>>
    /\ cells' = [l \in DOMAIN types |-> [f \in DOMAIN types[l].fields |-> [built |-> 0, gone |-> 0]]]
    /\ phase' = "building"
    /\ UNCHANGED <<source, types, place, errors, table, log>>

Running == phase \in {"building", "deleting"} /\ stack # <<>>
Current == stack[Len(stack)]
Todo == Current.todo
Now == Todo[1]
Below == Front(stack)
Continue(todo) == Append(Below, [Current EXCEPT !.todo = todo])
CompiledIdle == UNCHANGED <<source, types, place, errors>>

(* GenerateVTableStore, GenerateFieldInitializers, GenerateFieldDestructors *)
Built(l, f) == [cells EXCEPT ![l][f].built = @ + 1]
Initialized(l) ==
    [cells EXCEPT ![l] = [f \in DOMAIN @ |-> IF types[l].fields[f] = "late" THEN @[f] ELSE [@[f] EXCEPT !.built = @ + 1]]]
Cleaned(l) == [cells EXCEPT ![l] = [f \in DOMAIN @ |-> [@[f] EXCEPT !.gone = @ + 1]]]

Simple ==
    /\ Running /\ Todo # <<>> /\ Now.op \in {"table", "init", "clean", "work", "create field"}
    /\ stack' = Continue(Tail(Todo))
    /\ table' = IF Now.op = "table" THEN Now.n ELSE table
    /\ cells' = CASE Now.op = "init" -> Initialized(Now.n)
                  [] Now.op = "clean" -> Cleaned(Now.n)
                  [] Now.op = "create field" -> Built(Current.level, Now.n)
                  [] OTHER -> cells
    /\ log' = CASE Now.op \in {"init", "clean"} -> Append(log, <<Now.op, Now.n>>)
                [] Now.op = "work" -> Append(log, <<Current.kind, Current.level>>)
                [] OTHER -> log
    /\ CompiledIdle /\ UNCHANGED phase

CallInherited ==
    /\ Running /\ Todo # <<>> /\ Now.op \in {"inherited create", "inherited destroy"}
    /\ LET kind == IF Now.op = "inherited create" THEN "create" ELSE "destroy"
           before == BeforeInherited(Current.level, Current.kind, Now.op)
           after == AfterInherited(Current.level, Current.kind, Now.op)
           call == Statement("call " \o kind, Now.n, <<>>)
       IN  stack' = Continue(before \o <<call>> \o after \o Tail(Todo))
    /\ CompiledIdle /\ UNCHANGED <<cells, table, log, phase>>

Call ==
    /\ Running /\ Todo # <<>> /\ Now.op \in {"call create", "call destroy", "delegate"}
    /\ LET callee == CASE Now.op = "call create" -> FrameOf(Current.level - 1, "create", Now.n)
                       [] Now.op = "call destroy" -> FrameOf(Current.level - 1, "destroy", 0)
                       [] OTHER -> FrameOf(Current.level, "create", Now.n)
       IN  stack' = Append(Continue(Tail(Todo)), callee)
    /\ CompiledIdle /\ UNCHANGED <<cells, table, log, phase>>

If ==
    /\ Running /\ Todo # <<>> /\ Now.op = "if"
    /\ stack' \in {Continue(Now.body \o Tail(Todo)), Continue(Tail(Todo))}
    /\ CompiledIdle /\ UNCHANGED <<cells, table, log, phase>>

(* OStmtReturn leaves the method, the end of the method is not reached.    *)
Return ==
    /\ Running /\ (Todo # <<>> => Now.op = "return")
    /\ stack' = Below
    /\ phase' = CASE Below # <<>> -> phase [] phase = "building" -> "live" [] OTHER -> "gone"
    /\ CompiledIdle /\ UNCHANGED <<cells, table, log>>

(* Nothing around the call of a constructor takes an exception.            *)
Raise ==
    /\ Running /\ Todo # <<>> /\ Now.op = "raise"
    /\ stack' = <<>> /\ phase' = "raised"
    /\ CompiledIdle /\ UNCHANGED <<cells, table, log>>

(* OStmtDelete: through the virtual table where the type of the variable   *)
(* has one.                                                                *)
Delete ==
    /\ phase = "live"
    /\ \E static \in (IF source.virtual \/ "base" \in DeletedAs THEN 1..Top ELSE {Top}) :
         stack' = <<FrameOf(IF source.virtual THEN table ELSE static, "destroy", 0)>>
    /\ phase' = "deleting"
    /\ CompiledIdle /\ UNCHANGED <<cells, table, log>>

LifeInit ==
    /\ source \in Hierarchies
    /\ types = <<NewType>> /\ place = [level |-> 1, side |-> "inside", item |-> 1] /\ errors = 0
    /\ stack = <<>> /\ cells = <<>> /\ table = 0 /\ log = <<>> /\ phase = "reading"

LifeNext ==
    \/ ReadField \/ ReadMethod \/ DefineOutside \/ EndObject \/ NextObject
    \/ New \/ Simple \/ CallInherited \/ Call \/ If \/ Return \/ Raise \/ Delete

-----------------------------------------------------------------------------
LifeTypeOK ==
    /\ phase \in {"reading", "building", "live", "raised", "deleting", "gone"}
    /\ errors \in 0..1 /\ table \in 0..Len(types) /\ Len(types) = place.level
    /\ \A l \in DOMAIN cells : \A f \in DOMAIN cells[l] : cells[l][f].gone \in Nat /\ cells[l][f].built \in Nat

EveryCell(P(_)) == \A l \in DOMAIN cells : \A f \in DOMAIN cells[l] : P(cells[l][f])
At(what, level) == {i \in DOMAIN log : log[i] = <<what, level>>}
Before(S, T) == \A i \in S, j \in T : i < j

(* "Fields are initialized before the constructor body runs", "Object      *)
(* setup runs from base to derived", and nothing is set up twice or left   *)
(* out (120-objects-and-properties.md:282, :666).                          *)
BuiltAsDocumented ==
    phase = "live" =>
      /\ EveryCell(LAMBDA c : c = [built |-> 1, gone |-> 0]) /\ table = Top
      /\ \A l \in 1..Top :
           /\ Cardinality(At("init", l)) = 1 /\ Before(At("init", l), At("create", l))
           /\ l > 1 => Before(At("init", l - 1) \cup At("create", l - 1), At("init", l))

(* "The derived destructor runs first, and then the base destructor runs   *)
(* automatically", "the destructor body runs first. After that, DQ         *)
(* automatically cleans up the object's fields" (:286, :666).              *)
GoneAsDocumented ==
    phase = "gone" =>
      /\ EveryCell(LAMBDA c : c = [built |-> 1, gone |-> 1])
      /\ \A l \in 1..Top :
           /\ Cardinality(At("clean", l)) = 1 /\ Before(At("destroy", l), At("clean", l))
           /\ l > 1 => Before(At("clean", l), At("destroy", l - 1) \cup At("clean", l - 1))

(* "Half-constructed objects are never left behind" (:296).                *)
NothingHalfBuilt == phase = "raised" => EveryCell(LAMBDA c : c.built = c.gone)
=============================================================================
