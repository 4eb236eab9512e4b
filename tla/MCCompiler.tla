----------------------------- MODULE MCCompiler -----------------------------
(* What the compiler makes of functions, types and interfaces, what it     *)
(* writes of them into interface files, and what the code it generates     *)
(* does: one component runs in each behaviour, the others stay in one of   *)
(* their initial states.                                                   *)
EXTENDS FlatInterface, ModuleInit, InterfaceRecords, InterfaceImage, TLC

VARIABLES
  program, result,
  target, expression, tree, stage,
  text,
  funcs, args, called,
  loop, memory, entry, lists, spot, visited, read, touched,
  context, opened, operand, missing, event, tokens,
  hierarchy, types, place, faults, frames, cells, table, log, life,
  objects, current, finished, imported,
  part

cleanupVars == <<program, result>>
foldVars    == <<target, expression, tree, stage>>
callVars    == <<funcs, args, called>>
forVars     == <<loop, memory, entry, lists, spot, visited, read, touched>>
indexVars == <<context, opened, operand, missing, event, tokens>>
objectVars == <<hierarchy, types, place, faults, frames, cells, table, log, life>>
typeVars == <<objects, current, finished, imported>>
compileVars == <<cleanupVars, foldVars, text, callVars, forVars, indexVars, objectVars, typeVars>>
fileVars == <<flatVars, initVars, recordVars, imageVars>>
mcVars == <<compileVars, fileVars, part>>

-----------------------------------------------------------------------------
(* Two nested loops, ifs or tries around statements that declare, raise    *)
(* and leave.                                                              *)
V(n) == [op |-> "var", name |-> n]
M(n) == [op |-> "mark", name |-> n]
R    == [op |-> "raise", type |-> "Derived"]
Again == [op |-> "raise", type |-> ""]
MCBaseOf == [Derived |-> "Base", Base |-> "", Other |-> ""]
Leave(how) == [op |-> how]
Try(b, x, f) == [op |-> "try", body |-> b, except |-> x, finally |-> f]
Handler(t, b) == [type |-> t, body |-> b]
When(h, b) == [holds |-> h, body |-> b]

Leafs == {<<>>, <<R>>, <<V("x")>>, <<V("x"), R>>, <<R, V("x")>>, <<V("x"), Leave("break")>>,
          <<Leave("continue")>>, <<V("x"), Leave("return")>>}
Handlers(n) ==
  {<<>>, <<Handler("Other", <<V(n)>>)>>, <<Handler("Base", <<Again>>)>>, <<Handler("Other", <<R>>), Handler("Base", <<M(n)>>), Handler("", <<R>>)>>}
  \cup {<<Handler("Derived", b)>> : b \in {<<>>, <<R>>, <<V(n), Leave("return")>>}}
Around(B, n) ==
  UNION {{<<[op |-> "loop", body |-> b]>>, <<[op |-> "if", branches |-> <<When(FALSE, <<R>>), When(TRUE, b), When(TRUE, <<V(n)>>)>>]>>,
          <<Try(b, <<Handler("", <<>>)>>, <<>>)>>,
          <<Try(b, <<>>, <<M(n), R>>)>>} \cup {<<Try(b, x, <<M(n)>>)>> : x \in Handlers(n)} : b \in B}
Beside(B, n) == B \cup {<<V(n)>> \o b : b \in B} \cup {Append(b, V(n)) : b \in B}
OneDeep == Beside(Around(Leafs, "f1"), "y")
TwoDeep == Beside(Around(OneDeep, "f2"), "z")
RECURSIVE JumpsFit(_, _)
JumpsFit(p, inLoop) ==
  \A i \in DOMAIN p :
    /\ p[i].op \in {"break", "continue"} => inLoop
    /\ p[i].op \in {"loop", "try"} => JumpsFit(p[i].body, inLoop \/ p[i].op = "loop")
    /\ p[i].op = "if" => \A j \in DOMAIN p[i].branches : JumpsFit(p[i].branches[j].body, inLoop)
MCPrograms == {p \in OneDeep \cup TwoDeep : JumpsFit(p, FALSE)}

Unwinding == INSTANCE Cleanup WITH Programs <- MCPrograms, BaseOf <- MCBaseOf, AnyType <- "", MaxIterations <- 2

(* Words of two and four bits on a host of four: every constant may        *)
(* overflow.                                                               *)
ExprNode(op, t, as, v) == [op |-> op, type |-> t, args |-> as, value |-> v]
IntType(b, s) == [kind |-> "int", bits |-> b, signed |-> s]
Narrow == {IntType(2, FALSE), IntType(2, TRUE)}
Wide   == {IntType(4, FALSE), IntType(4, TRUE)}
Number(t, v) == ExprNode("lit", t, <<>>, v)
Variable(t, i) == ExprNode("var", t, <<>>, i)
Op(op, as) == ExprNode(op, [kind |-> "bool", bits |-> 1, signed |-> FALSE], as, 0)
Truth == [kind |-> "bool", bits |-> 1, signed |-> FALSE]
CastTo(t, e) == ExprNode("cast", t, <<e>>, 0)
Binary(ops, S, T) == {Op(op, <<a, b>>) : op \in ops, a \in S, b \in T}

Arithmetic == {"+", "-", "*", "div", "rem", "mod", "&", "|", "xor", "<<", ">>"}
Comparisons == {"==", "<>", "<", "<=", ">", ">="}
Named == ExprNode("const", IntType(4, TRUE), <<>>, 5)
Leaves ==
  {Number(t, v) : t \in Narrow, v \in {0, 1}} \cup {Number(t, v) : t \in Wide, v \in {1, 6, -1, -8}}
  \cup {Number(IntType(2, FALSE), 3), Number(IntType(2, TRUE), -2), Number(IntType(2, TRUE), -1),
        Named, Variable(IntType(2, FALSE), 1), Variable(IntType(4, TRUE), 2)}
Few == {Number(IntType(2, FALSE), 3), Number(IntType(4, TRUE), -1), Number(IntType(4, TRUE), 6), Variable(IntType(2, FALSE), 1), Named}
Two == {Number(IntType(4, TRUE), 6), Variable(IntType(2, FALSE), 1)}
Zero == Number(IntType(2, TRUE), 0)
Logic == {Number(Truth, 0), Number(Truth, 1), Variable(Truth, 1)}
Unary(S) == {Op(op, <<e>>) : op \in {"neg", "bitnot"}, e \in S} \cup {CastTo(t, e) : t \in Narrow \cup Wide, e \in S}
MCExpressions ==
  Leaves \cup Unary(Leaves) \cup Binary(Arithmetic, Leaves, Leaves) \cup Binary(Comparisons, Leaves, Few)
  \cup Binary({"+", "div", ">>", "mod", "<<"}, Unary(Few) \cup Binary({"-", "*", "<<", "rem"}, Few, Few), Few)
  \cup Binary({"and", "or"}, Logic \cup Binary({"<"}, Two, Two), Logic \cup Binary({"=="}, Binary({"div"}, Two, {Zero} \cup Two), Two))
  \cup {Op("not", <<e>>) : e \in Logic} \cup {CastTo(t, e) : t \in Narrow, e \in Logic} \cup Binary({"+"}, Logic, Logic)
  \cup {Op("iif", <<c, a, b>>) : c \in Logic, a \in Few, b \in Few \cup Binary({"div"}, Few, {Zero})}
  \cup {Op("range", <<a, b, c>>) : a, b, c \in Few}
Folding == INSTANCE ConstantFolding WITH source <- expression,
  HostBits <- 4, Targets <- {2, 4}, Sources <- MCExpressions, Inputs <- {<<0, 0>>, <<1, 6>>, <<3, 15>>, <<2, 8>>}

(* Operand and operator take turns: any other text is refused at once.     *)
MCTokens == {"a", "(", ")", "-", "not", "and", "or", "==", "<", ">=", "div", "*", "|", "&", "<<", "as", "T", "+="}
Grammar == INSTANCE ExpressionParser WITH Tokens <- MCTokens, MaxTokens <- 6
TakesTurn(t) ==
  IF text = <<>> \/ text[Len(text)] \notin {"a", ")", "T"} THEN t \in {"a", "(", "T", "-", "not"}
  ELSE t \notin {"a", "T", "not", "("}

(* A parameter of every type and mode, arguments of every form.            *)
TypeRec(k, of, n) == [kind |-> k, of |-> of, size |-> n]
Int4 == TypeRec("int", "signed", 4)
Int8 == TypeRec("int", "signed", 8)
Float8 == TypeRec("float", "", 8)
Char == TypeRec("char", "", 1)
PlainText == TypeRec("pointer", "char", 0)
Base == TypeRec("object", "Base", 0)
Derived == TypeRec("object", "Derived", 0)
StrType == TypeRec("dynstr", "", 0)
RoStr == TypeRec("rostr", "", 0)
Buffer == TypeRec("embstr", "", 10)
Pair == TypeRec("array", "float", 2)
Growing == TypeRec("dynarray", "float", 0)
Slice == TypeRec("slice", "float", 0)
MCTypeOf == [int |-> Int8, float |-> Float8, char |-> Char, anyvalue |-> TypeRec("anyvalue", "", 0), str |-> StrType]

Par(t, m) == [type |-> t, mode |-> m, default |-> FALSE]
Optional(t) == [type |-> t, mode |-> "value", default |-> TRUE]
Fun(ps) == [params |-> ps, varargs |-> FALSE]
MCFunctions ==
  {Fun(<<Par(t, "value")>>) :
     t \in {Int8, Float8, Base, StrType, RoStr, Buffer, Pair, Growing, Slice, TypeRec("slice", "anyvalue", 0),
            TypeRec("anyvalue", "", 0), TypeRec("pointer", "Base", 0), Char}}
  \cup {Fun(<<Par(Int8, "refout")>>), Fun(<<Par(Base, "ref")>>), Fun(<<Par(Derived, "refnil")>>), Fun(<<Par(Int8, "refin"), Optional(Int8)>>),
        Fun(<<Par(Int8, "value"), Optional(Int8)>>), Fun(<<Par(Int4, "value"), Par(Float8, "value")>>),
        [Fun(<<Par(PlainText, "value")>>) EXCEPT !.varargs = TRUE]}
Arg(t, f) == [type |-> t, form |-> f, init |-> TRUE, elements |-> <<>>]
Elements(t, es) == [Arg(t, "array literal") EXCEPT !.elements = es]
MCArguments ==
  {Arg(t, f) : t \in {Int4, Int8, Derived}, f \in {"value", "variable"}}
  \cup {[Arg(Int8, "variable") EXCEPT !.init = FALSE]}
  \cup {Arg(Int8, f) : f \in {"constant", "readonly", "property"}} \cup {Arg(Derived, "fixed"), Arg(Base, "fixed")}
  \cup {Arg(Char, "element"), Arg(Char, "char literal"), Arg(TypeRec("pointer", "null", 0), "value"), Arg(PlainText, "value")}
  \cup {Arg(StrType, "variable"), Arg(StrType, "value"), Arg(RoStr, "value"), Arg(Buffer, "variable"), Arg(Buffer, "value")}
  \cup {Arg(Pair, "variable"), Arg(Pair, "value"), Arg(Slice, "value"), Arg(Growing, "variable")}
  \cup {Arg(Float8, "value"), Arg(TypeRec("bool", "", 1), "value"), Arg(TypeRec("pointer", "Derived", 0), "value"),
        Arg(TypeRec("pointer", "opaque", 0), "value")}
  \cup {Elements(Pair, <<Arg(Float8, "value"), Arg(Int8, "value")>>), Elements(TypeRec("array", "int", 0), <<>>)}
  \cup {Elements(TypeRec("array", "int", 2), <<Arg(Int8, "value"), Arg(t, "value")>>) : t \in {Float8, TypeRec("bool", "", 1)}}
MCCalls ==
  {<<>>} \cup {<<a>> : a \in MCArguments}
  \cup {<<a, b>> : a \in {Arg(Int4, "value"), Arg(Int8, "variable"), Arg(PlainText, "value")},
                   b \in {Arg(Int4, "value"), Arg(Float8, "value"), Arg(RoStr, "value")}}
(* A third overload is one of the last that is declared.                   *)
ThirdFunctions ==
  {Fun(<<Par(Int8, "refin"), Optional(Int8)>>), Fun(<<Par(Int8, "value"), Optional(Int8)>>), Fun(<<Par(Float8, "value")>>),
   Fun(<<Par(Base, "ref")>>), Fun(<<Par(Slice, "value")>>), Fun(<<Par(RoStr, "value")>>)}
Overloads == INSTANCE OverloadCalls WITH
  TypeOf <- MCTypeOf, Extends <- {<<"Derived", "Base">>}, Functions <- MCFunctions, Calls <- MCCalls, MaxOverloads <- 3, outcome <- called

(* Loops over numbers of two bits; the body may change every variable.     *)
Literal(v) == [op |-> "number", value |-> v]
Given(x)   == [op |-> "variable", value |-> x]
TwoBits(s) == [bits |-> 2, signed |-> s]
ThreeBits  == [bits |-> 3, signed |-> TRUE]
NewVariable == [type |-> [bits |-> 0, signed |-> FALSE], kind |-> "variable"]
Counted(f, t, a, b, c) ==
  [form |-> f, given |-> t, variable |-> NewVariable, ref |-> FALSE, first |-> a, limit |-> b, step |-> c, compare |-> "<"]
Walk(arr, ref) ==
  [form |-> "in", given |-> IF ref THEN NewVariable.type ELSE ThreeBits, variable |-> NewVariable, ref |-> ref, array |-> arr]
MCTexts ==
  {Counted(f, TwoBits(s), a, b, c) : f \in {"to", "downto", "count", "downcount", "while"}, s \in BOOLEAN,
     a \in {Literal(0), Given("n")}, b \in {Literal(1), Given("n")}, c \in {Literal(1), Given("s")}}
  \cup {Walk(a, r) : a \in {[op |-> "variable", name |-> "a"], [op |-> "member", name |-> "items"], [op |-> "index", name |-> "rows"]}, r \in BOOLEAN}
MCMemories ==
  {[i |-> 0, count |-> 0, index |-> 0, n |-> n, s |-> s, o |-> "a", bound |-> <<>>] : n \in {-1, 1, 2, 3}, s \in {1, 2}}
MCLists == {[a |-> x, b |-> y] : x \in {<<>>, <<1>>, <<1, 2>>}, y \in {<<>>, <<3>>}}
Loops == INSTANCE ForLoop WITH at <- spot,
  Wide <- ThreeBits, Texts <- MCTexts, Memories <- MCMemories, Lists <- MCLists, Values <- {-1, 1}, MaxIterations <- 4

(* A name of every kind of array and text, and what their methods take;    *)
(* inside of brackets and calls a few of them.                             *)
Place(t) == Arg(t, "variable") @@ [clones |-> TRUE, wants |-> <<>>]
Temporary(t, f) == Arg(t, f) @@ [clones |-> FALSE, wants |-> <<>>]
Row == TypeRec("dynarray", "int", 0)
Task == TypeRec("autofree", "Task", 0)
IndexTypes == [int |-> Int8, float |-> Float8, char |-> Char, anyvalue |-> TypeRec("anyvalue", "", 0), row |-> Row, task |-> Task]
MCOperands ==
  [fixed |-> Place(TypeRec("array", "int", 2)), list |-> Place(Row), rows |-> Place(TypeRec("dynarray", "row", 0)),
   slice |-> Place(TypeRec("slice", "int", 0)), tasks |-> Place(TypeRec("dynarray", "task", 0)), task |-> Place(Task),
   text |-> Place(StrType), buffer |-> Place(Buffer), view |-> Place(TypeRec("strslice", "", 0)), any |-> Place(TypeRec("anyvalue", "", 0)),
   board |-> Place(TypeRec("object", "Board", 0)), thing |-> Place(TypeRec("object", "Thing", 0)),
   pointer |-> Place(TypeRec("pointer", "int", 0)), opaque |-> Place(TypeRec("pointer", "opaque", 0)),
   one |-> Temporary(Int8, "value"), yes |-> Temporary(TypeRec("bool", "", 1), "value"), half |-> Temporary(Float8, "value"),
   name |-> Temporary(RoStr, "value"), letter |-> Temporary(Char, "value"), part |-> Temporary(TypeRec("slice", "int", 0), "value"),
   items |-> Temporary(Row, "property"),
   pair |-> [Temporary(TypeRec("array", "int", 2), "array literal") EXCEPT !.elements = <<Arg(Int8, "value"), Arg(Int8, "value")>>]]
MCPropertyOf == [Board |-> [Temporary(Row, "property") EXCEPT !.wants = <<"int", "int">>]]
Member(ks, m, ps, r) == [kinds |-> ks, name |-> m, params |-> ps, result |-> r]
Grown == {"dynarray"}
Edited == {"dynstr", "embstr"}
AnyText == {"dynstr", "embstr", "strslice", "rostr"}
MCDocumented ==
  {Member(Grown, m, <<p>>, "nothing") : m \in {"Append", "Prepend"}, p \in {"element", "slice"}}
  \cup {Member(Grown, "Insert", <<"int", p>>, "nothing") : p \in {"element", "slice"}}
  \cup {Member(Grown, "AppendSlice", <<"slice">>, "nothing"), Member(Grown, "InsertSlice", <<"int", "slice">>, "nothing"),
        Member(Grown, "Clone", <<>>, "array"), Member({"dynarray", "array", "slice"}, "IndexOf", <<"value">>, "int")}
  \cup {Member(Grown, m, <<>>, "element") : m \in {"Pop", "PopFirst"}} \cup {Member(Grown, "SetLength", <<"uint">>, "nothing")}
  \cup {Member({"dynarray", "dynstr"}, m, <<"uint">>, "nothing") : m \in {"Reserve", "SetCapacity"}}
  \cup {Member({"dynarray", "dynstr"}, "Compact", <<>>, "nothing"), Member({"dynarray", "dynstr"}, "Clear", <<"bool">>, "nothing"),
        Member(Grown \cup Edited, "Clear", <<>>, "nothing"), Member({"dynstr"}, "Clone", <<>>, "str"),
        Member({"dynstr"}, "SetLength", <<"uint", "char">>, "nothing"), Member({"dynstr"}, "Truncate", <<"uint">>, "nothing")}
  \cup {Member(Grown \cup Edited, "Delete", ps, "nothing") : ps \in {<<"int">>, <<"int", "int">>}}
  \cup {Member(Edited, m, <<"text">>, "nothing") : m \in {"Set", "Add", "Append", "Prepend"}}
  \cup {Member(Edited, "AppendChar", <<"char">>, "nothing"), Member(Edited, "AddFmt", <<"strslice", "values">>, "nothing"),
        Member(Edited, "Insert", <<"int", "text">>, "nothing"), Member(AnyText, "ToWchars", <<>>, "wchars")}
  \cup {Member({"dynstr"}, m, <<>>, "char") : m \in {"Pop", "PopFirst"}} \cup {Member({"dynstr"}, m, <<"int">>, "str") : m \in {"Pop", "PopFirst"}}
  \cup {Member(AnyText, m, <<"text">>, "bool") : m \in {"Contains", "StartsWith", "EndsWith"}}
  \cup {Member(AnyText, m, <<"text">>, "int") : m \in {"IndexOf", "LastIndexOf"}} \cup {Member(AnyText, "IndexOf", <<"text", "int">>, "int")}
  \cup {Member(AnyText, m, <<>>, "str") : m \in {"Upper", "Lower", "Trim", "LTrim", "RTrim"}}
  \cup {Member(AnyText, m, <<"text">>, "str") : m \in {"Trim", "LTrim", "RTrim"}}
  \cup {Member(AnyText, m, <<"int", "text">>, "str") : m \in {"LPad", "RPad"}}
  \cup {Member(AnyText, "ToInt", ps, "int") : ps \in {<<>>, <<"int">>}} \cup {Member(AnyText, "ToFloat", ps, "float") : ps \in {<<>>, <<"float">>}}
Contexts == INSTANCE IndexContexts WITH TypeOf <- IndexTypes, Operands <- MCOperands, PropertyOf <- MCPropertyOf,
  Missing <- {{}, {"slice"}}, Documented <- MCDocumented, MaxTokens <- 7, MaxFrames <- 2
Some(S) == {MCOperands[x] : x \in S}
Inside == Some({"fixed", "list", "text", "board", "part", "pointer"})
Second == Some({"one", "letter", "name", "pair", "list", "task"})
TwoArguments == {"Insert", "InsertSlice", "Delete", "SetLength", "AddFmt", "LPad", "IndexOf", "Pop", "AsInt", ""}
LastOpened == opened'[Len(opened')]
NamesOf(op) == IF op \in DOMAIN Contexts!Methods THEN DOMAIN Contexts!Methods[op] \cup {"Grow"} ELSE {"", "Append"}
Plainly ==
  /\ Len(opened') > Len(opened) =>
       IF tokens = 1 /\ missing = {} THEN LastOpened.name \in NamesOf(LastOpened.op)
       ELSE (opened # <<>> => operand.expr \in Inside) /\ LastOpened.name \in {"", "IndexOf", "Pop", "Grow"}
  /\ opened # <<>> /\ Len(opened') = Len(opened) =>
       /\ operand.state = "open" => operand'.state # "open"
       /\ operand.state # "awaited" /\ operand'.state = "awaited" => opened[Len(opened)].name \in TwoArguments
       /\ operand'.state = "open" /\ (tokens > 3 \/ opened[Len(opened)].args # <<>>) => operand'.expr \in Second
       /\ operand'.state = "open" /\ tokens > 4 => event'.kind = "position"
  /\ opened = <<>> /\ operand.state # "awaited" /\ operand'.state = "awaited" /\ opened' = <<>> => tokens > 3
  /\ opened = <<>> /\ operand.state = "awaited" /\ tokens > 1 => event'.kind = "position"

(* Up to three types, each with a field; no return in a destructor and no  *)
(* constructor that calls another one of its type.                         *)
FieldItem(f) == [kind |-> "field", storage |-> f]
Do(op) == [op |-> op, n |-> 0, body |-> <<>>]
Work == Do("work")
Create(n, body) == [kind |-> "create", args |-> n, body |-> body, defined |-> TRUE]
Destroy(body) == [Create(0, body) EXCEPT !.kind = "destroy"]
Forward(m) == [m EXCEPT !.defined = FALSE, !.body = <<>>]
Build == [Do("create field") EXCEPT !.n = 1]
In(items) == [inside |-> items, outside |-> <<>>]
Split(f, m) == [inside |-> <<FieldItem(f), Forward(m)>>, outside |-> <<m>>]
Sometimes(op) == [Do("if") EXCEPT !.body = <<Do(op)>>]
RootBodies == {<<Work>>, <<Sometimes("return"), Work>>, <<Sometimes("raise"), Work>>}
RootTypes ==
  {In(<<FieldItem("built")>>), In(<<FieldItem("plain"), Create(1, <<Work>>), Create(0, <<Work>>), Destroy(<<Work>>)>>),
   Split("late", Create(0, <<Build, Work>>)), In(<<FieldItem("late"), Create(0, <<Work>>)>>),
   In(<<FieldItem("built"), Create(0, <<Work>>), Create(0, <<Work>>)>>)}
  \cup {In(<<FieldItem("built"), Create(0, b), Destroy(<<Work>>)>>) : b \in RootBodies}
Up(n) == [Do("inherited create") EXCEPT !.n = n]
Below == Do("inherited destroy")
DerivedOf ==
  {In(<<FieldItem("built")>>), In(<<>>), In(<<FieldItem("plain"), Destroy(<<Work>>)>>),
   In(<<FieldItem("built"), Create(1, <<Up(1), Work>>), Destroy(<<Work, Below>>)>>),
   In(<<FieldItem("late"), Create(0, <<Build, Work>>), Create(1, <<Up(0), Work, Build>>), Destroy(<<Work>>)>>),
   In(<<FieldItem("built"), Create(0, <<Work, Up(0)>>)>>), In(<<FieldItem("built"), Create(0, <<Up(0), Up(0)>>)>>),
   In(<<FieldItem("built"), Destroy(<<Below, Work>>)>>),
   Split("built", Create(0, <<Work>>)), [Split("built", Destroy(<<Work>>)) EXCEPT !.outside = @ \o @],
   [In(<<FieldItem("plain")>>) EXCEPT !.outside = <<Create(0, <<Work>>)>>]}
MCHierarchies ==
  {[objects |-> <<r>> \o ds, virtual |-> v] : r \in RootTypes, ds \in {<<>>} \cup {<<d>> : d \in DerivedOf} \cup {<<d, e>> : d, e \in DerivedOf}, v \in BOOLEAN}
Lives == INSTANCE ObjectLifecycle WITH
  source <- hierarchy, errors <- faults, stack <- frames, phase <- life, Hierarchies <- MCHierarchies, DeletedAs <- {}

(* Three types, each overrides, adds and hides what its bases have.        *)
ObjectMethod(n, s, as) == [name |-> n, sig |-> s, attrs |-> as, open |-> FALSE]
Announced(m) == [m EXCEPT !.open = TRUE]
MCMethods ==
  {ObjectMethod("f", <<>>, as) : as \in {{}, {"virtual"}, {"virtual", "abstract"}, {"override"}, {"override", "final"}}}
  \cup {ObjectMethod("f", <<"int">>, as) : as \in {{"virtual"}, {"override"}}}
  \cup {ObjectMethod("g", <<>>, as) : as \in {{"virtual"}, {"override"}}}
  \cup {Announced(ObjectMethod("g", <<>>, {"override"})), Announced(ObjectMethod("f", <<>>, {}))}
Types == INSTANCE ObjectTypes WITH
  MethodNames <- <<"f", "g">>, Methods <- MCMethods, Creates <- {<<>>, <<"int">>}, MaxTypes <- 3, MaxMembers <- 2, Unusual <- {}

(* The order of constructors and methods of different names is of no       *)
(* consequence; the first type may be announced.                           *)
InOrder ==
  /\ Len(objects') > Len(objects) /\ current' = 0 => objects = <<>>
  /\ current # 0 /\ current' = current =>
       LET old == objects[current]  new == objects'[current] IN
       /\ Len(new.creates) > Len(old.creates) => old.methods = <<>>
       /\ Len(new.methods) = 2 => ~(new.methods[1].name = "g" /\ new.methods[2].name = "f")
       /\ new.methods # <<>> /\ new.creates # <<>> => current = 1
       /\ Len(new.methods) = 2 => Len(objects) < 3

(* Module a is the base, b and c use it, f is the facade, p the program;    *)
(* their names come in every order.                                        *)
TypeRef(o, n, w) == [owner |-> o, name |-> n, wrapped |-> w]
TypeDecl(n, b)   == [name |-> n, body |-> b]
ModuleUse(m, p, r, ns) == [module |-> m, private |-> p, reexport |-> r, names |-> ns]
PlainUse(m) == ModuleUse(m, FALSE, FALSE, {})
Reexport(m, ns) == ModuleUse(m, FALSE, TRUE, ns)

World(a, b, c, ba, bb, bc, bf, priv, uf, ua) ==
  [decls |-> [m \in 1..5 |->
     CASE m = a -> <<TypeDecl(1, ba), TypeDecl(2, <<TypeRef(a, 1, FALSE)>>)>>
       [] m = b -> <<TypeDecl(3, bb)>>
       [] m = c -> <<TypeDecl(4, bc)>>
       [] m = 4 -> bf
       [] OTHER -> <<>>],
   uses |-> [m \in 1..5 |->
     CASE m = a -> priv
       [] m \in {b, c} -> <<PlainUse(a)>>
       [] m = 4 -> uf
       [] OTHER -> ua]]

MCModules == 1..5
Orders == {q \in [1..3 -> 1..3] : Cardinality(Range(q)) = 3}
MCWorlds == UNION {
  LET a == q[1]  b == q[2]  c == q[3] IN
  {World(a, b, c, ba, bb, bc, bf, priv, uf, ua) :
     ba \in {<<>>, <<TypeRef(a, 2, TRUE)>>},
     bb \in {<<TypeRef(a, 2, FALSE)>>, <<TypeRef(a, 2, TRUE)>>},
     bc \in {<<TypeRef(a, 1, FALSE)>>, <<TypeRef(a, 2, TRUE)>>},
     bf \in {<<>>, <<TypeDecl(5, <<TypeRef(a, 1, TRUE), TypeRef(b, 3, FALSE)>>)>>, <<TypeDecl(4, <<>>)>>},
     priv \in {<<>>, <<ModuleUse(b, TRUE, FALSE, {})>>},
     uf \in {<<Reexport(b, {3}), Reexport(c, {}), PlainUse(a)>>, <<Reexport(a, {1}), Reexport(c, {}), PlainUse(b)>>},
     ua \in {<<PlainUse(4), PlainUse(a)>>, <<PlainUse(b), PlainUse(4)>>,
             <<PlainUse(4), PlainUse(c), PlainUse(b)>>}} : q \in Orders}

(* Three modules whose interfaces and implementations use each other, and  *)
(* two programs.                                                           *)
Pub(m)  == [module |-> m, private |-> FALSE]
Priv(m) == [module |-> m, private |-> TRUE]
MCGraphs ==
  {[uses |-> ("a" :> ua @@ "b" :> ub @@ "c" :> <<>> @@ "p" :> up @@ "q" :> <<Priv("b")>>), inits |-> is] :
     ua \in {<<>>, <<Priv("b")>>, <<Priv("b"), Priv("c")>>, <<Pub("c")>>},
     ub \in {<<>>, <<Priv("a")>>, <<Pub("a")>>, <<Priv("c")>>},
     up \in {<<Priv("a")>>, <<Pub("b"), Priv("a")>>, <<Priv("c"), Priv("a")>>},
     is \in {{"a", "b", "c"}, {"c"}, {"b", "c", "p"}, {"a", "b"}}}
MCSources == {"a", "b", "c", "p", "q"}

(* Every kind of declaration with types up to two levels deep.             *)
Type(r) == [kind |-> "named", ref |-> r]
Wrap(k, b) == [kind |-> k, base |-> b]
ArrayOf(n, b) == [kind |-> "array", length |-> n, base |-> b]
Sig(r, ps, v) == [ret |-> r, params |-> ps, varargs |-> v]
Param(n, m, t, v) == [name |-> n, mode |-> m, type |-> t, value |-> v]
Inline(n) == [form |-> "inline", num |-> n]
TextValue == [form |-> "text", text |-> "s"]
StoredValue == [form |-> "stored"]
NoAttrs == [flags |-> {}, align |-> 0, link |-> ""]
SomeAttrs == [flags |-> {"inline", "overload"}, align |-> 4, link |-> "l"]
Sigs == {Sig(Void, <<>>, FALSE), Sig(Type("int"), <<Param("a", "value", Type("int"), Inline(3))>>, TRUE),
         Sig(Wrap("ptr", Type("int")), <<Param("a", "refin", Wrap("slice", Type("S")), NoValue),
                                     Param("b", "value", Type("S"), StoredValue)>>, FALSE)}
FuncRef(o, s) == [kind |-> "funcref", ofobject |-> o, sig |-> s]
BaseTypes == {Type("int"), Type("S"), [kind |-> "objtype", ref |-> "O"]} \cup {FuncRef(o, s) : o \in BOOLEAN, s \in Sigs}
WrappedOnce == {Wrap(k, b) : k \in Wrapping \ {"array"}, b \in BaseTypes} \cup {ArrayOf(3, b) : b \in BaseTypes}
AllTypes == BaseTypes \cup WrappedOnce \cup {Wrap("ptr", b) : b \in WrappedOnce} \cup {ArrayOf(2, b) : b \in WrappedOnce}
SomeTypes == {Type("S"), Wrap("ptr", Type("S")), ArrayOf(3, Wrap("ptr", FuncRef(TRUE, Sig(Void, <<>>, FALSE)))),
              FuncRef(FALSE, Sig(Type("int"), <<>>, TRUE))}
Func(n, a, s, k) == [kind |-> "func", name |-> n, attrs |-> a, sig |-> s, asm |-> [body |-> k # <<>>, kinds |-> k]]
Functions(n) == {Func(n, a, s, <<>>) : a \in {NoAttrs, SomeAttrs}, s \in Sigs}
  \cup {Func(n, SomeAttrs, Sig(Void, <<Param("a", "ref", Type("int"), NoValue)>>, FALSE), <<"in">>)}
FieldOf(n, t) == [name |-> n, attrs |-> NoAttrs, offset |-> 4, type |-> t]
PropOf(n, ix, t, r, w) == [name |-> n, indices |-> ix, type |-> t, read |-> r, write |-> w]
Objects == {[kind |-> "object", name |-> "O", size |-> 8, alignment |-> 4, base |-> b,
             fields |-> fs, methods |-> ms, props |-> ps] :
   b \in {"", "B"}, fs \in {<<FieldOf("f", t)>> : t \in SomeTypes},
   ms \in {<<Func("m", NoAttrs, s, <<>>)>> : s \in Sigs},
   ps \in {<<>>, <<PropOf("p", <<>>, Type("int"), "f", "")>>,
           <<PropOf("q", <<[name |-> "i", mode |-> "refin", type |-> Wrap("ptr", Type("int"))]>>, Type("S"), "m", "f")>>}}
Aliases == {[kind |-> "alias", name |-> "T", type |-> t] : t \in AllTypes}
Enums == {[kind |-> "enum", name |-> "E", type |-> Type("int"), items |-> is] :
            is \in {<<>>, <<[name |-> "a", value |-> 1], [name |-> "b", value |-> 2]>>}}
Consts == {[kind |-> "const", name |-> "C", attrs |-> NoAttrs, type |-> t, value |-> v] :
             t \in {Type("int"), Wrap("ptr", Type("int"))}, v \in {Inline(7), TextValue, StoredValue}}
VarDecls == {[kind |-> "var", name |-> "v", attrs |-> a, type |-> t] : a \in {NoAttrs, SomeAttrs}, t \in SomeTypes}
SomeDecls == Objects \cup Aliases \cup Enums \cup Consts \cup VarDecls \cup Functions("f")
MCDeclared ==
  {<<d>> : d \in SomeDecls}
  \cup {<<d, e, Func("f", SomeAttrs, Sig(Void, <<>>, FALSE), <<>>)>> : d \in Objects \cup Enums \cup VarDecls, e \in Consts}
MCTypeNames == {"int", "S", "O", "B"}

MCContents == {<<>>, <<[id |-> 1, data |-> <<>>]>>, <<[id |-> 1, data |-> <<2, 0>>], [id |-> 3, data |-> <<1>>]>>,
  <<[id |-> 2, data |-> <<3, 1, 0>>], [id |-> 1, data |-> <<>>], [id |-> 2, data |-> <<0>>]>>}

-----------------------------------------------------------------------------
MCLoops == {Loops!ParseStmtFor(t) : t \in MCTexts} \ {Loops!Rejected}
FirstExpression == CHOOSE e \in MCExpressions : TRUE
FirstLoop   == CHOOSE l \in MCLoops : TRUE
FirstMemory == CHOOSE m \in MCMemories : TRUE
FirstLists  == CHOOSE l \in MCLists : TRUE
FirstHierarchy == CHOOSE h \in MCHierarchies : TRUE
FirstWorld   == CHOOSE x \in Worlds : TRUE
FirstGraph   == CHOOSE x \in Graphs : TRUE
FirstSource  == CHOOSE x \in ModuleTexts : TRUE
FirstContent == CHOOSE x \in Contents : TRUE
FirstImage   == Image(FirstContent, 0)

MCInit ==
  /\ part \in {"cleanup", "folding", "grammar", "calls", "loops", "contexts", "objects", "types",
               "flat", "init", "records", "image"}
  /\ IF part = "folding" THEN target \in {2, 4} /\ expression \in MCExpressions ELSE target = 2 /\ expression = FirstExpression
  /\ IF part = "loops" THEN loop \in MCLoops /\ memory \in MCMemories /\ lists \in MCLists
     ELSE loop = FirstLoop /\ memory = FirstMemory /\ lists = FirstLists
  /\ IF part = "objects" THEN hierarchy \in MCHierarchies ELSE hierarchy = FirstHierarchy
  /\ IF part = "flat"    THEN world \in Worlds ELSE world = FirstWorld
  /\ IF part = "init"    THEN graph \in Graphs ELSE graph = FirstGraph
  /\ IF part = "records" THEN source \in ModuleTexts ELSE source = FirstSource /\ known = {}
  /\ IF part = "image"   THEN content \in Contents ELSE content = FirstContent /\ image = FirstImage
  /\ Unwinding!CleanupInit /\ Folding!FoldInit /\ Grammar!ExpressionInit
  /\ Overloads!CallInit /\ Loops!NothingRun /\ Contexts!ContextInit /\ Lives!LifeInit
  /\ Types!TypesInit /\ NothingBuilt /\ NothingCompiled /\ FileWritten /\ ImageInit
  /\ part # "contexts" => missing = {}

MCNext ==
  /\ UNCHANGED part
  /\ \/ /\ part = "cleanup" /\ Unwinding!CleanupNext
        /\ UNCHANGED <<foldVars, text, callVars, forVars, indexVars, objectVars, typeVars, fileVars>>
     \/ /\ part = "folding" /\ Folding!FoldNext
        /\ UNCHANGED <<cleanupVars, text, callVars, forVars, indexVars, objectVars, typeVars, fileVars>>
     \/ /\ part = "grammar" /\ (\E t \in MCTokens : TakesTurn(t) /\ Grammar!Write(t))
        /\ UNCHANGED <<cleanupVars, foldVars, callVars, forVars, indexVars, objectVars, typeVars, fileVars>>
     \/ /\ part = "calls" /\ Overloads!CallNext /\ (Len(funcs') = 3 => funcs'[3] \in ThirdFunctions)
        /\ UNCHANGED <<cleanupVars, foldVars, text, forVars, indexVars, objectVars, typeVars, fileVars>>
     \/ /\ part = "loops" /\ Loops!ForNext
        /\ UNCHANGED <<cleanupVars, foldVars, text, callVars, indexVars, objectVars, typeVars, fileVars>>
     \/ /\ part = "contexts" /\ Contexts!ContextNext /\ Plainly
        /\ UNCHANGED <<cleanupVars, foldVars, text, callVars, forVars, objectVars, typeVars, fileVars>>
     \/ /\ part = "objects" /\ Lives!LifeNext
        /\ UNCHANGED <<cleanupVars, foldVars, text, callVars, forVars, indexVars, typeVars, fileVars>>
     \/ /\ part = "types" /\ Types!TypesNext /\ InOrder
        /\ UNCHANGED <<cleanupVars, foldVars, text, callVars, forVars, indexVars, objectVars, fileVars>>
     \/ /\ part = "flat" /\ FlatNext /\ UNCHANGED <<compileVars, initVars, recordVars, imageVars>>
     \/ /\ part = "init" /\ InitNext /\ UNCHANGED <<compileVars, flatVars, recordVars, imageVars>>
     \/ /\ part = "records" /\ RecordNext /\ UNCHANGED <<compileVars, flatVars, initVars, imageVars>>
     \/ /\ part = "image" /\ ImageNext /\ UNCHANGED <<compileVars, flatVars, initVars, recordVars>>

MCSpec == MCInit /\ [][MCNext]_mcVars

(* Every declaration comes back from an interface file as it was written,  *)
(* damaged files are refused, a flattened facade resolves every reference  *)
(* and shows the names it selects (OModuleIntf); calls through the virtual *)
(* tables and constructors of type variables reach the nearest method and  *)
(* the right constructor, whoever made the tables (OTypeObject).           *)
InterfacesKeepMeaning ==
  /\ part = "types" => Types!ObjectTypesOK /\ Types!DispatchAsDocumented /\ Types!ImportersAgree /\ Types!FactoriesConstruct
  /\ part = "flat" => FlatTypeOK /\ InterfacesRead /\ SelectedNamesVisible /\ NoTypeLeftOpen
  /\ part = "records" => RecordTypeOK /\ RoundTrip
  /\ part = "image" => ImageTypeOK /\ OnlyWholeFiles

(* Every module of a program is initialised once and after those whose     *)
(* interfaces it uses (ODqModule).                                         *)
ModulesStartInOrder == part = "init" => InitTypeOK /\ InitializedInOrder

(* Locals are destroyed once and all of them, however blocks, loops and    *)
(* try statements are left, in the order the reference gives; objects are  *)
(* built from base to derived and destroyed the other way round, every     *)
(* field once (statements.cpp, otype_func.cpp, dqc_ast.cpp).               *)
CleanupAsDocumented ==
  /\ part = "cleanup" =>
       Unwinding!CleanupTypeOK /\ Unwinding!NoDoubleDestroy /\ Unwinding!NothingLeaks /\ Unwinding!StructuredAsDocumented
  /\ part = "objects" => Lives!LifeTypeOK /\ Lives!BuiltAsDocumented /\ Lives!GoneAsDocumented

(* Expressions group as the table of precedences says, folding them        *)
(* changes no value, arrays and texts have the methods the reference       *)
(* lists, and $end is the end of the innermost one (dqc_parser_expr.cpp,   *)
(* expressions.cpp).                                                       *)
ExpressionsAsDocumented ==
  /\ part = "folding" => Folding!FoldTypesOK /\ Folding!FoldingKeepsValues /\ Folding!ConstantsFold
  /\ part = "grammar" => Grammar!GroupsAsDocumented
  /\ part = "contexts" =>
       Contexts!ContextTypeOK /\ Contexts!EndIsInnermost /\ Contexts!ContextKept /\ Contexts!MethodsAsDocumented

(* Of several overloads the best one is called, whatever the order they    *)
(* are declared in, and its parameters get what they can take              *)
(* (otype_func.cpp, dqc_ast.cpp).                                          *)
OverloadsAsDocumented ==
  part = "calls" =>
    /\ Overloads!CallTypesOK /\ Overloads!BestIsCalled /\ Overloads!OverloadsAreFunctions
    /\ Overloads!ExactCallsReachTheirOverload /\ Overloads!ArgumentsFit

(* Loops that end run as often, with the values and with the evaluations   *)
(* the reference says (OStmtFor).                                          *)
LoopsAsDocumented ==
  part = "loops" =>
    /\ Loops!ForTypesOK /\ Loops!RangeIsInclusive /\ Loops!CountRunsN
    /\ Loops!EvaluatedAsDocumented /\ Loops!ElementsInOrder
=============================================================================
