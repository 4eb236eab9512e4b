--------------------------- MODULE IndexContexts ---------------------------
(***************************************************************************)
(* Postfix operators: indices, slices, the methods of arrays, texts and    *)
(* anyvalues, and the positions $end and $last inside of them.  What such  *)
(* a position is counted in, the parser keeps in three fields, which every *)
(* bracket and every method call saves, sets and gives back                *)
(* (ParsePostfixIndexOrSlice, ParsePostfixDotMember and the Parse...Method *)
(* functions of dqc_parser_expr.cpp).                                      *)
(*                                                                         *)
(* An expression is an argument of OverloadCalls that also says whether it *)
(* can be repeated (OLValueExpr::Clone), and the types of the indices that *)
(* a property still waits for.                                             *)
(***************************************************************************)
EXTENDS Integers, Sequences, FiniteSets, TLC

CONSTANTS TypeOf,      \* the types that elements refer to by name
          Operands,    \* name -> expression
          PropertyOf,  \* name of an object type -> its default property
          Missing,     \* sets of runtime modules that may be unavailable
          Documented,  \* [kinds, name, params, result]: the reference's methods
          MaxTokens, MaxFrames

VARIABLES context,  \* array_index_context_len, _lval and _wchar
          opened,   \* the brackets and calls that are open
          operand,  \* the operand before the next token
          missing,  \* runtime modules that cannot be used
          event,    \* what the last token decided
          tokens

contextVars == <<context, opened, operand, missing, event, tokens>>

C == INSTANCE OverloadCalls WITH
  Extends <- {}, Functions <- {}, Calls <- {}, MaxOverloads <- 0, funcs <- <<>>, args <- <<>>, outcome <- <<>>

Signed == C!Type("int", "signed", 8)
Unsigned == C!Type("int", "unsigned", 8)
Bool == C!Type("bool", "", 1)
Float == C!Type("float", "", 8)
Char == C!Type("char", "", 1)
WChar == C!Type("wchar", "", 4)
Str == C!Type("dynstr", "", 0)
StrSlice == C!Type("strslice", "", 0)
CharPointer == C!CharPointer
Values == C!Type("slice", "anyvalue", 0)
WChars == C!Type("dynarray", "wchar", 0)
Void == C!Type("void", "", 0)

Expr(t, form, clones) == [type |-> t, form |-> form, init |-> TRUE, elements |-> <<>>, clones |-> clones, wants |-> <<>>]
Value(t) == Expr(t, "value", FALSE)
NoExpr == Expr(Void, "nullptr", FALSE)
Kind(e) == e.type.kind
Elem(e) == TypeOf[e.type.of]
IsText(e) == C!IsString(e.type)
IsArray(e) == Kind(e) \in C!ArrayKinds
IsLValue(e) == C!IsLValue(e)

(***************************************************************************)
(* The methods: name -> the parameter lists it takes, one of every length. *)
(***************************************************************************)
DynArrayMethods ==
    [Clear |-> {<<>>, <<"bool">>}, Reserve |-> {<<"uint">>}, Compact |-> {<<>>}, SetLength |-> {<<"uint">>},
     SetCapacity |-> {<<"uint">>}, Append |-> {<<"element">>}, AppendSlice |-> {<<"slice">>},
     Prepend |-> {<<"element">>}, Insert |-> {<<"int", "element">>}, InsertSlice |-> {<<"int", "slice">>},
     Delete |-> {<<"int">>, <<"int", "int">>}, Clone |-> {<<>>}, Pop |-> {<<>>}, PopFirst |-> {<<>>}]

EmbStrMethods ==
    [Clear |-> {<<>>}, AppendChar |-> {<<"char">>}, AddFmt |-> {<<"strslice", "values">>}, Insert |-> {<<"int", "source">>},
     Delete |-> {<<"int">>, <<"int", "int">>}]
      @@ [m \in {"Set", "Append", "Add", "Prepend"} |-> {<<"source">>}]

(* IsStringUtilityMethodName *)
UtilityMethods ==
    [m \in {"Upper", "Lower"} |-> {<<>>}] @@ [m \in {"Trim", "LTrim", "RTrim"} |-> {<<>>, <<"text">>}]
      @@ [ToInt |-> {<<>>, <<"int">>}, ToFloat |-> {<<>>, <<"float">>}, IndexOf |-> {<<"text">>, <<"text", "int">>}]
      @@ [m \in {"LPad", "RPad"} |-> {<<"int", "text">>}]
      @@ [m \in {"LastIndexOf", "Contains", "StartsWith", "EndsWith"} |-> {<<"text">>}]

StringMethods ==
    UtilityMethods
      @@ [Clear |-> {<<>>, <<"bool">>}, Set |-> {<<"source">>}, AppendChar |-> {<<"char">>}, Compact |-> {<<>>},
          SetLength |-> {<<"uint", "char">>}, AddFmt |-> {<<"strslice", "values">>}, Insert |-> {<<"int", "text">>},
          Delete |-> {<<"int">>, <<"int", "int">>}, Clone |-> {<<>>}, ToWchars |-> {<<>>}]
      @@ [m \in {"Reserve", "SetCapacity", "Truncate"} |-> {<<"uint">>}]
      @@ [m \in {"Append", "Add", "Prepend"} |-> {<<"text">>}] @@ [m \in {"Pop", "PopFirst"} |-> {<<>>, <<"int">>}]

(* The methods of an anyvalue: a question, an answer with its default, and *)
(* a new value.                                                            *)
AnyValueIs ==
    {"IsNull", "IsNumber", "IsInt", "IsSInt", "IsUint", "IsChar", "IsWChar", "IsBool", "IsPointer", "IsFloat", "IsFloat32",
     "IsFloat64", "IsText", "IsStr"}
AnyValueAs ==
    [AsInt |-> "int", AsUint |-> "uint", AsChar |-> "char", AsWChar |-> "wchar", AsBool |-> "bool", AsPointer |-> "pointer",
     AsFloat |-> "float", AsFloat32 |-> "float32", AsFloat64 |-> "float", AsText |-> "source", AsStrSlice |-> "source", AsStr |-> "source"]
AnyValueSet ==
    [SetInt |-> "int", SetUInt |-> "uint", SetChar |-> "char", SetWChar |-> "wchar", SetBool |-> "bool", SetPointer |-> "pointer",
     SetFloat |-> "float", SetFloat32 |-> "float32", SetFloat64 |-> "float", SetText |-> "source", SetEmbStr |-> "source", SetStr |-> "source"]
AnyValueMethods ==
    [m \in AnyValueIs \cup {"SetNull"} |-> {<<>>}] @@ [m \in DOMAIN AnyValueAs |-> {<<AnyValueAs[m]>>}]
      @@ [m \in DOMAIN AnyValueSet |-> {<<AnyValueSet[m]>>}]

(* prefer_slice_append: an array goes in as one element only where that    *)
(* takes fewer conversions than its elements do.                           *)
RangeFlags == {"slice", "lazy"}
ElementSlice(receiver) == C!Type("slice", receiver.type.of, 0)
PrefersSlice(receiver, a) ==
    /\ IsArray(a)
    /\ \E cost \in {C!Conversion(Elem(receiver), a, RangeFlags).cost} :
         cost < 0 \/ C!Conversion(ElementSlice(receiver), a, RangeFlags).cost > cost

(* The type a parameter stands for. *)
Plain == [bool |-> Bool, uint |-> Unsigned, int |-> Signed, char |-> Char, float |-> Float,
          strslice |-> StrSlice, text |-> StrSlice, values |-> Values, wchar |-> WChar,
          pointer |-> C!Type("pointer", "opaque", 0), float32 |-> C!Type("float", "", 4)]
ParamType(receiver, p, a) ==
    CASE p = "element" -> IF PrefersSlice(receiver, a) THEN ElementSlice(receiver) ELSE Elem(receiver)
      [] p = "value" -> Elem(receiver)
      [] p = "slice" -> ElementSlice(receiver)
      [] OTHER -> Plain[p]

FlagsOf(op, t) == IF op = "embstr" THEN {} ELSE IF op = "dynarray" /\ t.kind = "slice" THEN RangeFlags ELSE {"lazy"}
Converts(t, a, flags) == Kind(a) # "void" /\ C!Conversion(t, a, flags).cost >= 0
Takes(op, receiver, p, a) ==
    IF p = "source" THEN Kind(a) # "void" /\ (C!IsTextSource(a.type) \/ a.form = "char literal")
    ELSE \E t \in {ParamType(receiver, p, a)} : Converts(t, a, FlagsOf(op, t))

(* Methods that a value without an address has none of; the results. *)
Utility(m) == m \in DOMAIN UtilityMethods \cup {"ToWchars"}
Methods == [dynarray |-> DynArrayMethods, embstr |-> EmbStrMethods, string |-> StringMethods,
            anyvalue |-> AnyValueMethods, indexof |-> [IndexOf |-> {<<"value">>}]]

StringResults ==
    [m \in {"Upper", "Lower", "Trim", "LTrim", "RTrim", "LPad", "RPad", "Clone"} |-> Str]
      @@ [m \in {"IndexOf", "LastIndexOf", "ToInt"} |-> Signed] @@ [m \in {"Contains", "StartsWith", "EndsWith"} |-> Bool]
      @@ [ToFloat |-> Float, ToWchars |-> WChars]
Result(op, receiver, m, args) ==
    CASE op = "dynarray" -> IF m = "Clone" THEN receiver.type ELSE IF m \in {"Pop", "PopFirst"} THEN Elem(receiver) ELSE Void
      [] op = "string" -> IF m \in {"Pop", "PopFirst"} THEN IF args = <<>> THEN Char ELSE Str
                          ELSE IF m \in DOMAIN StringResults THEN StringResults[m] ELSE Void
      [] op = "anyvalue" /\ m \in AnyValueIs -> Bool
      [] op = "anyvalue" /\ m \in DOMAIN AnyValueAs ->
           IF AnyValueAs[m] # "source" THEN Plain[AnyValueAs[m]] ELSE IF m = "AsStr" THEN Str ELSE StrSlice
      [] op = "indexof" -> Signed
      [] OTHER -> Void

(* The runtime modules a method needs. *)
MakesString(m) == ~Utility(m) \/ m \in {"Upper", "Lower", "Trim", "LTrim", "RTrim", "LPad", "RPad"}
Needs(op, m) ==
    CASE op = "string" -> {IF MakesString(m) THEN "dynstr" ELSE "strfunc"} \cup (IF m = "AddFmt" THEN {"textformat"} ELSE {})
      [] op = "embstr" -> {op} \cup (IF m = "AddFmt" THEN {"textformat"} ELSE {})
      [] op = "anyvalue" -> {"anyvalue"} \cup (IF m \in {"IsStr", "AsStr", "SetStr"} THEN {"dynstr"} ELSE {})
                            \cup (IF <<"source">> \in AnyValueMethods[m] THEN {"strfunc"} ELSE {})
      [] op = "indexof" -> {"slice"}
      [] OTHER -> {op}

CopiesElements(receiver, m, args) ==
    \/ m \in {"Clone", "AppendSlice", "InsertSlice"}
    \/ m \in {"Append", "Prepend", "Insert"} /\ PrefersSlice(receiver, args[Len(args)])

(* A call is compiled where the method has a parameter list of that length *)
(* and takes every argument.                                               *)
Accepts(op, receiver, m, args) ==
    /\ m \in DOMAIN Methods[op] /\ Needs(op, m) \cap missing = {}
    /\ \E params \in Methods[op][m] :
          Len(params) = Len(args) /\ \A i \in DOMAIN args : Takes(op, receiver, params[i], args[i])
    /\ op = "string" /\ ~Utility(m) => IsLValue(receiver)
    /\ op = "dynarray" /\ Elem(receiver).kind = "autofree" => ~CopiesElements(receiver, m, args)

(***************************************************************************)
(* The parser.                                                             *)
(***************************************************************************)
Token == tokens < MaxTokens /\ tokens' = tokens + 1 /\ UNCHANGED missing
NoEvent == [kind |-> "none"]
Quiet == event' = NoEvent
Error == event' = [kind |-> "error"]

Awaited == [state |-> "awaited", expr |-> NoExpr]
Open(e)  == [state |-> IF Kind(e) = "void" THEN "closed" ELSE "open", expr |-> e]   \* the postfix loop goes on
Closed(e) == [state |-> "closed", expr |-> e]
Postfix == Token /\ operand.state = "open"
It == operand.expr

NoContext == [len |-> -1, lval |-> NoExpr, wchar |-> FALSE]
Positions(receiver) == [len |-> -1, lval |-> receiver, wchar |-> FALSE]
IndexContext(e) == IF Kind(e) = "array" THEN [Positions(NoExpr) EXCEPT !.len = e.type.size] ELSE Positions(e)
WCharContext(e) == [Positions(e) EXCEPT !.wchar = TRUE]

Top == opened[Len(opened)]
Outer == SubSeq(opened, 1, Len(opened) - 1)
SetsContext(op) == op \in {"index", "wchar", "dynarray", "embstr", "string"}
InCall == opened # <<>> /\ Top.op \in DOMAIN Methods \cup {"unknown"}
InBrackets == opened # <<>> /\ Top.op \in {"index", "wchar"}

Enter(op, receiver, m, ctx) ==
    /\ Len(opened) < MaxFrames
    /\ opened' = Append(opened, [op |-> op, receiver |-> receiver, name |-> m, args |-> <<>>, part |-> "first", saved |-> context])
    /\ context' = ctx /\ operand' = Awaited
Leave(after) ==
    /\ opened' = Outer /\ operand' = after
    /\ context' = IF SetsContext(Top.op) THEN Top.saved ELSE context

(* ParseExprPrimary: a name or a literal; $end and $last. *)
Read(x) ==
    /\ Token /\ Quiet /\ operand.state = "awaited"
    /\ operand' = Open(Operands[x]) /\ UNCHANGED <<context, opened>>

Unit(e, wchar) == IF wchar THEN "wchars" ELSE IF IsText(e) THEN "bytes" ELSE "elements"
Refused == [known |-> FALSE]
Meaning(ctx) ==
    IF ctx.len < 0 /\ ctx.lval = NoExpr THEN Refused
    ELSE IF ctx.lval = NoExpr THEN [known |-> TRUE, of |-> ctx.len, unit |-> "literal"]
    ELSE IF ctx.lval.clones THEN [known |-> TRUE, of |-> ctx.lval, unit |-> Unit(ctx.lval, ctx.wchar)]
    ELSE Refused
ReadPosition ==
    /\ Token /\ operand.state = "awaited"
    /\ event' = [kind |-> "position", meaning |-> Meaning(context)]
    /\ operand' = IF Meaning(context).known THEN Open(Value(Signed)) ELSE Closed(NoExpr)
    /\ UNCHANGED <<context, opened>>

(* The expression that was expected is missing. *)
NoOperand ==
    /\ Token /\ Error /\ operand.state = "awaited"
    /\ operand' = Closed(NoExpr) /\ UNCHANGED <<context, opened>>

(* ParsePostfixIndexOrSlice *)
Unavailable(modules) == modules \cap missing # {}
NeedsOf(e) == IF Kind(e) = "dynarray" THEN {"dynarray"} ELSE IF IsText(e) THEN {"strfunc"} ELSE {}
Stop(e) == operand' = Closed(e) /\ Error /\ UNCHANGED <<context, opened>>

OpenIndex ==
    /\ Postfix /\ It.wants = <<>> /\ IsLValue(It) /\ (IsArray(It) \/ IsText(It))
    /\ IF Unavailable(NeedsOf(It)) THEN Stop(NoExpr)
       ELSE IF It.form = "property" THEN Stop(It)
       ELSE Enter("index", It, "", IndexContext(It)) /\ Quiet

HasIndices(e) == e.wants # <<>> \/ (Kind(e) = "object" /\ e.type.of \in DOMAIN PropertyOf)
OpenProperty ==
    LET property == IF It.wants # <<>> THEN It ELSE PropertyOf[It.type.of]
    IN  /\ Postfix /\ HasIndices(It)
        /\ Enter("property", property, "", context) /\ Quiet

NoDefaultProperty ==
    Postfix /\ Kind(It) = "object" /\ ~HasIndices(It) /\ Stop(It)

OpenPointerIndex ==
    /\ Postfix /\ Kind(It) = "pointer"
    /\ IF It.type.of = "opaque" THEN Stop(NoExpr) ELSE Enter("pointer", It, "", context) /\ Quiet

(* A slice where its runtime module is missing: the context stays set. *)
Colon ==
    /\ Token /\ InBrackets /\ Top.part = "first"
    /\ IF Top.op = "index" /\ Kind(Top.receiver) \in {"array", "slice"} /\ Unavailable({"slice"})
       THEN operand' = Closed(NoExpr) /\ opened' = Outer /\ UNCHANGED context /\ Error
       ELSE /\ opened' = [opened EXCEPT ![Len(opened)].part = "end"]
            /\ operand' = Awaited /\ UNCHANGED context /\ Quiet

Selected ==
    LET whole == Top.part = "end"
    IN  CASE Top.op = "pointer" -> Value(Top.receiver.type)
          [] Top.op = "wchar" -> Value(IF whole THEN WChars ELSE WChar)
          [] IsText(Top.receiver) -> IF whole THEN Value(StrSlice) ELSE Expr(Char, "element", FALSE)
          [] OTHER -> IF whole THEN Value(ElementSlice(Top.receiver)) ELSE Expr(Elem(Top.receiver), "variable", FALSE)

(* "]": where it is missing, that is reported and nothing else. *)
CloseBracket(found) ==
    /\ Token /\ (InBrackets \/ (opened # <<>> /\ Top.op = "pointer"))
    /\ operand.state # "awaited" \/ Top.part = "end"
    /\ Leave(Open(Selected)) /\ IF found THEN Quiet ELSE Error

(* ParsePropertyIndices *)
IndexFits == Len(Top.args) < Len(Top.receiver.wants)
             /\ It # NoExpr /\ C!Conversion(Plain[Top.receiver.wants[Len(Top.args) + 1]], It, {"lazy"}).cost >= 0
InProperty == opened # <<>> /\ Top.op = "property" /\ operand.state # "awaited"
NextIndex ==
    /\ Token /\ InProperty
    /\ IF IndexFits THEN /\ opened' = [opened EXCEPT ![Len(opened)].args = Append(@, It)]
                         /\ operand' = Awaited /\ Quiet /\ UNCHANGED context
       ELSE Leave(Closed(Top.receiver)) /\ Error
CloseProperty(found) ==
    /\ Token /\ InProperty
    /\ IF found /\ IndexFits /\ Len(Top.args) + 1 = Len(Top.receiver.wants)
       THEN Leave(Open([Top.receiver EXCEPT !.wants = <<>>])) /\ Quiet
       ELSE Leave(Closed(Top.receiver)) /\ Error

(***************************************************************************)
(* Members: ParsePostfixDotMember.                                         *)
(***************************************************************************)
(* The function that parses a method of the expression; "unknown" where    *)
(* the arguments are only skipped.                                         *)
ParserOf(e, m) ==
    CASE m = "IndexOf" /\ (Kind(e) = "slice" \/ (IsLValue(e) /\ IsArray(e))) -> "indexof"
      [] ~IsLValue(e) /\ IsText(e) -> IF Utility(m) THEN "string" ELSE "unknown"
      [] ~IsLValue(e) -> "none"
      [] Kind(e) = "embstr" -> IF Utility(m) THEN "string" ELSE "embstr"
      [] IsText(e) -> IF Kind(e) = "dynstr" \/ Utility(m) THEN "string" ELSE "unknown"
      [] Kind(e) \in {"dynarray", "anyvalue"} -> Kind(e)
      [] IsArray(e) -> "unknown"
      [] OTHER -> "none"

NeededFirst(op, e) ==
    IF op = "indexof" THEN {"slice"} ELSE IF IsLValue(e) /\ IsText(e) /\ Kind(e) # "embstr" THEN {"strfunc"} ELSE {}
ContextOf(op, e) ==
    IF ~SetsContext(op) THEN context ELSE Positions(IF IsLValue(e) THEN e ELSE NoExpr)

(* ".m(" *)
OpenMethod(m) ==
    LET op == ParserOf(It, m)
    IN  /\ Postfix /\ op # "none"
        /\ IF Unavailable(NeededFirst(op, It)) THEN Stop(NoExpr)
           ELSE Enter(op, It, m, ContextOf(op, It)) /\ IF op = "unknown" THEN Error ELSE Quiet

(* ".m" without a call: a property of the value; the name of a method is   *)
(* reported, and the expression goes on as if it were not there.           *)
Fields(e) ==
    CASE Kind(e) = "dynarray" -> {"length", "capacity", "refcount"}
      [] IsArray(e) -> {"length"}
      [] Kind(e) = "embstr" -> {"length", "maxlength", "storage_size", "pchar", "wclen"}
      [] Kind(e) = "dynstr" -> {"length", "pchar", "wclen", "capacity", "refcount"}
      [] IsText(e) -> {"length", "pchar", "wclen"}
      [] OTHER -> {}
ReadMember(m) ==
    LET field == IsLValue(It) /\ m \in Fields(It)
        op == ParserOf(It, m)
        needs == IF ~field THEN NeededFirst(op, It) ELSE IF Kind(It) = "embstr" /\ m # "wclen" THEN {} ELSE NeedsOf(It)
    IN  /\ Postfix /\ UNCHANGED <<context, opened>> /\ (field \/ op # "none")
        /\ IF field /\ ~Unavailable(needs)
           THEN operand' = Open(Value(IF m = "pchar" THEN CharPointer ELSE Signed)) /\ Quiet
           ELSE /\ Error
                /\ operand' = IF Unavailable(needs) \/ op = "indexof" THEN Closed(NoExpr)
                              ELSE IF op = "unknown" THEN Closed(It) ELSE Open(It)

(* A character has a number. *)
ReadOrd(m) ==
    /\ Postfix /\ Kind(It) \in {"char", "wchar"}
    /\ IF m = "ord" THEN operand' = Open(Value(Signed)) /\ Quiet /\ UNCHANGED <<context, opened>> ELSE Stop(It)

(* ".wchar[" *)
OpenWChar(found) ==
    /\ Postfix /\ IsLValue(It) /\ IsText(It)
    /\ IF Unavailable({"strfunc"}) THEN Stop(NoExpr)
       ELSE IF found THEN Enter("wchar", It, "", WCharContext(It)) /\ Quiet ELSE Stop(It)

(***************************************************************************)
(* Calls: ParseRawCallArguments, and what the method makes of them.        *)
(***************************************************************************)
CallFails == Leave(Closed(IF Top.op = "unknown" THEN Value(Void) ELSE NoExpr)) /\ Error
NextArgument(found) ==
    /\ Token /\ InCall /\ operand.state # "awaited"
    /\ IF found /\ It # NoExpr
       THEN /\ opened' = [opened EXCEPT ![Len(opened)].args = Append(@, It)]
            /\ operand' = Awaited /\ UNCHANGED context /\ Quiet
       ELSE CallFails

Arguments == IF operand.state = "awaited" THEN Top.args ELSE Append(Top.args, It)
CloseCall ==
    LET result == Result(Top.op, Top.receiver, Top.name, Arguments)
    IN  /\ Token /\ InCall /\ Top.op # "unknown"
        /\ It # NoExpr \/ (operand.state = "awaited" /\ Top.args = <<>>)
        /\ \E accepted \in {Accepts(Top.op, Top.receiver, Top.name, Arguments)} :
             /\ Leave(IF accepted THEN Open(Value(result)) ELSE Closed(NoExpr))
             /\ event' = [kind |-> "call", receiver |-> Top.receiver, name |-> Top.name, args |-> Arguments,
                          accepted |-> accepted, result |-> IF accepted THEN result ELSE Void]
SkippedCall == Token /\ InCall /\ Top.op = "unknown" /\ (operand.state # "awaited" \/ Top.args = <<>>) /\ CallFails

(* The next expression of the function. *)
EndExpression ==
    /\ Token /\ Quiet /\ opened = <<>> /\ operand.state # "awaited"
    /\ operand' = Awaited /\ UNCHANGED <<context, opened>>

Members == {"length", "maxlength", "refcount", "size"}
MethodNames == DOMAIN DynArrayMethods \cup DOMAIN EmbStrMethods \cup DOMAIN StringMethods \cup DOMAIN AnyValueMethods \cup {"Grow"}
ContextInit ==
    /\ context = NoContext /\ opened = <<>> /\ operand = Awaited /\ missing \in Missing /\ event = NoEvent /\ tokens = 0
ContextNext ==
    \/ \E x \in DOMAIN Operands : Read(x)
    \/ ReadPosition \/ NoOperand \/ OpenIndex \/ OpenProperty \/ NoDefaultProperty \/ OpenPointerIndex
    \/ Colon \/ NextIndex \/ CloseCall \/ SkippedCall \/ EndExpression
    \/ \E found \in BOOLEAN : CloseBracket(found) \/ CloseProperty(found) \/ NextArgument(found) \/ OpenWChar(found)
    \/ \E m \in MethodNames : OpenMethod(m)
    \/ \E m \in Members \cup {"Append"} : ReadMember(m)
    \/ \E m \in {"ord", "length"} : ReadOrd(m)

-----------------------------------------------------------------------------
ContextTypeOK ==
    /\ context.len \in Int /\ context.wchar \in BOOLEAN /\ missing \in Missing
    /\ operand.state \in {"awaited", "open", "closed"} /\ Len(opened) <= MaxFrames /\ tokens \in 0..MaxTokens

(* The innermost bracket or method call that has positions, as the         *)
(* reference describes them: of the array or text that is indexed, sliced  *)
(* or changed, characters inside of wchar[].                               *)
Innermost == LET those == {i \in DOMAIN opened : SetsContext(opened[i].op)}
             IN  opened[CHOOSE i \in those : \A j \in those : j <= i]
DocumentedPosition ==
    IF \A i \in DOMAIN opened : ~SetsContext(opened[i].op) THEN Refused
    ELSE LET r == Innermost.receiver
         IN  IF ~IsLValue(r) THEN Refused
             ELSE IF Kind(r) = "array" THEN [known |-> TRUE, of |-> r.type.size, unit |-> "literal"]
             ELSE [known |-> TRUE, of |-> r, unit |-> Unit(r, Innermost.op = "wchar")]

(* $end and $last stand for the length of the innermost array or text that *)
(* can be repeated, whatever was opened and closed, with or without an     *)
(* error, before; outside of them they are errors (ParseExprPrimary).      *)
Repeatable(p) == p.known => p.unit = "literal" \/ p.of.clones
EndIsInnermost ==
    missing = {} /\ event.kind = "position" =>
      event.meaning = IF Repeatable(DocumentedPosition) THEN DocumentedPosition ELSE Refused

(* Outside of every bracket nothing is left of the array that was indexed  *)
(* last: its expression may be gone (array_index_context_lval).            *)
NothingLeft == opened = <<>> => context = NoContext
ContextKept == missing = {} => NothingLeft

(* Every array and text has an end (docs/020-language/                     *)
(* 080-arrays-and-slices.md:161): not what cannot be repeated.             *)
EveryArrayHasAnEnd == missing = {} /\ event.kind = "position" => event.meaning = DocumentedPosition

(* A call of a method is accepted where the reference lists the method for *)
(* the type of its receiver, with that result; temporaries cannot be       *)
(* changed, nor autofree elements copied (075-string-functions.md,         *)
(* 080-arrays-and-slices.md).                                              *)
DocumentedType(r, p) == CASE p \in {"element", "value"} -> Elem(r) [] p = "slice" -> ElementSlice(r) [] OTHER -> Plain[p]
FitsDocumented(r, p, a) ==
    /\ p = "slice" => Elem(r).kind # "autofree"
    /\ Converts(DocumentedType(r, p), a, IF p \in {"element", "slice"} THEN RangeFlags ELSE {"lazy"})
ListedFor(e) ==
    {d \in Documented :
       /\ Kind(e.receiver) \in d.kinds /\ e.name = d.name /\ Len(e.args) = Len(d.params)
       /\ \A i \in DOMAIN e.args : FitsDocumented(e.receiver, d.params[i], e.args[i])
       /\ IsLValue(e.receiver) \/ Utility(e.name) \/ Kind(e.receiver) = "slice"
       /\ ~(e.name = "Clone" /\ IsArray(e.receiver) /\ Elem(e.receiver).kind = "autofree")}
Results == [nothing |-> Void, int |-> Signed, str |-> Str, char |-> Char, float |-> Float, bool |-> Bool, wchars |-> WChars]
ResultOf(d, r) == CASE d.result = "element" -> Elem(r) [] d.result = "array" -> r.type [] OTHER -> Results[d.result]
MethodsAsDocumented ==
    event.kind = "call" /\ missing = {} /\ Kind(event.receiver) # "anyvalue" =>
      \E listed \in {ListedFor(event)} :
        /\ event.accepted <=> listed # {}
        /\ event.accepted => \E d \in listed : event.result = ResultOf(d, event.receiver)
=============================================================================
