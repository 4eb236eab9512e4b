--------------------------- MODULE OverloadCalls ---------------------------
(***************************************************************************)
(* Calls: what converts implicitly to what (the AnalyzeConversion of every *)
(* type in compiler/types), choosing among the functions of an overload    *)
(* set, and binding the arguments to the parameters of the chosen one      *)
(* (otype_func.cpp, dqc_parser_expr.cpp, dqc_ast.cpp).                     *)
(*                                                                         *)
(* An argument is its type and its form: what kind of expression it is, as *)
(* far as conversions and references tell apart.                           *)
(***************************************************************************)
EXTENDS Integers, Sequences, SequencesExt, FiniteSets

CONSTANTS TypeOf,     \* the types that elements and pointers refer to by name
          Extends,    \* pairs <<derived, base>> of object types
          Functions,  \* that a module may declare under the same name
          Calls,      \* sequences of arguments
          MaxOverloads

VARIABLES funcs,    \* the overload set, in the order of declaration
          args,     \* of the call being compiled
          outcome   \* of compiling it

callVars == <<funcs, args, outcome>>

Type(kind, of, size) == [kind |-> kind, of |-> of, size |-> size]
CharPointer == Type("pointer", "char", 0)
NullPointer == Type("pointer", "null", 0)
ArrayKinds == {"array", "slice", "dynarray"}

IsString(t) == t.kind \in {"embstr", "strslice", "rostr", "dynstr"}
IsTextSource(t) == IsString(t) \/ t.kind = "char" \/ t = CharPointer
IsLValue(a) == a.form \in {"variable", "constant", "readonly", "element", "property", "fixed"}
SameOrDerived(t, base) == t = base \/ <<t, base>> \in Extends

(* CanAssignPointerImplicitly. *)
PointerFits(dst, src) ==
    \/ src.of = "null" \/ dst.of = "opaque"
    \/ src.of # "opaque" /\ dst.of # "null" /\ SameOrDerived(src.of, dst.of)

(***************************************************************************)
(* Conversions: a cost, -1 where there is none, and the expression after.  *)
(***************************************************************************)
Kept(a, cost) == [cost |-> cost, expr |-> a]
As(dst, a, cost) == [cost |-> cost, expr |-> [a EXCEPT !.type = dst, !.form = "value"]]
None(a) == Kept(a, -1)
If(possible, conversion, a) == IF possible THEN conversion ELSE None(a)

(* CanStoreFrom: a buffer takes text when the assignment is generated. *)
StoresFrom(dst, a) == dst.size > 0 /\ (IsString(a.type) \/ a.type = CharPointer)

EmbStrConversion(dst, a, flags) ==
    CASE "lazy" \in flags /\ StoresFrom(dst, a) -> Kept(a, IF a.type.kind \in {"embstr", "pointer"} THEN 0 ELSE 1)
      [] a.type.kind = "pointer" -> If(dst.size = 0 /\ "lazy" \in flags /\ a.type = CharPointer, As(dst, a, 1), a)
      [] a.type.kind = "embstr" -> If(dst.size = 0 /\ IsLValue(a), As(dst, a, 1), a)
      [] OTHER -> None(a)

ObjectConversion(dst, a) ==
    If(a.type.kind \in {"object", "pointer"} /\ (a.type = NullPointer \/ SameOrDerived(a.type.of, dst.of)),
       IF a.type.of \in {"null", dst.of} THEN Kept(a, 0) ELSE As(dst, a, 0), a)

PointerConversion(dst, a) ==
    IF a.type.kind = "pointer" THEN If(PointerFits(dst, a.type), Kept(a, 0), a)
    ELSE If(dst = CharPointer /\ a.type.kind \in {"rostr", "embstr"}, As(dst, a, 1), a)

TextConversion(dst, a) ==
    LET borrows == a.type.kind \in {"dynstr", "embstr"} \/ a.type = CharPointer \/ a.form = "char literal"
    IN  If(IF dst.kind = "rostr" THEN borrows ELSE IsTextSource(a.type) \/ a.form = "char literal", As(dst, a, 1), a)

IntConversion(dst, a) == If(a.type.kind = "int", As(dst, a, 1), a)
FloatConversion(dst, a) == If(a.type.kind \in {"int", "float"}, As(dst, a, 1), a)
CharConversion(dst, a) == If(a.form = "char literal", As(dst, a, 1), a)
AnyValueConversion(dst, a) == If(a.type.kind \notin ArrayKinds \cup {"object"}, As(dst, a, 1), a)

ValueConversion(dst, a, flags) ==
    CASE dst.kind = "int" -> IntConversion(dst, a)
      [] dst.kind = "float" -> FloatConversion(dst, a)
      [] dst.kind = "char" -> CharConversion(dst, a)
      [] dst.kind = "pointer" -> PointerConversion(dst, a)
      [] dst.kind = "object" -> ObjectConversion(dst, a)
      [] dst.kind = "embstr" -> EmbStrConversion(dst, a, flags)
      [] IsString(dst) -> TextConversion(dst, a)
      [] dst.kind = "anyvalue" -> AnyValueConversion(dst, a)
      [] OTHER -> None(a)   \* boolean, enumeration, structure

Highest(costs) == IF costs = {} THEN 0 ELSE CHOOSE c \in costs : \A d \in costs : d <= c

(* AnalyzeArrayLiteralElements, of elements that are no literals themselves. *)
ElementConversion(elem, e, flags) ==
    IF e.type = elem THEN Kept(e, 0) ELSE ValueConversion(elem, e, flags \cup {"lazy"})

LiteralOf(dst, a, each, costs) ==
    If(-1 \notin costs, As(dst, [a EXCEPT !.elements = [i \in DOMAIN each |-> each[i].expr]], Highest(costs)), a)
WithElements(dst, a, each) == LiteralOf(dst, a, each, {each[i].cost : i \in DOMAIN each})

LiteralConversion(dst, a, length, flags) ==
    IF Len(a.elements) # length THEN None(a)
    ELSE WithElements(dst, a, [i \in DOMAIN a.elements |-> ElementConversion(TypeOf[dst.of], a.elements[i], flags)])

FixedArrayConversion(dst, a, flags) ==
    If(a.form = "array literal", LiteralConversion(dst, a, dst.size, flags), a)   \* else the length differs, or the elements

SliceConversion(dst, a, flags) ==
    IF a.form = "array literal"
    THEN If("slice" \in flags \/ dst.of = "anyvalue", LiteralConversion(dst, a, Len(a.elements), flags), a)
    ELSE If(dst.of = a.type.of /\ IsLValue(a) /\ a.type.kind \in {"array", "dynarray"}, As(dst, a, 1), a)

(* An array without elements is taken whatever its elements would be; one *)
(* that has no address is counted as converted, and left as it is.        *)
DynArrayConversion(dst, a, flags) ==
    LET empty == a.type.kind = "array" /\ a.type.size = 0
    IN  IF a.form = "array literal" THEN LiteralConversion(dst, a, Len(a.elements), flags)
        ELSE If(a.type.kind # "dynarray" /\ (empty \/ dst.of = a.type.of),
                IF a.type.kind = "slice" \/ IsLValue(a) THEN As(dst, a, 1) ELSE Kept(a, 1), a)

ArrayConversion(dst, a, flags) ==
    CASE dst.kind = "array" -> FixedArrayConversion(dst, a, flags)
      [] dst.kind = "slice" -> SliceConversion(dst, a, flags)
      [] OTHER -> DynArrayConversion(dst, a, flags)

(* AnalyzeExprConversion: equal types are looked at first, so the elements *)
(* of a literal whose first one has the right type are not.                *)
Conversion(dst, a, flags) ==
    IF dst = a.type THEN Kept(a, 0)
    ELSE IF dst.kind \in ArrayKinds
         THEN IF a.type.kind \in ArrayKinds THEN ArrayConversion(dst, a, flags) ELSE None(a)
         ELSE ValueConversion(dst, a, flags)

CallFlags == {"lazy", "slice"}

(***************************************************************************)
(* References.                                                             *)
(***************************************************************************)
(* SameRefBindingType. *)
RefFits(dst, src) ==
    CASE dst.kind = "pointer" /\ dst.of = "opaque" -> src.kind = "pointer"
      [] dst.kind = "object" /\ src.kind = "object" -> SameOrDerived(src.of, dst.of)
      [] OTHER -> dst = src

Binds(mode, a) ==
    IsLValue(a) /\ (mode = "refin" \/ a.form # "element") /\ a.form \notin {"constant", "readonly"}

(***************************************************************************)
(* Choosing an overload.                                                   *)
(***************************************************************************)
RequiredParamCount(f) == Cardinality({i \in DOMAIN f.params : \A j \in 1 .. i : ~f.params[j].default})
Given(f, as) == {i \in DOMAIN as : i <= Len(f.params)}

Accepts(p, a) ==
    CASE p.mode = "value" -> Conversion(p.type, a, CallFlags).cost >= 0
      [] a.type = NullPointer -> p.mode = "refnil"
      [] OTHER -> Binds(p.mode, a) /\ RefFits(p.type, a.type)

(* AnalyzeCallCandidate: an uninitialised variable fits no overload. *)
Viable(f, as) ==
    /\ Len(as) >= RequiredParamCount(f)
    /\ f.varargs \/ Len(as) <= Len(f.params)
    /\ \A i \in DOMAIN as : as[i].init
    /\ \A i \in Given(f, as) : Accepts(f.params[i], as[i])
    /\ \A i \in DOMAIN f.params : i > Len(as) => f.params[i].default

Score(f, as) ==
    LET cost(i) == IF f.params[i].mode = "value" THEN Conversion(f.params[i].type, as[i], CallFlags).cost ELSE 0
    IN  << FoldLeft(LAMBDA sum, i : sum + cost(i), 0, SetToSeq(Given(f, as))),
           Len(f.params) - Cardinality(Given(f, as)),
           IF Len(as) > Len(f.params) THEN 1 ELSE 0 >>

(* Mutant: the defaults are compared before the conversions. *)
BetterByDefaults(s, t) ==
    s[2] < t[2] \/ (s[2] = t[2] /\ (s[1] < t[1] \/ (s[1] = t[1] /\ s[3] < t[3])))

(* CompareCallCandidateScore < 0. *)
Better(s, t) ==
    s[1] < t[1] \/ (s[1] = t[1] /\ (s[2] < t[2] \/ (s[2] = t[2] /\ s[3] < t[3])))

NoCandidate == [func |-> 0, score |-> <<>>, ambiguous |-> FALSE]

Candidate(best, i, score) ==
    CASE best.func = 0 \/ Better(score, best.score) -> [func |-> i, score |-> score, ambiguous |-> FALSE]
      [] best.func # 0 /\ Better(best.score, score) -> best
      [] OTHER -> [best EXCEPT !.ambiguous = TRUE]

Chosen(as) ==
    FoldLeft(LAMBDA best, i : IF Viable(funcs[i], as) THEN Candidate(best, i, Score(funcs[i], as)) ELSE best,
             NoCandidate, [i \in DOMAIN funcs |-> i])

(***************************************************************************)
(* Binding.                                                                *)
(***************************************************************************)
Bound(p, a) ==
    CASE p.mode = "value" -> Conversion(p.type, a, CallFlags).expr
      [] OTHER -> [a EXCEPT !.form = "address"]

(* BindCallArguments takes the argument, in the order of its checks. *)
Takes(p, a) ==
    CASE p.mode = "value" -> a.init /\ Conversion(p.type, a, CallFlags).cost >= 0
      [] a.type = NullPointer -> p.mode = "refnil"
      [] OTHER -> /\ a.form # "property"
                  /\ Binds(p.mode, a)
                  /\ RefFits(p.type, a.type)
                  /\ a.init \/ p.mode = "refout"
                  /\ (p.type.kind = "object" /\ p.mode # "refin") => a.form # "fixed"

BindOK(f, as) ==
    /\ f.varargs \/ Len(as) <= Len(f.params)
    /\ Len(as) >= RequiredParamCount(f)
    /\ \A i \in DOMAIN as : IF i <= Len(f.params) THEN Takes(f.params[i], as[i]) ELSE as[i].init
    /\ \A i \in DOMAIN f.params : i > Len(as) => f.params[i].default

(* A text slice without terminator goes to C as a pointer. *)
Variadic(a) == IF a.type.kind = "rostr" THEN As(CharPointer, a, 0).expr ELSE a

BoundArgs(f, as) == [i \in DOMAIN as |-> IF i <= Len(f.params) THEN Bound(f.params[i], as[i]) ELSE Variadic(as[i])]

(***************************************************************************)
NotCompiled == [result |-> "none", func |-> 0, bound |-> <<>>]

CallInit == funcs = <<>> /\ args = <<>> /\ outcome = NotCompiled

(* MatchesOverloadDeclIdentity: the modes do not count. *)
SameIdentity(f, g) ==
    /\ Len(f.params) = Len(g.params) /\ f.varargs = g.varargs
    /\ \A i \in DOMAIN f.params : f.params[i].type = g.params[i].type

(* FinishFunctionDecl of a function marked overload, with the set's result type. *)
Declare(f) ==
  /\ outcome = NotCompiled
  /\ Len(funcs) < MaxOverloads
  /\ \A i \in DOMAIN funcs : ~SameIdentity(funcs[i], f)
  /\ funcs' = Append(funcs, f)
  /\ UNCHANGED <<args, outcome>>

Compiled(best, as) ==
  CASE best.func = 0 -> [NotCompiled EXCEPT !.result = "no match"]
    [] best.func # 0 /\ best.ambiguous -> [NotCompiled EXCEPT !.result = "ambiguous"]
    [] OTHER -> IF BindOK(funcs[best.func], as)
                THEN [result |-> "called", func |-> best.func, bound |-> BoundArgs(funcs[best.func], as)]
                ELSE [NotCompiled EXCEPT !.result = "not bound"]

CompileCall(as) ==
  /\ outcome = NotCompiled
  /\ funcs # <<>>
  /\ args' = as
  /\ outcome' = Compiled(Chosen(as), as)
  /\ UNCHANGED funcs

CallNext == (\E f \in Functions : Declare(f)) \/ (\E as \in Calls : CompileCall(as))

(***************************************************************************)
(* Properties                                                              *)
(***************************************************************************)
CallTypesOK ==
  /\ funcs \in Seq(Functions) /\ Len(funcs) <= MaxOverloads
  /\ outcome.result \in {"none", "no match", "ambiguous", "not bound", "called"}
  /\ outcome.func \in 0 .. Len(funcs)

ViableFuncs == {i \in DOMAIN funcs : Viable(funcs[i], args)}
Weight(i) == LET s == Score(funcs[i], args) IN 100 * s[1] + 10 * s[2] + s[3]
Best == {i \in ViableFuncs : \A j \in ViableFuncs : Weight(i) <= Weight(j)}

(* The cheapest overload is called whatever the order of the declarations; two *)
(* equally good ones are an error, and so is none.                         *)
BestIsCalled ==
    outcome # NotCompiled =>
        CASE Best = {} -> outcome.result = "no match"
          [] Cardinality(Best) > 1 -> outcome.result = "ambiguous"
          [] OTHER -> outcome.result \in {"called", "not bound"} /\ (outcome.result = "called" => Best = {outcome.func})

(* Choosing and binding agree: an overload that was chosen takes the       *)
(* arguments, except for properties and objects in fixed storage, which    *)
(* only binding looks at; and a call that a function would take is not     *)
(* refused because it is an overload, if its arguments are initialised.    *)
OverloadsAreFunctions ==
    /\ outcome.result = "not bound" => \E i \in DOMAIN args : args[i].form \in {"property", "fixed"}
    /\ (outcome.result = "no match" /\ (\A i \in DOMAIN args : args[i].init)) =>
          \A i \in DOMAIN funcs : ~BindOK(funcs[i], args)

(* VIOLATED: the same for every call, refout parameters included.          *)
OverloadingRefusesNothing ==
    outcome.result = "no match" => \A i \in DOMAIN funcs : ~BindOK(funcs[i], args)

(* A call with the exact types of an overload reaches it, where no type    *)
(* converts to another one for nothing (objects, pointers and buffers do). *)
Free(t) == t.kind \in {"object", "pointer", "embstr"}
Exact(f, as) ==
    Len(as) = Len(f.params) /\ \A i \in DOMAIN as : as[i].type = f.params[i].type /\ ~Free(as[i].type)

ExactCallsReachTheirOverload ==
    outcome # NotCompiled =>
        \A i \in ViableFuncs : (Exact(funcs[i], args) /\ (\A j \in DOMAIN args : funcs[i].params[j].mode = "value")) =>
            outcome.result # "no match" /\ (outcome.result = "called" => Score(funcs[outcome.func], args)[1] = 0)

(* What the generated call passes has the parameter's representation.      *)
Represents(t, dst) ==
    \/ t = dst
    \/ {t.kind, dst.kind} \subseteq {"pointer", "object"}
    \/ dst.kind = "embstr" /\ (IsString(t) \/ t = CharPointer)

Fits(a, dst) ==
    /\ Represents(a.type, dst)
    /\ (a.form = "array literal" \/ a.elements # <<>>) =>
         \A i \in DOMAIN a.elements : Represents(a.elements[i].type, TypeOf[dst.of])

Passed == {i \in DOMAIN outcome.bound : i <= Len(funcs[outcome.func].params) /\ funcs[outcome.func].params[i].mode = "value"}

(* Known holes: a literal whose first element already has the type, and a  *)
(* fixed array without storage passed for a dynamic one.                   *)
Unchecked(a) == a.form = "array literal" \/ (a.type.kind = "array" /\ ~IsLValue(a))

ArgumentsFit ==
    outcome.result = "called" =>
        \A i \in Passed : Fits(outcome.bound[i], funcs[outcome.func].params[i].type) \/ Unchecked(outcome.bound[i])

(* VIOLATED: every element of an array literal is converted.               *)
ElementsAreConverted ==
    outcome.result = "called" =>
        \A i \in Passed : args[i].form = "array literal" =>
            Fits(outcome.bound[i], funcs[outcome.func].params[i].type)
=============================================================================
