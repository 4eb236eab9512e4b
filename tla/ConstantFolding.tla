-------------------------- MODULE ConstantFolding --------------------------
(***************************************************************************)
(* Integer and boolean expressions of the compiler: the types and implicit *)
(* conversions of a tree (ast/dqc_ast.cpp, parser/dqc_parser_expr.cpp),    *)
(* folding its constant parts on the compiler's int64_t (otype_int.cpp,    *)
(* otype_bool.cpp) and the LLVM instructions it generates (expressions.cpp)*)
(*                                                                         *)
(* A tree is built, folded, and then stands for both: Run gives what the   *)
(* generated code computes, so folding is right when Run does not notice.  *)
(* Floating point, text and pointers are left out.                         *)
(***************************************************************************)
EXTENDS Integers, Sequences, Bitwise

CONSTANTS HostBits,   \* the width of int64_t, which holds every constant
          Targets,    \* widths of type_int: those of the targets' pointers
          Sources,    \* the expressions that occur in the program, as written
          Inputs      \* what the variables of the program may hold, as bits

VARIABLES target,  \* the width of type_int
          source,  \* the expression as written
          tree,    \* its typed tree
          stage    \* "text", "typed" or "folded"

foldVars == <<target, source, tree, stage>>

IntOf(bits, signed) == [kind |-> "int", bits |-> bits, signed |-> signed]
Bool == [kind |-> "bool", bits |-> 1, signed |-> FALSE]
NoType == [kind |-> "error", bits |-> 0, signed |-> FALSE]

Node(op, type, args, value) == [op |-> op, type |-> type, args |-> args, value |-> value]
Lit(type, value) == Node("lit", type, <<>>, value)
Conv(type, e) == Node("conv", type, <<e>>, 0)
Failed == Node("error", NoType, <<>>, 0)
Bits(t, v) == v % 2 ^ t.bits

(* A bit pattern as a number of its type. *)
Num(t, b) == IF t.signed /\ b >= 2 ^ (t.bits - 1) THEN b - 2 ^ t.bits ELSE b

(***************************************************************************)
(* The typed tree.                                                         *)
(***************************************************************************)
To(type, e) == IF e.type = type THEN e ELSE Conv(type, e)

(* HarmonizeNumericOperands: the wider width, signed when either is. *)
Harmonized(l, r, forced) ==
    LET bits == IF l.type.bits > r.type.bits THEN l.type.bits ELSE r.type.bits
        type == IntOf(bits, forced \/ l.type.signed \/ r.type.signed)
    IN  IF l.type.kind = "int" /\ r.type.kind = "int" THEN <<To(type, l), To(type, r)>> ELSE <<l, r>>

Shifts == {"<<", ">>"}
Bitwises == {"&", "|", "xor"} \cup Shifts
BinOps == {"+", "-", "*", "div", "rem", "mod"} \cup Bitwises
Orders == {"<", "<=", ">", ">="}
Compares == {"==", "<>"} \cup Orders

(* Two booleans pass: HarmonizeNumericOperands fails, which is ignored. *)
CreateBin(op, l, r) ==
    LET pair == IF op \in Shifts THEN <<l, To(l.type, r)>> ELSE Harmonized(l, r, op = "-")
    IN  IF \/ l.type.kind # r.type.kind
           \/ op \in Bitwises /\ l.type.kind # "int"
        THEN Failed ELSE Node(op, pair[1].type, pair, 0)

CreateCompare(op, l, r) ==
    IF \/ l.type.kind # r.type.kind
       \/ l.type = Bool /\ op \in Orders
    THEN Failed
    ELSE Node(op, Bool, Harmonized(l, r, FALSE), 0)

CreateLogical(op, l, r) ==
    IF l.type # Bool \/ r.type # Bool THEN Failed ELSE Node(op, Bool, <<l, r>>, 0)

CreateNeg(e) == Node("neg", IF e.type.kind = "int" THEN IntOf(e.type.bits, TRUE) ELSE e.type, <<e>>, 0)

CreateNot(e) == IF e.type # Bool THEN Failed ELSE Node("not", Bool, <<e>>, 0)

(* An explicit cast; a boolean is no target of one. *)
Cast(type, e) == IF type = Bool /\ e.type # Bool THEN Failed ELSE To(type, e)

(* The two results of an iif in their common type, or none. *)
ResolveIifType(a, b) ==
    IF a.type = b.type THEN <<a, b>>
    ELSE IF a.type.kind = b.type.kind THEN Harmonized(a, b, FALSE) ELSE <<Failed, Failed>>

CreateIif(c, a, b) ==
    LET pair == ResolveIifType(a, b)
    IN  IF c.type # Bool \/ pair[1] = Failed THEN Failed
        ELSE Node("iif", pair[1].type, <<c, pair[1], pair[2]>>, 0)

(* The complement keeps the type of an integer. *)
CreateBitNot(e) == Node("bitnot", IF e.type.kind = "int" THEN e.type ELSE IntOf(target, TRUE), <<e>>, 0)

(* a < b < c: the first comparison keeps the value of b for the second. *)
CreateRange(op, a, b, c) ==
    LET middle == Node("cached", b.type, <<b>>, 0)
        first == CreateCompare(op, a, middle)
        second == CreateCompare(op, middle, c)
    IN  IF Failed \in {first, second} THEN Failed ELSE CreateLogical("and", first, second)

(* The typed tree of an expression, or Failed: the program is rejected.    *)
RECURSIVE Typed(_)
Typed(s) ==
    LET a == [i \in DOMAIN s.args |-> Typed(s.args[i])]
    IN  IF \E i \in DOMAIN a : a[i] = Failed THEN Failed
        ELSE CASE s.op \in {"lit", "const", "var"} -> s
               [] s.op = "cast" -> Cast(s.type, a[1])
               [] s.op \in BinOps -> CreateBin(s.op, a[1], a[2])
               [] s.op \in Compares -> CreateCompare(s.op, a[1], a[2])
               [] s.op \in {"and", "or"} -> CreateLogical(s.op, a[1], a[2])
               [] s.op = "not" -> CreateNot(a[1])
               [] s.op = "neg" -> CreateNeg(a[1])
               [] s.op = "bitnot" -> CreateBitNot(a[1])
               [] s.op = "iif" -> CreateIif(a[1], a[2], a[3])
               [] s.op = "range" -> CreateRange("<", a[1], a[2], a[3])

(***************************************************************************)
(* Folding: CalculateConstant of the type's value, children first.         *)
(***************************************************************************)
Host(v) == Num(IntOf(HostBits, TRUE), v % 2 ^ HostBits)

(* No int64_t: a part is not constant, or the compiler itself divides by   *)
(* zero or shifts too far.                                                 *)
NotConstant == 2 ^ HostBits
HostFault == 2 ^ HostBits + 1
IsValue(v) == v < NotConstant

(* Mutant: the sign bit of a narrow type is not spread. *)
NormalizeUnextended(t, v) == IF t.bits >= HostBits THEN Host(v) ELSE Bits(t, v)

NormalizeConstant(t, v) == IF t.bits >= HostBits THEN Host(v) ELSE Num(t, Bits(t, v))

Abs(a) == IF a < 0 THEN -a ELSE a
Quotient(a, b) == LET q == Abs(a) \div Abs(b) IN IF (a < 0) = (b < 0) THEN q ELSE -q
Remainder(a, b) == a - b * Quotient(a, b)

Modulo(a, b) == LET r == Remainder(a, b) IN IF r < 0 THEN r + Abs(b) ELSE r

(* What an unsigned operation takes an int64_t for: uint64_t. *)
Unsigned(v) == v % 2 ^ HostBits

(* Both operands have been converted to the type t of the value. *)
HostBinary(op, t, a, b) ==
    LET x == IF t.signed THEN a ELSE Unsigned(a)
        y == IF t.signed THEN b ELSE Unsigned(b)
    IN  CASE op = "+" -> Host(a + b)
          [] op = "-" -> Host(a - b)
          [] op = "*" -> Host(a * b)
          [] op \in {"div", "rem", "mod"} /\ b = 0 -> HostFault
          [] op \in {"div", "rem", "mod"} /\ t.signed /\ a = -(2 ^ (HostBits - 1)) /\ b = -1 -> HostFault
          [] op = "div" -> Host(Quotient(x, y))
          [] op = "rem" -> Host(Remainder(x, y))
          [] op = "mod" -> Host(Modulo(x, y))
          [] op = "&" -> Host(Unsigned(a) & Unsigned(b))
          [] op = "|" -> Host(Unsigned(a) | Unsigned(b))
          [] op = "xor" -> Host(Unsigned(a) ^^ Unsigned(b))
          [] op \in Shifts /\ b \notin 0 .. HostBits - 1 -> HostFault
          [] op = "<<" -> Host(a * 2 ^ b)
          [] op = ">>" -> a \div 2 ^ b

Ordered(op, a, b) ==
    CASE op = "==" -> a = b [] op = "<>" -> a # b
      [] op = "<" -> a < b [] op = "<=" -> a <= b [] op = ">" -> a > b [] op = ">=" -> a >= b

Truth(b) == IF b THEN 1 ELSE 0

(* The first of them that is not a value decides: the rest is not computed. *)
Both(a, b, f(_, _)) == IF ~IsValue(a) THEN a ELSE IF ~IsValue(b) THEN b ELSE f(a, b)

RECURSIVE CalculateConstant(_, _)

Then(v, f(_)) == IF IsValue(v) THEN f(v) ELSE v

(* OValueInt: every part is taken as an integer of the value's own type t, *)
(* but the source of a conversion.                                         *)
CalculateInt(t, e) ==
    LET Arg(i) == CalculateConstant(IF e.op = "conv" THEN e.args[1].type ELSE t, e.args[i])
        v == CASE e.op \in {"lit", "const"} /\ e.type.kind = "int" -> e.value
               [] e.op = "conv" -> Arg(1)
               [] e.op = "neg" -> Then(Arg(1), LAMBDA x : Host(-x))
               [] e.op = "bitnot" -> Then(Arg(1), LAMBDA x : -x - 1)
               [] e.op \in BinOps -> Both(Arg(1), Arg(2), LAMBDA x, y : HostBinary(e.op, t, x, y))
               [] OTHER -> NotConstant
    IN  Then(v, LAMBDA x : NormalizeConstant(t, x))

(* OValueBool: integers are compared as type_int, whatever their own type. *)
CalculateBool(e) ==
    LET Arg(i) == CalculateConstant(Bool, e.args[i])
        operand == IF e.args[1].type.kind = "int" THEN IntOf(target, TRUE) ELSE Bool
    IN  CASE e.op \in {"lit", "const"} -> e.value
          [] e.op = "not" -> Then(Arg(1), LAMBDA x : 1 - x)
          [] e.op = "and" -> Both(Arg(1), Arg(2), LAMBDA x, y : Truth(x = 1 /\ y = 1))
          [] e.op = "or" -> Both(Arg(1), Arg(2), LAMBDA x, y : Truth(x = 1 \/ y = 1))
          [] e.op \in Compares ->
               Both(CalculateConstant(operand, e.args[1]), CalculateConstant(operand, e.args[2]),
                    LAMBDA x, y : Truth(Ordered(e.op, x, y)))
          [] OTHER -> NotConstant

CalculateConstant(t, e) == IF t.kind = "int" THEN CalculateInt(t, e) ELSE CalculateBool(e)

(* Only operators replace themselves: a variable, a named constant and the *)
(* cached value of a range stay, though their parents may read a constant. *)
TryFoldSelf(e) ==
    LET v == CalculateConstant(e.type, e)
    IN  CASE e.op \in {"lit", "const", "var", "cached", "error"} -> e
          [] OTHER -> IF v = HostFault THEN Failed ELSE IF v = NotConstant THEN e ELSE Lit(e.type, v)

Selected(cond) == IF cond.value = 1 THEN 2 ELSE 3

(* ParseBuiltinIif folds each part before a constant condition selects one. *)
RECURSIVE FoldTree(_)
FoldTree(e) ==
    LET a == [i \in DOMAIN e.args |-> FoldTree(e.args[i])]
    IN  IF \E i \in DOMAIN a : a[i] = Failed THEN Failed
        ELSE IF e.op # "iif" THEN TryFoldSelf([e EXCEPT !.args = a])
        ELSE IF a[1].op = "lit" THEN a[Selected(a[1])]
        ELSE [e EXCEPT !.args = a]

(***************************************************************************)
(* What the generated instructions compute.                                *)
(***************************************************************************)
Undefined == -1
Depends(a, f(_)) == IF a = Undefined THEN Undefined ELSE f(a)

(* GenerateModulo: the remainder, corrected by the divisor. *)
GenerateModulo(t, x, y) ==
    LET r == Remainder(x, y)
    IN  IF t.signed /\ r < 0 THEN (IF y > 0 THEN r + y ELSE r - y) ELSE r

RunBinary(op, t, a, b) ==
    LET x == Num(t, a)
        y == Num(t, b)
    IN  CASE op = "+" -> Bits(t, a + b)
          [] op = "-" -> Bits(t, a - b)
          [] op = "*" -> Bits(t, a * b)
          [] op \in {"div", "rem", "mod"} /\ y = 0 -> Undefined
          [] op \in {"div", "rem", "mod"} /\ t.signed /\ y = -1 /\ x = -(2 ^ (t.bits - 1)) -> Undefined
          [] op = "div" -> Bits(t, Quotient(x, y))
          [] op = "rem" -> Bits(t, Remainder(x, y))
          [] op = "mod" -> Bits(t, GenerateModulo(t, x, y))
          [] op = "&" -> a & b
          [] op = "|" -> a | b
          [] op = "xor" -> a ^^ b
          [] op \in Shifts /\ b >= t.bits -> Undefined
          [] op = "<<" -> Bits(t, a * 2 ^ b)
          [] op = ">>" -> Bits(t, x \div 2 ^ b)

RunConversion(from, to, x) == Depends(x, LAMBDA v : Bits(to, Num(from, v)))
RunNeg(t, x) == Depends(x, LAMBDA v : Bits(t, -v))
RunBitNot(t, x) == Depends(x, LAMBDA v : Bits(t, -v - 1))
RunNot(x) == Depends(x, LAMBDA v : 1 - v)

(* A branch, not an instruction: y is not computed when x decides. *)
RunLogical(op, x, y) == Depends(x, LAMBDA v : IF v = Truth(op = "or") THEN v ELSE y)
RunIif(x, y, z) == Depends(x, LAMBDA v : IF v = 1 THEN y ELSE z)

RunCompare(op, t, x, y) ==
    Depends(x, LAMBDA v : Depends(y, LAMBDA w : Truth(Ordered(op, Num(t, v), Num(t, w)))))

RECURSIVE Run(_, _)
Run(e, inputs) ==
    LET a(i) == Run(e.args[i], inputs)
    IN  CASE e.op \in {"lit", "const"} -> Bits(e.type, e.value)
          [] e.op = "var" -> Bits(e.type, inputs[e.value])
          [] e.op = "cached" -> a(1)
          [] e.op = "conv" -> RunConversion(e.args[1].type, e.type, a(1))
          [] e.op = "neg" -> RunNeg(e.type, a(1))
          [] e.op = "bitnot" -> RunBitNot(e.type, a(1))
          [] e.op = "not" -> RunNot(a(1))
          [] e.op \in {"and", "or"} -> RunLogical(e.op, a(1), a(2))
          [] e.op = "iif" -> RunIif(a(1), a(2), a(3))
          [] e.op \in Compares -> RunCompare(e.op, e.args[1].type, a(1), a(2))
          [] e.op \in BinOps ->
               Depends(a(1), LAMBDA x : Depends(a(2), LAMBDA y : RunBinary(e.op, e.type, x, y)))

(***************************************************************************)
FoldInit ==
  /\ target \in Targets
  /\ source \in Sources
  /\ tree = source
  /\ stage = "text"

ParseExpression ==
  /\ stage = "text"
  /\ tree' = Typed(source)
  /\ stage' = "typed"
  /\ UNCHANGED <<target, source>>

Fold ==
  /\ stage = "typed"
  /\ tree # Failed
  /\ tree' = FoldTree(tree)
  /\ stage' = "folded"
  /\ UNCHANGED <<target, source>>

FoldNext == ParseExpression \/ Fold

FoldSpec == FoldInit /\ [][FoldNext]_foldVars

(***************************************************************************)
(* Properties                                                              *)
(***************************************************************************)
RECURSIVE Nodes(_)
Nodes(e) == {e} \cup UNION {Nodes(e.args[i]) : i \in DOMAIN e.args}

Constant(e) == \A n \in Nodes(e) : n.op \notin {"var", "cached", "error"}

(* Where folding is known to differ: comparing what a signed type_int does *)
(* not hold (otype_bool.cpp:119), and shifting an unsigned value of the    *)
(* host's width to the right (otype_int.cpp:240).                          *)
Hole(n) ==
    /\ n.op \in Compares \cup {">>"}
    /\ Constant(n)
    /\ LET t == n.args[1].type
       IN  \/ n.op = ">>" /\ ~t.signed /\ t.bits = HostBits
           \/ n.op \in Compares /\ t.bits > target
           \/ n.op \in Orders /\ ~t.signed /\ t.bits = target

(* A constant part the generated code gives no value: division by zero, an *)
(* overflowing division, a shift by the width or more.                     *)
Faulty(e) == \E n \in Nodes(e) : n.op \in BinOps /\ Constant(n) /\ \A i \in Inputs : Run(n, i) = Undefined

Accepted == stage = "folded" /\ \A n \in Nodes(Typed(source)) : n.op \in BinOps => n.type # Bool

(* Folding does not change what an expression computes, in any of the      *)
(* values of its variables for which it computes something, outside Hole;  *)
(* and the compiler only fails on a part without a value.                  *)
FoldingKeepsValues ==
    Accepted /\ (\A n \in Nodes(Typed(source)) : ~Hole(n)) =>
        IF tree = Failed THEN Faulty(Typed(source))
        ELSE \A i \in Inputs : Run(Typed(source), i) \in {Undefined, Run(tree, i)}

(* An expression without variables becomes a literal or the name of a      *)
(* constant, which a constant declaration, an array bound and a directive  *)
(* need: except a range, whose middle value is never constant.             *)
ConstantsFold ==
    Accepted /\ Constant(Typed(source)) /\ ~Faulty(Typed(source)) => tree.op \in {"lit", "const"}

(* VIOLATED: folding does not change what an expression computes.          *)
FoldingIsInvisible ==
    Accepted /\ ~Faulty(Typed(source)) =>
        \A i \in Inputs : Run(Typed(source), i) \in {Undefined, Run(tree, i)}

FoldTypesOK ==
  /\ stage \in {"text", "typed", "folded"}
  /\ target \in Targets
  /\ \A n \in Nodes(tree) : n.op = "lit" /\ n.type.kind = "int" => Host(n.value) = n.value
=============================================================================
