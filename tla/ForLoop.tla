------------------------------- MODULE ForLoop -------------------------------
(***************************************************************************)
(* The forms of `for`: what ParseStmtFor makes of them (dqc_parser_stmt.cpp*)
(* in src/compiler/parser) and what the blocks of OStmtFor::Generate       *)
(* (src/compiler/ast/statements.cpp) then do.                              *)
(*                                                                         *)
(* Expressions of the program are numbers and variables of type int; the   *)
(* loop variable may be narrower.  The body of the loop may do anything    *)
(* that ends or continues it or changes what the loop depends on.          *)
(***************************************************************************)
EXTENDS Integers, Sequences, SequencesExt

CONSTANTS Wide,           \* the type int, [bits, signed]
          Texts,          \* the loops that are written
          Memories,       \* the variables before the loop
          Lists,          \* the arrays before the loop
          Values,         \* what the body may write
          MaxIterations

VARIABLES loop,     \* what the text was compiled to
          memory,   \* the variables
          entry,    \* history: the variables before the loop
          lists,    \* array -> its elements
          at,       \* the block: init, cond, body, step, end
          visited,  \* history: the loop variable, or <<array, index>>
          read,     \* history: the parts of the text that were evaluated
          touched   \* history: what the body changed

forVars == <<loop, memory, entry, lists, at, visited, read, touched>>

NoType == [bits |-> 0, signed |-> FALSE]
Low(t) == IF t.signed THEN -(2 ^ (t.bits - 1)) ELSE 0
High(t) == IF t.signed THEN 2 ^ (t.bits - 1) - 1 ELSE 2 ^ t.bits - 1
Fits(t, v) == v \in Low(t)..High(t)
Wrap(t, v) == Low(t) + ((v - Low(t)) % 2 ^ t.bits)

(***************************************************************************)
(* Compiling.  A text has a form, a type where it is given, the variable   *)
(* that is in scope ([type, kind], NoType if none), first, limit and step, *)
(* and for `in` an array.  A part is [op, value, as]: a number or a        *)
(* variable, converted to a type; the name of the part is for `read`.      *)
(***************************************************************************)
Part(name, e, type) == [name |-> name, op |-> e.op, value |-> e.value, as |-> type]
Literal(v) == [op |-> "number", value |-> v]
One(type) == Part("", Literal(1), type)
Assign(to, op, e) == [to |-> to, op |-> op, from |-> e]
Rejected == [form |-> "rejected"]

Declared(text) == text.given # NoType /\ text.variable.type = NoType
TypeOf(text) == IF Declared(text) THEN text.given ELSE text.variable.type

(* A variable that exists, of the type that is given if one is.            *)
Usable(text) ==
    \/ Declared(text)
    \/ /\ text.variable.type # NoType /\ text.given \in {NoType, text.variable.type}
       /\ text.variable.kind = "variable"

(* is_positive_const_step *)
PositiveStep(step) == step.op = "number" => step.value > 0

(* to, downto, count, downcount and while.  What is counted is kept in a   *)
(* variable of the loop variable's type.                                   *)
Downward(text) == text.form \in {"downto", "downcount"}
Counting(text) == text.form \in {"count", "downcount"}
LeftToRun == ">"
CompileRange(text) ==
    LET type == TypeOf(text)
        limit == Part("limit", text.limit, IF text.form = "while" THEN Wide ELSE type)
        first == Assign("i", "set", Part("first", text.first, type))
        by == Assign("i", IF Downward(text) THEN "sub" ELSE "add", Part("step", text.step, type))
    IN  IF ~Usable(text) \/ type.bits = 0 \/ text.ref \/ (text.form # "while" /\ ~PositiveStep(text.step)) THEN Rejected
        ELSE [form |-> text.form, text |-> text, type |-> type,
              init |-> IF Counting(text) THEN <<first, Assign("count", "set", limit)>> ELSE <<first>>,
              test |-> IF Counting(text) THEN [left |-> "count", op |-> LeftToRun, right |-> Part("", Literal(0), type)]
                       ELSE [left |-> "i", right |-> limit,
                             op |-> CASE text.form = "to" -> "<=" [] text.form = "downto" -> ">=" [] OTHER -> text.compare],
              step |-> (IF Counting(text) THEN <<Assign("count", "sub", One(type))>> ELSE <<>>) \o <<by>>]

(* in: an index counts up to the length of the array, which is a second    *)
(* copy of the array expression.  Only names and their members are copied: *)
(* rows[k] is refused like a value without storage.                        *)
CompileIn(text) ==
    IF (~text.ref /\ ~Usable(text)) \/ text.array.op \notin {"variable", "member"} THEN Rejected
    ELSE [form |-> "in", text |-> text, type |-> Wide,
          init |-> <<Assign("index", "set", Part("", Literal(0), Wide))>>,
          test |-> [left |-> "index", op |-> "<", right |-> [name |-> "length"]],
          step |-> <<Assign("index", "add", One(Wide))>>]
ParseStmtFor(text) == IF text.form = "in" THEN CompileIn(text) ELSE CompileRange(text)

(***************************************************************************)
(* Running.                                                                *)
(***************************************************************************)
(* The array is an expression that is evaluated each time: a variable, or  *)
(* the array in the object that the variable o refers to.                  *)
ArrayOf(l) == IF l.text.array.op = "variable" THEN l.text.array.name ELSE memory.o
Value(p) == Wrap(p.as, IF p.op = "number" THEN p.value ELSE memory[p.value])
Reads(p) == IF p.name = "" THEN <<>> ELSE <<p.name>>

TypeIn(l, name) == IF name = "index" THEN Wide ELSE l.type
Stored(l, m, s) ==
    LET value == Wrap(s.from.as, IF s.from.op = "number" THEN s.from.value ELSE m[s.from.value])
    IN  [m EXCEPT ![s.to] = Wrap(TypeIn(l, s.to), CASE s.op = "set" -> value [] s.op = "add" -> @ + value [] s.op = "sub" -> @ - value)]
Executed(l, m, statements) == FoldLeft(LAMBDA x, s : Stored(l, x, s), m, statements)
ReadBy(statements) == FoldLeft(LAMBDA x, s : x \o Reads(s.from), <<>>, statements)

Holds(left, op, right) ==
    CASE op = "<=" -> left <= right [] op = ">=" -> left >= right
      [] op = "<" -> left < right [] op = ">" -> left > right
Test(l) == Holds(memory[l.test.left], l.test.op, IF l.form = "in" THEN Len(lists[ArrayOf(l)]) ELSE Value(l.test.right))

NothingRun == entry = memory /\ at = "init" /\ visited = <<>> /\ read = <<>> /\ touched = {}
ForInit ==
    /\ loop \in {ParseStmtFor(t) : t \in Texts} \ {Rejected}
    /\ memory \in Memories /\ lists \in Lists /\ NothingRun

InitBlock ==
    /\ at = "init" /\ at' = "cond"
    /\ memory' = Executed(loop, memory, loop.init)
    /\ read' = read \o ReadBy(loop.init)
    /\ UNCHANGED <<loop, entry, lists, visited, touched>>

(* The condition, and at the head of an `in` body the element: a copy in   *)
(* the loop variable, or its address.                                      *)
CondBlock ==
    /\ at = "cond" /\ Len(visited) <= MaxIterations
    /\ IF Test(loop)
       THEN /\ at' = "body"
            /\ visited' = Append(visited, IF loop.form = "in" THEN <<ArrayOf(loop), memory.index>> ELSE memory.i)
            /\ memory' = IF loop.form # "in" THEN memory
                         ELSE IF loop.text.ref THEN [memory EXCEPT !.bound = <<ArrayOf(loop), memory.index>>]
                         ELSE [memory EXCEPT !.i = lists[ArrayOf(loop)][memory.index + 1]]
       ELSE at' = "end" /\ UNCHANGED <<visited, memory>>
    /\ read' = read \o Reads(loop.test.right)
    /\ UNCHANGED <<loop, entry, lists, touched>>

StepBlock ==
    /\ at = "step" /\ at' = "cond"
    /\ memory' = Executed(loop, memory, loop.step)
    /\ read' = read \o ReadBy(loop.step)
    /\ UNCHANGED <<loop, entry, lists, visited, touched>>

(* The end of the body, continue and break: ll_loop_stack. *)
ContinueAtCondition == "cond"
ContinueAt == "step"
Continue == at = "body" /\ at' = ContinueAt /\ UNCHANGED <<loop, entry, memory, lists, visited, read, touched>>
Break ==
    /\ at = "body" /\ at' = "end" /\ touched' = touched \cup {"break"}
    /\ UNCHANGED <<loop, entry, memory, lists, visited, read>>

(* A statement of the body; one is enough to disturb a loop. *)
Change(name, value) ==
    /\ at = "body" /\ touched = {} /\ (loop.form = "in") = (name = "o")
    /\ memory[name] # value /\ memory' = [memory EXCEPT ![name] = value]
    /\ touched' = touched \cup {name}
    /\ UNCHANGED <<loop, entry, lists, at, visited, read>>
WriteElement(value) ==
    /\ at = "body" /\ loop.form = "in" /\ touched = {}
    /\ IF loop.text.ref THEN lists' = [lists EXCEPT ![memory.bound[1]][memory.bound[2] + 1] = value] /\ UNCHANGED memory
       ELSE memory' = [memory EXCEPT !.i = value] /\ UNCHANGED lists
    /\ touched' = touched \cup {"element"}
    /\ UNCHANGED <<loop, entry, at, visited, read>>
Resize(name) ==
    /\ at = "body" /\ loop.form = "in" /\ touched = {} /\ ~loop.text.ref
    /\ \/ lists' = [lists EXCEPT ![name] = Append(@, 0)]
       \/ lists[name] # <<>> /\ lists' = [lists EXCEPT ![name] = Front(@)]
    /\ touched' = touched \cup {"size"}
    /\ UNCHANGED <<loop, entry, memory, at, visited, read>>
Body ==
    \/ Continue \/ Break
    \/ \E v \in Values : Change("n", v) \/ Change("s", v) \/ WriteElement(v)
    \/ \E v \in Values : Fits(loop.type, v) /\ Change("i", v)
    \/ \E a \in DOMAIN lists : Change("o", a) \/ Resize(a)

ForNext == InitBlock \/ CondBlock \/ StepBlock \/ Body

(***************************************************************************)
(* Properties.                                                             *)
(***************************************************************************)
ForTypesOK ==
    /\ at \in {"init", "cond", "body", "step", "end"}
    /\ Len(visited) <= MaxIterations + 1
    /\ loop.form # "in" => Fits(loop.type, memory.i) /\ Fits(loop.type, memory.count)

(* docs/020-language/050-control-flow.md:92-96, of a loop whose body keeps *)
(* its hands off: `to` and `downto` visit the numbers from first through   *)
(* last.                                                                   *)
Given(e) == IF e.op = "number" THEN e.value ELSE memory[e.value]
Direction == IF Downward(loop.text) THEN -1 ELSE 1
Sensible ==
    LET t == loop.text
    IN  /\ Given(t.step) > 0
        /\ {Given(t.first), Given(t.limit), Given(t.step)} \subseteq Low(loop.type)..High(loop.type)
LastBlock == Fits(loop.type, Given(loop.text.limit) + Direction * Given(loop.text.step))
Progression(first, last, by) == [j \in 1..(IF by * (last - first) < 0 THEN 0 ELSE (last - first) \div by + 1) |-> first + (j - 1) * by]
Numbers == Progression(Given(loop.text.first), Given(loop.text.limit), Direction * Given(loop.text.step))
VisitsExactly(numbers) == IsPrefix(visited, numbers) /\ (at = "end" /\ "break" \notin touched => visited = numbers)
RangeIsInclusive ==
    loop.form \in {"to", "downto"} /\ touched \subseteq {"break"} /\ Sensible /\ LastBlock => VisitsExactly(Numbers)

(* "Run n iterations": whatever the body does to n and to the control      *)
(* value, in either direction; no iteration if n is not positive.          *)
(* The number must be one the type of the loop variable can hold.          *)
CountAtEntry == IF loop.text.limit.op = "number" THEN loop.text.limit.value ELSE entry[loop.text.limit.value]
CountRunsN ==
    Counting(loop) /\ Fits(loop.type, CountAtEntry) =>
        LET n == IF CountAtEntry > 0 THEN CountAtEntry ELSE 0
        IN  Len(visited) <= n /\ (at = "end" /\ "break" \notin touched => Len(visited) = n)

(* The initial value is evaluated once on entry, so is a count; a limit or *)
(* condition at each test, the step at each step                           *)
(* (docs/020-language/050-control-flow.md:126-130).                        *)
Times(n, s) == FlattenSeq([j \in 1..n |-> s])
EvaluatedAsDocumented ==
    LET tests == Len(visited) + (IF at = "end" /\ "break" \notin touched THEN 1 ELSE 0)
        steps == IF at = "body" \/ "break" \in touched THEN Len(visited) - 1 ELSE Len(visited)
    IN  at \in {"body", "end"} =>
          read = CASE loop.form = "in" -> Times(tests, <<"length">>)
                   [] Counting(loop) -> <<"first", "limit">> \o Times(steps, <<"step">>)
                   [] OTHER -> <<"first">> \o Times(steps, <<"limit", "step">>) \o (IF tests > steps THEN <<"limit">> ELSE <<>>)

(* A loop over an array goes through its elements in order, from first to  *)
(* last, unless the body makes the array expression another array; what    *)
(* was appended is visited, what was removed is not.                       *)
Elements(array, n) == [j \in 1..n |-> <<array, j - 1>>]
ElementsInOrder ==
    loop.form = "in" /\ "o" \notin touched =>
        LET n == Len(lists[ArrayOf(loop)])
        IN  /\ visited = Elements(ArrayOf(loop), Len(visited))
            /\ "size" \notin touched => Len(visited) <= n
            /\ at = "end" /\ "break" \notin touched => Len(visited) \in n..n + 1

(* Every `to` and `downto` ends. *)
RangesEnd ==
    loop.form \in {"to", "downto"} /\ touched \subseteq {"break"} /\ Sensible => Len(visited) <= Len(Numbers)
=============================================================================
