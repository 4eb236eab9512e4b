--------------------------- MODULE ManagedStorage ---------------------------
(***************************************************************************)
(* The storage the generated code manages for the program: reference       *)
(* counted strings (copied when a shared one is changed), dynamic arrays   *)
(* of strings (shared by their variables) and the objects of autofree      *)
(* variables.  A cell is a manager or an object of the heap.  The actions  *)
(* are statements: the calls into the runtime library that the compiler    *)
(* generates for one, in their order.  A text is the set of the marks it   *)
(* contains.  `meaning' and `listed' are what the variables and the array  *)
(* elements should contain by the language manual.                         *)
(***************************************************************************)
EXTENDS Integers, Sequences, FiniteSets, SequencesExt, FiniteSetsExt

CONSTANTS
    Strings, Arrays, Owners,  \* the variables: str, [*]str and autofree ones
    Marks,                    \* what texts are made of
    MaxCells, MaxItems,       \* bounds: cells alive at once, elements of an array
    Forms                     \* the statement forms of RoughForms a program uses

\* Forms of statement after which a count and its holders can differ.
RoughForms == {"iif", "keep temporary", "clear shared", "drop array",
               "raise between arguments", "array property"}

VARIABLES cell, holds, meaning, listed
storageVars == <<cell, holds, meaning, listed>>

Cells == 1..MaxCells
Nil == 0
TextValues == SUBSET Marks
Names == Strings \cup Arrays \cup Owners
Free == [kind |-> "free", count |-> 0, text |-> {}, items |-> <<>>]

Text(c, m) == IF m = Nil THEN {} ELSE c[m].text
Items(m) == IF m = Nil THEN <<>> ELSE cell[m].items
-----------------------------------------------------------------------------
(* The runtime library                                                     *)

\* Who refers to a cell: variables and the elements of the arrays alive.
Holders(m) ==
    {n \in Names : holds[n] = m}
        \cup {d \in Cells \X (1..MaxItems) :
                 d[2] <= Len(cell[d[1]].items) /\ cell[d[1]].items[d[2]] = m}

\* The least cells that are neither alive nor still referred to.
Unused(c) == {m \in Cells : c[m] = Free /\ Holders(m) = {}}
Fresh(c) == Min(Unused(c))
Room == Cardinality(Unused(cell)) >= 2

New(c, what, text, items) ==
    [c EXCEPT ![Fresh(c)] = [kind |-> what, count |-> 1, text |-> text, items |-> items]]
IncRef(c, m) == IF m = Nil THEN c ELSE [c EXCEPT ![m].count = @ + 1]
IncRefElements(c, ms) == FoldLeft(IncRef, c, ms)
Drop(c, m) == IF m = Nil THEN c
              ELSE IF c[m].count <= 1 THEN [c EXCEPT ![m] = Free]
              ELSE [c EXCEPT ![m].count = @ - 1]
DecRefElements(c, ms) == FoldLeft(Drop, c, ms)
DecRef(c, m) ==
    IF m # Nil /\ c[m].kind = "array" /\ c[m].count <= 1
    THEN DecRefElements(Drop(c, m), c[m].items)
    ELSE Drop(c, m)

EnsureUniqueBySharing(c, m) ==
    IF m = Nil THEN [cell |-> New(c, "str", {}, <<>>), ref |-> Fresh(c)] ELSE [cell |-> c, ref |-> m]
\* A string about to be changed: made, or detached from those sharing it.
EnsureUnique(c, m) ==
    IF m = Nil THEN [cell |-> New(c, "str", {}, <<>>), ref |-> Fresh(c)]
    ELSE IF c[m].count <= 1 THEN [cell |-> c, ref |-> m]
    ELSE [cell |-> DecRef(New(c, "str", c[m].text, <<>>), m), ref |-> Fresh(c)]
Extended(c, m, mark) ==
    LET u == EnsureUnique(c, m) IN [u EXCEPT !.cell[u.ref].text = @ \cup {mark}]

\* Every variable of the block is released when it ends or is unwound.
EmitOwnedObjectDestructors(c, h) == FoldSet(LAMBDA n, d : DecRef(d, h[n]), c, Names)
-----------------------------------------------------------------------------
(* String expressions                                                      *)

Expressions ==
    [form : {"variable", "call", "clone", "property field"}, of : Strings]
        \cup [form : {"text"}, of : TextValues]
        \cup [form : {"concat"}, of : Strings \X Strings]
        \cup {e \in [form : {"element"}, of : Arrays, at : 1..MaxItems] :
                 e.at <= Len(Items(holds[e.of]))}
        \cup [form : Forms \cap {"iif"}, of : Strings]

\* The expression's text by the manual.
Said(e) == CASE e.form = "text" -> e.of
             [] e.form = "concat" -> meaning[e.of[1]] \cup meaning[e.of[2]]
             [] e.form = "element" -> listed[holds[e.of]][e.at]
             [] OTHER -> meaning[e.of]

IsStableStorageLValue(e) == e.form \in {"variable", "element", "property field"}
IsOwned(e) == ~IsStableStorageLValue(e)

\* The values the generated code computes: the heap and the manager.
Made(c, text) == [cell |-> New(c, "str", text, <<>>), ref |-> Fresh(c)]
Concat(c, v, w) == Made(c, Text(c, holds[v]) \cup Text(c, holds[w]))
TextToString(c, text) == IF text = {} THEN [cell |-> c, ref |-> Nil] ELSE Made(c, text)
CloneString(c, v) == TextToString(c, Text(c, holds[v]))
CallResult(c, v) == [cell |-> IncRef(c, holds[v]), ref |-> holds[v]]
Selected(c, v) == [cell |-> c, ref |-> holds[v]]  \* by an iif: not a reference of its own

Generate(c, e) ==
    CASE e.form = "text" -> TextToString(c, e.of)
      [] e.form = "concat" -> Concat(c, e.of[1], e.of[2])
      [] e.form = "clone" -> CloneString(c, e.of)
      [] e.form = "call" -> CallResult(c, e.of)
      [] e.form = "iif" -> Selected(c, e.of)
      [] e.form = "element" -> [cell |-> c, ref |-> Items(holds[e.of])[e.at]]
      [] OTHER -> [cell |-> c, ref |-> holds[e.of]]

\* The value replaces what `old' refers to: a stored one is shared, a temporary moved.
AssignExpr(e, g, old) == DecRef(IF IsStableStorageLValue(e) THEN IncRef(g.cell, g.ref) ELSE g.cell, old)

\* A temporary that was passed by value is released after the call.
ReleaseArgument(c, e, m) == IF IsStableStorageLValue(e) THEN c ELSE DecRef(c, m)
-----------------------------------------------------------------------------
(* Statements                                                              *)

TypeOfCells == [kind : {"free", "str", "array", "object"}, count : Int,
                text : TextValues, items : Seq(0..MaxCells)]
StorageTypesOK ==
    /\ cell \in [Cells -> TypeOfCells]
    /\ holds \in [Names -> 0..MaxCells]
    /\ meaning \in [Strings -> TextValues]
    /\ listed \in [Cells -> Seq(TextValues)]

StorageInit ==
    /\ cell = [m \in Cells |-> Free]
    /\ holds = [n \in Names |-> Nil]
    /\ meaning = [v \in Strings |-> {}]
    /\ listed = [m \in Cells |-> <<>>]

\* The elements of an array that is gone have no meaning any more.
Listing(l) == listed' = [m \in Cells |-> IF cell'[m].kind = "array" THEN l[m] ELSE <<>>]

\* v = e
Assign(v, e) ==
    \E g \in {Generate(cell, e)} :
    /\ cell' = AssignExpr(e, g, holds[v])
    /\ holds' = [holds EXCEPT ![v] = g.ref]
    /\ meaning' = [meaning EXCEPT ![v] = Said(e)]
    /\ Listing(listed)

\* v += e: a new string in place of the old one; a temporary text is released.
ModifyAssign(v, e) ==
    LET g == Generate(cell, e)
        c == New(g.cell, "str", Text(g.cell, holds[v]) \cup Text(g.cell, g.ref), <<>>)
    IN /\ cell' = DecRef(ReleaseArgument(c, e, g.ref), holds[v])
       /\ holds' = [holds EXCEPT ![v] = Fresh(g.cell)]
       /\ meaning' = [meaning EXCEPT ![v] = @ \cup Said(e)]
       /\ Listing(listed)

\* p += e for a property whose getter and setter copy the field v: the value got
\* and the new one are temporaries of the statement.
ModifyProperty(v, e) ==
    LET got == CallResult(cell, v)
        g == Generate(got.cell, e)
        new == Made(g.cell, Text(g.cell, got.ref) \cup Text(g.cell, g.ref))
        before == DecRef(ReleaseArgument(new.cell, e, g.ref), got.ref)
        param == IncRef(before, new.ref)
    IN /\ cell' = DecRef(DecRef(DecRef(IncRef(param, new.ref), holds[v]), new.ref), new.ref)
       /\ holds' = [holds EXCEPT ![v] = new.ref]
       /\ meaning' = [meaning EXCEPT ![v] = @ \cup Said(e)]
       /\ Listing(listed)

\* v.Append(mark), v[i] = ch and the other methods that change a string in place.
Change(v, mark) ==
    LET u == Extended(cell, holds[v], mark) IN
    /\ cell' = u.cell
    /\ holds' = [holds EXCEPT ![v] = u.ref]
    /\ meaning' = [meaning EXCEPT ![v] = @ \cup {mark}]
    /\ Listing(listed)

\* f(e): the callee holds its parameter and may change it or store it in v.
CallWith(e, v, does) ==
    LET g == Generate(cell, e)
        c == IncRef(g.cell, g.ref)
        u == Extended(c, g.ref, CHOOSE m \in Marks : TRUE)
        k == IF does = "stores" THEN DecRef(DecRef(IncRef(c, g.ref), holds[v]), g.ref)
             ELSE IF does = "changes" THEN DecRef(u.cell, u.ref)
             ELSE DecRef(c, g.ref)
    IN /\ cell' = ReleaseArgument(k, e, g.ref)
       /\ holds' = IF does = "stores" THEN [holds EXCEPT ![v] = g.ref] ELSE holds
       /\ meaning' = IF does = "stores" THEN [meaning EXCEPT ![v] = Said(e)] ELSE meaning
       /\ Listing(listed)

\* f(e) raises: parameter, temporary and the variables of the block are released.
CallRaises(e) ==
    LET g == Generate(cell, e)
        c == ReleaseArgument(DecRef(IncRef(g.cell, g.ref), g.ref), e, g.ref)
    IN /\ cell' = EmitOwnedObjectDestructors(c, holds)
       /\ holds' = [n \in Names |-> Nil]
       /\ meaning' = [v \in Strings |-> {}]
       /\ Listing(listed)

\* f(e, g()) where g raises: the call's temporaries are guarded only from the
\* call itself on.
RaiseBetweenArguments(e) ==
    /\ "raise between arguments" \in Forms
    /\ cell' = EmitOwnedObjectDestructors(Generate(cell, e).cell, holds)
    /\ holds' = [n \in Names |-> Nil]
    /\ meaning' = [v \in Strings |-> {}]
    /\ Listing(listed)

\* A discarded string result, or the cached middle of a < e < b.
Discard(e) ==
    \E g \in {Generate(cell, e)} :
    /\ cell' = DecRef(IF IsStableStorageLValue(e) THEN IncRef(g.cell, g.ref) ELSE g.cell, g.ref)
    /\ UNCHANGED <<holds, meaning>>
    /\ Listing(listed)

\* e read as text by a call, a comparison or v.Append(e): a temporary is released.
Borrow(e) ==
    \E g \in {Generate(cell, e)} :
    /\ cell' = ReleaseArgument(g.cell, e, g.ref)
    /\ UNCHANGED <<holds, meaning>>
    /\ Listing(listed)

EndBlock ==
    /\ \E n \in Names : holds[n] # Nil
    /\ cell' = EmitOwnedObjectDestructors(cell, holds)
    /\ holds' = [n \in Names |-> Nil]
    /\ meaning' = [v \in Strings |-> {}]
    /\ Listing(listed)
-----------------------------------------------------------------------------
(* Dynamic arrays                                                          *)

\* x.Append(e), x.Prepend(e), x.Insert(i, e): the element copied is shared, so
\* the reference a temporary came with stays.
Insert(x, e, at) ==
    LET g == Generate(cell, e)
        made == holds[x] = Nil
        c == IF made THEN New(g.cell, "array", {}, <<>>) ELSE g.cell
        m == IF made THEN Fresh(g.cell) ELSE holds[x]
    IN /\ Len(Items(holds[x])) < MaxItems /\ at <= Len(Items(holds[x])) + 1
       /\ IsOwned(e) => "keep temporary" \in Forms
       /\ cell' = IncRef([c EXCEPT ![m].items = InsertAt(@, at, g.ref)], g.ref)
       /\ holds' = [holds EXCEPT ![x] = m]
       /\ UNCHANGED meaning
       /\ Listing([listed EXCEPT ![m] = InsertAt(@, at, Said(e))])

\* x[i] = e
SetItem(x, i, e) ==
    \E g \in {Generate(cell, e)} :
    /\ i <= Len(Items(holds[x]))
    /\ cell' = [AssignExpr(e, g, Items(holds[x])[i]) EXCEPT ![holds[x]].items[i] = g.ref]
    /\ UNCHANGED <<holds, meaning>>
    /\ Listing([listed EXCEPT ![holds[x]][i] = Said(e)])

\* v = x.Pop(), x.PopFirst(): the element's reference moves to v.
Pop(v, x, i) ==
    /\ i \in {1, Len(Items(holds[x]))} /\ Items(holds[x]) # <<>>
    /\ cell' = DecRef([cell EXCEPT ![holds[x]].items = RemoveAt(@, i)], holds[v])
    /\ holds' = [holds EXCEPT ![v] = Items(holds[x])[i]]
    /\ meaning' = [meaning EXCEPT ![v] = listed[holds[x]][i]]
    /\ Listing([listed EXCEPT ![holds[x]] = RemoveAt(@, i)])

\* x.Delete(i)
Delete(x, i) ==
    /\ i <= Len(Items(holds[x]))
    /\ cell' = [DecRef(cell, Items(holds[x])[i]) EXCEPT ![holds[x]].items = RemoveAt(@, i)]
    /\ UNCHANGED <<holds, meaning>>
    /\ Listing([listed EXCEPT ![holds[x]] = RemoveAt(@, i)])

\* x.Clear(), x.SetLength(0): every variable of the array sees it empty.
Clear(x) ==
    /\ holds[x] # Nil
    /\ cell' = [DecRefElements(cell, Items(holds[x])) EXCEPT ![holds[x]].items = <<>>]
    /\ UNCHANGED <<holds, meaning>>
    /\ Listing([listed EXCEPT ![holds[x]] = <<>>])

\* x.Clear(true) deletes the manager, whoever else refers to it.
ClearStorage(x) ==
    /\ holds[x] # Nil
    /\ cell[holds[x]].count > 1 => "clear shared" \in Forms
    /\ cell' = [DecRefElements(cell, Items(holds[x])) EXCEPT ![holds[x]] = Free]
    /\ holds' = [holds EXCEPT ![x] = Nil]
    /\ UNCHANGED meaning
    /\ Listing(listed)

\* y = x shares the array.  Any lvalue counts as one that keeps its reference:
\* a property, whose getter returns a reference of its own, too.
Share(y, x) ==
    /\ cell' = DecRef(IncRef(cell, holds[x]), holds[y])
    /\ holds' = [holds EXCEPT ![y] = holds[x]]
    /\ UNCHANGED meaning
    /\ Listing(listed)
SharePropertyResult(y, x) ==
    /\ "array property" \in Forms
    /\ cell' = DecRef(IncRef(IncRef(cell, holds[x]), holds[x]), holds[y])
    /\ holds' = [holds EXCEPT ![y] = holds[x]]
    /\ UNCHANGED meaning
    /\ Listing(listed)

\* The array x.Clone() yields: nil for an empty one.
Clone(x) ==
    IF Items(holds[x]) = <<>> THEN [cell |-> cell, ref |-> Nil]
    ELSE [cell |-> IncRefElements(New(cell, "array", {}, Items(holds[x])), Items(holds[x])),
          ref |-> Fresh(cell)]

\* y = x.Clone(), or of a call that returns an array of its own.
AssignClone(y, x) ==
    LET g == Clone(x) IN
    /\ cell' = DecRef(g.cell, holds[y])
    /\ holds' = [holds EXCEPT ![y] = g.ref]
    /\ UNCHANGED meaning
    /\ Listing(IF g.ref = Nil THEN listed ELSE [listed EXCEPT ![g.ref] = listed[holds[x]]])

\* y = [e]: the literal's elements are copied like appended ones.
AssignLiteral(y, e) ==
    LET g == Generate(cell, e)
        c == IncRef(New(g.cell, "array", {}, <<g.ref>>), g.ref)
    IN /\ IsOwned(e) => "keep temporary" \in Forms
       /\ cell' = DecRef(c, holds[y])
       /\ holds' = [holds EXCEPT ![y] = Fresh(g.cell)]
       /\ UNCHANGED meaning
       /\ Listing([listed EXCEPT ![Fresh(g.cell)] = <<Said(e)>>])

\* A discarded array result: only strings are released.
DropArray(x) ==
    /\ "drop array" \in Forms
    /\ cell' = Clone(x).cell
    /\ UNCHANGED <<holds, meaning>>
    /\ Listing(IF Clone(x).ref = Nil THEN listed ELSE [listed EXCEPT ![Clone(x).ref] = listed[holds[x]]])
-----------------------------------------------------------------------------
(* Autofree variables                                                      *)

\* p = new T(): the old object goes before the new one is built.
Renew(p) ==
    LET c == DecRef(cell, holds[p]) IN
    /\ cell' = New(c, "object", {}, <<>>)
    /\ holds' = [holds EXCEPT ![p] = Fresh(c)]
    /\ UNCHANGED <<meaning, listed>>

\* p = q moves the object; to itself it stays.
Move(p, q) ==
    /\ cell' = IF p = q THEN cell ELSE DecRef(cell, holds[p])
    /\ holds' = IF p = q THEN holds ELSE [holds EXCEPT ![p] = holds[q], ![q] = Nil]
    /\ UNCHANGED <<meaning, listed>>

\* delete p, p = nil
Release(p) ==
    /\ holds[p] # Nil
    /\ cell' = DecRef(cell, holds[p])
    /\ holds' = [holds EXCEPT ![p] = Nil]
    /\ UNCHANGED <<meaning, listed>>
-----------------------------------------------------------------------------
StringStatement(e) ==
    \/ \E v \in Strings : \/ Assign(v, e)
                          \/ ModifyAssign(v, e)
                          \/ ModifyProperty(v, e)
                          \/ \E does \in {"reads", "changes", "stores"} : CallWith(e, v, does)
    \/ CallRaises(e)
    \/ RaiseBetweenArguments(e)
    \/ Discard(e) \/ Borrow(e)
    \/ \E x \in Arrays, i \in 1..MaxItems : Insert(x, e, i) \/ SetItem(x, i, e)
    \/ \E y \in Arrays : AssignLiteral(y, e)

ArrayStatement(x) ==
    \/ \E i \in 1..MaxItems : Delete(x, i) \/ (\E v \in Strings : Pop(v, x, i))
    \/ Clear(x) \/ ClearStorage(x) \/ DropArray(x)
    \/ \E y \in Arrays : Share(y, x) \/ SharePropertyResult(y, x) \/ AssignClone(y, x)

OwnerStatement(p) == Renew(p) \/ Release(p) \/ (\E q \in Owners : Move(p, q))

StorageNext ==
    \/ EndBlock
    \/ /\ Room
       /\ \/ \E e \in Expressions : StringStatement(e)
          \/ \E v \in Strings, mark \in Marks : Change(v, mark)
          \/ \E x \in Arrays : ArrayStatement(x)
          \/ \E p \in Owners : OwnerStatement(p)

StorageSpec == StorageInit /\ [][StorageNext]_storageVars
-----------------------------------------------------------------------------
\* After every statement a cell's count is the number of the variables and the
\* elements that refer to it: nothing leaks, and nothing in use is freed.
CountIsHolders == \A m \in Cells : cell[m].count = Cardinality(Holders(m))

(* docs/020-language/130-memory-management-and-ownership.md, lines 32 and  *)
(* 60, and 075-string-functions.md, line 331: strings release their own    *)
(* storage, and the count says how many references share it. So what a     *)
(* variable or an element refers to has not been released (GenerateValue   *)
(* of OIifExpr and CaptureArgument, src/compiler/ast/expressions.cpp).     *)
HeldIsAlive == \A m \in Cells : cell[m].count = 0 => Holders(m) = {}

\* Strings behave as values, whatever they share, and arrays as shared storage:
\* a variable's text and an array's elements are those the manual gives them.
ValuesAsDocumented ==
    /\ \A v \in Strings : Text(cell, holds[v]) = meaning[v]
    /\ \A x \in Arrays : holds[x] # Nil =>
          listed[holds[x]] = [i \in DOMAIN Items(holds[x]) |-> Text(cell, Items(holds[x])[i])]
=============================================================================
