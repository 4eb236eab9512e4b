---------------------------- MODULE ObjectTypes ----------------------------
(***************************************************************************)
(* Object types as the compiler keeps them: their methods, the virtual     *)
(* tables that calls go through, and the constructors a variable of type   *)
(* "type of T" builds objects with; first in the module that declares      *)
(* them, then in one that reads its interface (OTypeObject,                *)
(* ValidateFunctionDecl, ReadCompoundDecl).                                *)
(*                                                                         *)
(* A method is [name, sig, attrs, open]; it is open from its declaration   *)
(* with two dots until its body is found behind the object.  A function is *)
(* <<type, number of the method>>; a constructor is its signature.  What   *)
(* programs are allowed to do only if it is Unusual is what the compiler   *)
(* accepts and then gets wrong.                                            *)
(***************************************************************************)
EXTENDS Integers, Sequences, SequencesExt, FiniteSetsExt

CONSTANTS MethodNames,      \* the names of methods, in alphabetical order
          Methods,    \* the methods a type may declare
          Creates,    \* the signatures of constructors
          MaxTypes, MaxMembers,
          Unusual     \* of "base not defined", "late table", "skipped contract", "outside attributes", "outside method"

VARIABLES objects,    \* the types in the order of their names' declaration
          current,    \* the type that is being read, or 0
          finished,   \* the types that have been read, in that order
          imported    \* the types as another module reads them

typeVars == <<objects, current, finished, imported>>

NewObject == [base |-> 0, methods |-> <<>>, creates |-> <<>>, slots |-> <<>>, polymorphic |-> FALSE, abstract |-> FALSE]
DeclaredTypes == DOMAIN objects
Finished == ToSet(finished)
NoFunction == <<0, 0>>
NoConstructor == <<"none">>

RECURSIVE Bases(_, _)
Bases(os, t) == IF os[t].base = 0 THEN <<>> ELSE <<os[t].base>> \o Bases(os, os[t].base)
Lineage(os, t) == <<t>> \o Bases(os, t)
Method(os, f) == os[f[1]].methods[f[2]]
Has(os, f, attr) == attr \in Method(os, f).attrs

(***************************************************************************)
(* FindVirtualBaseMethod: the nearest base with a virtual method of that   *)
(* name and signature.                                                     *)
(***************************************************************************)
Matching(os, types, m) ==
    LET in(t) == {i \in DOMAIN os[t].methods : os[t].methods[i].name = m.name /\ os[t].methods[i].sig = m.sig
                                                /\ "virtual" \in os[t].methods[i].attrs}
        places == {j \in DOMAIN types : in(types[j]) # {}}
    IN  IF places = {} THEN NoFunction
        ELSE LET t == types[Min(places)] IN <<t, Min(in(t))>>
FindVirtualBaseMethod(os, t, m) == Matching(os, Bases(os, t), m)

FindVirtualSlot(os, slots, t, f) ==
    LET base == IF f[1] = t /\ Has(os, f, "override") THEN FindVirtualBaseMethod(os, t, Method(os, f)) ELSE f
        ofFamily(g) == g \in {f, base} \/ (base # NoFunction /\ FindVirtualBaseMethod(os, g[1], Method(os, g)) = base)
        found == {i \in DOMAIN slots : ofFamily(slots[i])}
    IN  IF found = {} THEN 0 ELSE Min(found)

(* UpdateObjectInheritanceFlags: overrides take the slot of what they      *)
(* override, new virtual methods follow in the order of their names.       *)
InOrderOfNames(os, t) ==
    FlattenSeq([n \in DOMAIN MethodNames |->
      SelectSeq([i \in DOMAIN os[t].methods |-> <<t, i>>], LAMBDA f : Method(os, f).name = MethodNames[n])])

Register(os, t, slots, f) ==
    IF Has(os, f, "override")
    THEN LET slot == FindVirtualSlot(os, slots, t, FindVirtualBaseMethod(os, t, Method(os, f)))
         IN  IF slot = 0 THEN slots ELSE [slots EXCEPT ![slot] = f]
    ELSE IF Has(os, f, "virtual") THEN Append(slots, f) ELSE slots

UpdateObjectInheritanceFlags(os, t) ==
    LET base == os[t].base
        own == InOrderOfNames(os, t)
        slots == FoldLeft(LAMBDA s, f : Register(os, t, s, f), IF base = 0 THEN <<>> ELSE os[base].slots, own)
    IN  [os EXCEPT ![t].slots = slots,
                   ![t].polymorphic = (base # 0 /\ os[base].polymorphic) \/ \E f \in ToSet(own) : Has(os, f, "virtual"),
                   ![t].abstract = \E f \in ToSet(own \o slots) : Has(os, f, "abstract")]

(* What GenVTableGlobal puts in a slot: nothing for an abstract method.    *)
TableEntry(os, t, slot) == IF slot = 0 \/ Has(os, os[t].slots[slot], "abstract") THEN NoFunction ELSE os[t].slots[slot]

(* GenerateFunctionCall: the slot is that of the method's own type.        *)
Called(os, t, f) == TableEntry(os, t, FindVirtualSlot(os, os[f[1]].slots, f[1], f))

(***************************************************************************)
(* Constructors by their place: those of the base come first.              *)
(***************************************************************************)
FindConstructorMatchingSignature(os, t, sig) ==
    LET wanted == IF sig = NoConstructor THEN <<>> ELSE sig
    IN  IF wanted \in ToSet(os[t].creates) THEN wanted ELSE NoConstructor

RECURSIVE ConstructorContractSlots(_, _)
ConstructorContractSlots(os, t) ==
    LET inherited == IF os[t].base = 0 THEN <<>>
                     ELSE LET slots == ConstructorContractSlots(os, os[t].base)
                          IN  [i \in DOMAIN slots |-> FindConstructorMatchingSignature(os, t, slots[i])]
    IN  inherited \o SelectSeq(os[t].creates, LAMBDA sig : sig \notin ToSet(inherited))

SupportsConstructorContractFrom(os, t, base) ==
    \A sig \in ToSet(ConstructorContractSlots(os, base)) : FindConstructorMatchingSignature(os, t, sig) # NoConstructor

(* OTypeObjectTypeRef::AnalyzeConversion: T may be stored in a "type of S" *)
Storable(os, t, s) ==
    ~os[t].abstract /\ s \in ToSet(Lineage(os, t)) /\ SupportsConstructorContractFrom(os, t, s)

(* FindConstructorContractSlot, for the constructor the arguments choose   *)
(* in the static type, and what stands there in the stored one.            *)
FindConstructorContractSlot(os, s, sig) ==
    Min({i \in DOMAIN ConstructorContractSlots(os, s) : ConstructorContractSlots(os, s)[i] = sig})
Constructed(os, t, s, sig) == ConstructorContractSlots(os, t)[FindConstructorContractSlot(os, s, sig)]

(***************************************************************************)
(* Reading the types.                                                      *)
(***************************************************************************)
DeclareForward ==
    /\ current = 0 /\ imported = <<>> /\ Len(objects) < MaxTypes
    /\ objects' = Append(objects, NewObject)
    /\ UNCHANGED <<current, finished, imported>>

(* BeginCompoundDecl: the base is any type that has been named. A type     *)
(* among its own bases keeps the compiler busy forever.                    *)
BeginObject ==
    /\ current = 0 /\ imported = <<>>
    /\ \E t \in (DeclaredTypes \ Finished) \cup (IF Len(objects) < MaxTypes THEN {Len(objects) + 1} ELSE {}),
          base \in {0} \cup (IF "base not defined" \in Unusual THEN DeclaredTypes ELSE Finished) :
         /\ base # 0 => t \notin ToSet(Lineage(objects, base))
         /\ objects' = [i \in DeclaredTypes \cup {t} |-> IF i = t THEN [NewObject EXCEPT !.base = base] ELSE objects[i]]
         /\ current' = t
    /\ UNCHANGED <<finished, imported>>

(* ValidateFunctionDecl *)
AttributesFit(t, m) ==
    LET base == FindVirtualBaseMethod(objects, t, m)
    IN  /\ "override" \in m.attrs <=> base # NoFunction
        /\ base # NoFunction => ~Has(objects, base, "final")
        /\ "abstract" \in m.attrs => m.attrs \cap {"virtual", "override"} # {}
Known(m) == [m EXCEPT !.attrs = IF "override" \in @ THEN @ \cup {"virtual"} ELSE @]
SameMethod(t, m) == {i \in DOMAIN objects[t].methods : objects[t].methods[i].name = m.name /\ objects[t].methods[i].sig = m.sig}
Members(t) == Len(objects[t].methods) + Len(objects[t].creates)

DeclareMethod ==
    /\ current # 0 /\ Members(current) < MaxMembers
    /\ \E m \in Methods :
         /\ AttributesFit(current, m) /\ SameMethod(current, m) = {}
         /\ objects' = [objects EXCEPT ![current].methods = Append(@, Known(m))]
    /\ UNCHANGED <<current, finished, imported>>

DeclareConstructor ==
    /\ current # 0 /\ Members(current) < MaxMembers
    /\ \E sig \in Creates \ ToSet(objects[current].creates) : objects' = [objects EXCEPT ![current].creates = Append(@, sig)]
    /\ UNCHANGED <<current, finished, imported>>

(* A type without constructors gets those of its base, or one without      *)
(* parameters; there must be one for it to call.                           *)
WithConstructors ==
    LET o == objects[current]
    IN  IF o.creates # <<>> THEN objects
        ELSE [objects EXCEPT ![current].creates = IF o.base = 0 THEN << <<>> >> ELSE objects[o.base].creates]

Usual(os) ==
    LET o == os[current]
    IN  o.base # 0 => /\ o.polymorphic /\ "late table" \notin Unusual => os[o.base].polymorphic
                      /\ "skipped contract" \notin Unusual => SupportsConstructorContractFrom(os, current, o.base)

EndObject ==
    /\ current # 0 /\ WithConstructors[current].creates # <<>>
    /\ objects' = UpdateObjectInheritanceFlags(WithConstructors, current)
    /\ Usual(objects')
    /\ finished' = Append(finished, current) /\ current' = 0
    /\ UNCHANGED imported

MergeForwardDeclFrom(m, other) == [m EXCEPT !.attrs = @ \cup other.attrs, !.open = FALSE]

(* ParseQualifiedObjectFunction: the body of an open method, which adds    *)
(* its attributes to those of the declaration, or another method of the    *)
(* type. The tables are not made again.                                    *)
DefineOutside ==
    /\ current = 0 /\ imported = <<>>
    /\ \E t \in Finished, m \in Methods :
         /\ ~m.open /\ "abstract" \notin m.attrs /\ AttributesFit(t, m)
         /\ \/ /\ SameMethod(t, m) = {} /\ "outside method" \in Unusual
               /\ objects' = [objects EXCEPT ![t].methods = Append(@, Known(m))]
            \/ \E i \in SameMethod(t, m) :
                 /\ objects[t].methods[i].open
                 /\ objects[t].methods[i].attrs = Known(m).attrs \/ "outside attributes" \in Unusual
                 /\ objects' = [objects EXCEPT ![t].methods[i] = MergeForwardDeclFrom(@, Known(m))]
    /\ UNCHANGED <<current, finished, imported>>

(* Another module reads the types from the interface and makes its own     *)
(* tables of them (ReadCompoundDecl).                                      *)
Import ==
    /\ current = 0 /\ imported = <<>> /\ Finished = DeclaredTypes /\ objects # <<>>
    /\ \A t \in DeclaredTypes : \A m \in ToSet(objects[t].methods) : ~m.open
    /\ imported' = FoldLeft(UpdateObjectInheritanceFlags, [t \in DeclaredTypes |-> [objects[t] EXCEPT !.slots = <<>>]], finished)
    /\ UNCHANGED <<objects, current, finished>>

TypesInit == objects = <<>> /\ current = 0 /\ finished = <<>> /\ imported = <<>>

TypesNext ==
    \/ DeclareForward \/ BeginObject \/ DeclareMethod \/ DeclareConstructor \/ EndObject \/ DefineOutside \/ Import

-----------------------------------------------------------------------------
ObjectTypesOK ==
    /\ current \in 0..Len(objects) /\ Finished \subseteq DeclaredTypes /\ Len(imported) \in {0, Len(objects)}
    /\ \A t \in DeclaredTypes : objects[t].base \in {0} \cup DeclaredTypes /\ ToSet(objects[t].slots) \subseteq DeclaredTypes \X (1..MaxMembers)

(* A virtual call through any base "inspects the actual object" and runs   *)
(* the version of the type nearest to it (120-objects-and-properties.md:   *)
(* 679), in the module of the type and in others.                          *)
DispatchesOf(os) ==
    \A t \in {t \in Finished : ~os[t].abstract} : \A o \in ToSet(Lineage(os, t)) : \A i \in DOMAIN os[o].methods :
      "virtual" \in os[o].methods[i].attrs => Called(os, t, <<o, i>>) = Matching(os, Lineage(os, t), os[o].methods[i])
DispatchAsDocumented == DispatchesOf(objects) /\ (imported # <<>> => DispatchesOf(imported))

(* A caller and the tables it goes through may be made by different        *)
(* compilers: they number the slots alike (otype_compound.cpp:536).        *)
ImportersAgree == imported # <<>> => imported = objects

(* "Calling new on the type variable constructs an object of whichever     *)
(* type was stored in it", with the constructor of these parameters        *)
(* (:857), also where the type has gone through a variable of another      *)
(* type.                                                                   *)
FactoriesConstruct ==
    \A t, m, s \in Finished :
      Storable(objects, t, m) /\ Storable(objects, m, s) =>
        \A sig \in ToSet(objects[s].creates) : Constructed(objects, t, s, sig) = sig

(* Every object of a type with a table has a place for it: it is in the    *)
(* first of the bases (GenerateFunctionCall).                              *)
TableHasPlace == \A t \in Finished : objects[t].polymorphic => objects[Last(Lineage(objects, t))].polymorphic
=============================================================================
