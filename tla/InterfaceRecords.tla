-------------------------- MODULE InterfaceRecords --------------------------
(***************************************************************************)
(* The records of an interface file: what the compiler writes for a        *)
(* declaration and what a later compiler reads back                        *)
(* (compiler/ast/dqm_if.cpp, symbols.cpp, module_intf.cpp and the writers  *)
(* of types/).  A record is a tag with at most one value; groups are       *)
(* closed by an end record.  A module that is already known in part skips  *)
(* the declarations it has.  The file itself carries two byte sums.        *)
(***************************************************************************)
EXTENDS Naturals, Sequences, FiniteSets, SequencesExt

CONSTANTS ModuleTexts,   \* the sequences of declarations a module may have
          TypeNames      \* the named types a reader can resolve

VARIABLES source,     \* the declarations that were written
          known,      \* the names the reading module already has
          records, at,\* the file and the reader's position
          scope,      \* what was read: the declarations in order
          failed      \* the reader has refused the file

recordVars == <<source, known, records, at, scope, failed>>

Rec(t)      == [tag |-> t]
Str(t, s)   == [tag |-> t, str |-> s]
Num(t, n)   == [tag |-> t, num |-> n]

-----------------------------------------------------------------------------
(* Writing (WriteDqmIf...).  Type: [kind] with ref, base, length or sig;    *)
(* signature: [ret, params, varargs]; parameter: [name, mode, type, value]. *)
Wrapping == {"ptr", "array", "slice", "dynarray", "autofree"}
BeginTag  == [k \in {"array", "slice", "dynarray", "autofree"} |-> k \o "_begin"]
CloseTag  == [k \in {"array", "slice", "dynarray", "autofree"} |-> k \o "_end"]

RECURSIVE WriteInner(_), WriteSignature(_)
WriteInner(t) ==
  CASE t.kind = "named"    -> <<Str("spec_name", t.ref)>>
    [] t.kind = "objtype"  -> <<Str("spec_objtype", t.ref)>>
    [] t.kind = "ptr"      -> <<Rec("ptr")>> \o WriteInner(t.base)
    [] t.kind = "array"    -> <<Num("array_begin", t.length)>> \o WriteInner(t.base) \o <<Rec("array_end")>>
    [] t.kind = "funcref"  -> <<Rec(IF t.ofobject THEN "objfuncref" ELSE "funcref")>>
                              \o WriteSignature(t.sig) \o <<Rec("spec_end")>>
    [] OTHER               -> <<Rec(BeginTag[t.kind])>> \o WriteInner(t.base) \o <<Rec(CloseTag[t.kind])>>

(* WriteDqmIfTypeSpec: what is not just a name stands between begin and end.*)
WriteSpec(t) == IF t.kind \in Wrapping \cup {"objtype"}
                THEN <<Rec("spec_begin")>> \o WriteInner(t) \o <<Rec("spec_end")>>
                ELSE WriteInner(t)

(* WriteDqmIfValue: an aggregate is only in the object file.                *)
WriteValue(v) ==
  CASE v.form = "none"   -> <<>>
    [] v.form = "stored" -> <<Rec("value_linked")>>
    [] v.form = "text"   -> <<Str("value_text", v.text)>>
    [] OTHER             -> <<Num("value_inline", v.num)>>

WriteParam(p) == <<Str("param_begin", p.name)>>
                 \o (IF p.mode = "value" THEN <<>> ELSE <<Rec(p.mode)>>)
                 \o WriteSpec(p.type) \o WriteValue(p.value) \o <<Rec("param_end")>>

WriteSignature(s) ==
  (IF s.ret.kind = "void" THEN <<>> ELSE <<Rec("retval")>> \o WriteSpec(s.ret))
  \o FlattenSeq([i \in DOMAIN s.params |-> WriteParam(s.params[i])])
  \o (IF s.varargs THEN <<Rec("varargs")>> ELSE <<>>)

WriteAttrs(a) == (IF a.flags = {} THEN <<>> ELSE <<[tag |-> "flags", set |-> a.flags]>>)
                 \o (IF a.align = 0 THEN <<>> ELSE <<Num("align", a.align)>>)
                 \o (IF a.link = "" THEN <<>> ELSE <<Str("link_name", a.link)>>)

WriteFunction(f, tag) ==
  <<Str(tag \o "_begin", f.name)>> \o WriteAttrs(f.attrs) \o WriteSignature(f.sig)
  \o (IF f.asm.body THEN <<Rec("asm_body"), [tag |-> "asm_kinds", kinds |-> f.asm.kinds]>> ELSE <<>>)
  \o <<Rec(tag \o "_end")>>

WriteField(f) == <<Str("field_begin", f.name)>> \o WriteAttrs(f.attrs) \o <<Num("offset", f.offset)>>
                 \o WriteSpec(f.type) \o <<Rec("field_end")>>

WriteProperty(p) ==
  <<Str("prop_begin", p.name)>>
  \o FlattenSeq([i \in DOMAIN p.indices |-> <<Str("index_begin", p.indices[i].name)>>
                   \o (IF p.indices[i].mode = "value" THEN <<>> ELSE <<Rec(p.indices[i].mode)>>)
                   \o WriteSpec(p.indices[i].type) \o <<Rec("index_end")>>])
  \o <<Rec("prop_type")>> \o WriteSpec(p.type)
  \o (IF p.read = "" THEN <<>> ELSE <<Str("prop_read", p.read)>>)
  \o (IF p.write = "" THEN <<>> ELSE <<Str("prop_write", p.write)>>) \o <<Rec("prop_end")>>

(* Fields, then methods in the order of their names, then properties.       *)
WriteCompound(d) ==
  <<Str("obj_begin", d.name), Num("size", d.size), Num("alignment", d.alignment)>>
  \o (IF d.base = "" THEN <<>> ELSE <<Str("obj_base", d.base)>>)
  \o FlattenSeq([i \in DOMAIN d.fields |-> WriteField(d.fields[i])])
  \o FlattenSeq([i \in DOMAIN d.methods |-> WriteFunction(d.methods[i], "method")])
  \o FlattenSeq([i \in DOMAIN d.props |-> WriteProperty(d.props[i])]) \o <<Rec("obj_end")>>

WriteDecl(d) ==
  CASE d.kind = "alias"   -> <<Str("type_begin", d.name)>> \o WriteSpec(d.type) \o <<Rec("type_end")>>
    [] d.kind = "enum"    -> <<Str("enum_begin", d.name)>> \o WriteSpec(d.type)
                             \o FlattenSeq([i \in DOMAIN d.items |->
                                  <<Str("item_name", d.items[i].name), Num("item_value", d.items[i].value)>>])
                             \o <<Rec("enum_end")>>
    [] d.kind = "const"   -> <<Str("const_begin", d.name)>> \o WriteAttrs(d.attrs) \o WriteSpec(d.type)
                             \o WriteValue(d.value) \o <<Rec("const_end")>>
    [] d.kind = "var"     -> <<Str("var_begin", d.name)>> \o WriteAttrs(d.attrs) \o WriteSpec(d.type)
                             \o <<Rec("var_end")>>
    [] d.kind = "func"    -> WriteFunction(d, "func")
    [] OTHER              -> WriteCompound(d)

-----------------------------------------------------------------------------
(* Reading.  A result is [ok, v, at]: the value and the position behind it. *)
Got(x, i)  == [ok |-> TRUE, v |-> x, at |-> i]
Bad        == [ok |-> FALSE]
Tag(i)     == IF i \in DOMAIN records THEN records[i].tag ELSE "eof"
IfRead(r, F(_)) == IF r.ok THEN F(r) ELSE Bad
Closed(r, tag) == IfRead(r, LAMBDA q : IF Tag(q.at) = tag THEN Got(q.v, q.at + 1) ELSE Bad)

Modes == {"ref", "refin", "refout", "refnil"}
NoValue == [form |-> "none"]
Void    == [kind |-> "void"]

(* ReadInlineValue: by the kind of the type; linked data has no content.    *)
ReadValue(i, type) ==
  CASE Tag(i) = "value_linked" -> Got([form |-> "stored"], i + 1)
    [] Tag(i) = "value_text"   -> Got([form |-> "text", text |-> records[i].str], i + 1)
    [] Tag(i) = "value_inline" -> IF type.kind \in {"named", "ptr"} \/ records[i].num = 0
                                  THEN Got([form |-> "inline", num |-> records[i].num], i + 1) ELSE Bad
    [] OTHER                   -> Bad

RECURSIVE ReadSpec(_), ReadSignature(_, _, _), ReadParam(_, _)

(* ReadTypeSpec, ReadTypeSpecInner and ReadFunctionRefTypeSpec.             *)
ReadSpec(i) ==
  CASE Tag(i) = "spec_name" ->
         IF records[i].str \in TypeNames THEN Got([kind |-> "named", ref |-> records[i].str], i + 1) ELSE Bad
    [] Tag(i) = "spec_objtype" ->
         IF records[i].str \in TypeNames THEN Got([kind |-> "objtype", ref |-> records[i].str], i + 1) ELSE Bad
    [] Tag(i) = "spec_begin" -> Closed(ReadSpec(i + 1), "spec_end")
    [] Tag(i) \in {"funcref", "objfuncref"} ->
         IfRead(ReadSignature(i + 1, [ret |-> Void, params |-> <<>>, varargs |-> FALSE], "spec_end"), LAMBDA r :
           Got([kind |-> "funcref", ofobject |-> Tag(i) = "objfuncref", sig |-> r.v], r.at + 1))
    [] Tag(i) = "ptr" -> IfRead(ReadSpec(i + 1), LAMBDA r : Got([kind |-> "ptr", base |-> r.v], r.at))
    [] Tag(i) = "array_begin" ->
         Closed(IfRead(ReadSpec(i + 1), LAMBDA r :
                  Got([kind |-> "array", length |-> records[i].num, base |-> r.v], r.at)), "array_end")
    [] \E k \in DOMAIN BeginTag \ {"array"} : Tag(i) = BeginTag[k] ->
         LET k == CHOOSE x \in DOMAIN BeginTag : Tag(i) = BeginTag[x]
         IN  Closed(IfRead(ReadSpec(i + 1), LAMBDA r : Got([kind |-> k, base |-> r.v], r.at)), CloseTag[k])
    [] OTHER -> Bad

SpecTags == {"spec_name", "spec_objtype", "spec_begin", "funcref", "objfuncref", "ptr"}
            \cup {BeginTag[k] : k \in DOMAIN BeginTag}

(* ReadFunctionParam: its records in any order, but the type before a value.*)
ReadParam(i, p) ==
  CASE Tag(i) = "param_end" -> IF p.type = Void THEN Bad ELSE Got(p, i + 1)
    [] Tag(i) \in Modes     -> ReadParam(i + 1, [p EXCEPT !.mode = Tag(i)])
    [] Tag(i) \in SpecTags  -> IfRead(ReadSpec(i), LAMBDA r : ReadParam(r.at, [p EXCEPT !.type = r.v]))
    [] OTHER -> IF p.type = Void THEN Bad
                ELSE IfRead(ReadValue(i, p.type), LAMBDA r : ReadParam(r.at, [p EXCEPT !.value = r.v]))

(* The signature records up to the end tag, or to a record it leaves alone. *)
ReadSignature(i, s, end) ==
  CASE Tag(i) = "retval"      -> IfRead(ReadSpec(i + 1), LAMBDA r : ReadSignature(r.at, [s EXCEPT !.ret = r.v], end))
    [] Tag(i) = "param_begin" ->
         IfRead(ReadParam(i + 1, [name |-> records[i].str, mode |-> "value", type |-> Void, value |-> NoValue]),
              LAMBDA r : ReadSignature(r.at, [s EXCEPT !.params = Append(@, r.v)], end))
    [] Tag(i) = "varargs"     -> ReadSignature(i + 1, [s EXCEPT !.varargs = TRUE], end)
    [] Tag(i) \in {end, "asm_body"} -> Got(s, i)
    [] OTHER -> Bad

(* ReadAttributes, ApplyDqmIfAttributes.                                    *)
RECURSIVE ReadAttrs(_, _)
ReadAttrs(i, a) ==
  CASE Tag(i) = "flags"     -> ReadAttrs(i + 1, [a EXCEPT !.flags = records[i].set])
    [] Tag(i) = "align"     -> ReadAttrs(i + 1, [a EXCEPT !.align = records[i].num])
    [] Tag(i) = "link_name" -> ReadAttrs(i + 1, [a EXCEPT !.link = records[i].str])
    [] OTHER                -> Got(a, i)
Attrs(i) == ReadAttrs(i, [flags |-> {}, align |-> 0, link |-> ""])

(* ReadFunctionDecl; inline assembly needs its operand kinds, one for each  *)
(* parameter, the inline attribute, and no receiver.                        *)
ReadFunction(i, tag) ==
  IfRead(Attrs(i + 1), LAMBDA a :
    IfRead(ReadSignature(a.at, [ret |-> Void, params |-> <<>>, varargs |-> FALSE], tag \o "_end"), LAMBDA s :
      LET body == Tag(s.at) = "asm_body"
          told == body /\ Tag(s.at + 1) = "asm_kinds"
          asm  == [body |-> body, kinds |-> IF told THEN records[s.at + 1].kinds ELSE <<>>]
          fine == told /\ tag = "func" /\ "inline" \in a.v.flags /\ Len(asm.kinds) = Len(s.v.params)
      IN  Closed(IF body /\ ~fine THEN Bad
                 ELSE Got([kind |-> "func", name |-> records[i].str, attrs |-> a.v, sig |-> s.v, asm |-> asm],
                          IF body THEN s.at + 2 ELSE s.at), tag \o "_end")))

ReadField(i) ==
  IfRead(Attrs(i + 1), LAMBDA a :
    IF Tag(a.at) # "offset" THEN Bad
    ELSE Closed(IfRead(ReadSpec(a.at + 1), LAMBDA t :
           Got([name |-> records[i].str, attrs |-> a.v, offset |-> records[a.at].num, type |-> t.v], t.at)),
         "field_end"))

RECURSIVE ReadProperty(_, _)
ReadProperty(i, p) ==
  CASE Tag(i) = "prop_end"    -> IF p.type = Void \/ (p.read = "" /\ p.write = "") THEN Bad ELSE Got(p, i + 1)
    [] Tag(i) = "prop_type"   -> IfRead(ReadSpec(i + 1), LAMBDA r : ReadProperty(r.at, [p EXCEPT !.type = r.v]))
    [] Tag(i) = "prop_read"   -> ReadProperty(i + 1, [p EXCEPT !.read = records[i].str])
    [] Tag(i) = "prop_write"  -> ReadProperty(i + 1, [p EXCEPT !.write = records[i].str])
    [] Tag(i) = "index_begin" ->
         LET moded == Tag(i + 1) \in Modes
             first == IF moded THEN i + 2 ELSE i + 1
         IN  IfRead(Closed(ReadSpec(first), "index_end"), LAMBDA r :
               ReadProperty(r.at, [p EXCEPT !.indices = Append(@,
                 [name |-> records[i].str, mode |-> IF moded THEN Tag(i + 1) ELSE "value", type |-> r.v])]))
    [] OTHER -> Bad

(* ReadCompoundDecl.  An accessor must be a member that was read before.    *)
Members(d) == {d.fields[i].name : i \in DOMAIN d.fields} \cup {d.methods[i].name : i \in DOMAIN d.methods}

RECURSIVE ReadCompound(_, _)
ReadCompound(i, d) ==
  CASE Tag(i) = "obj_end"      -> IF d.alignment = 0 THEN Bad ELSE Got(d, i + 1)
    [] Tag(i) = "size"         -> ReadCompound(i + 1, [d EXCEPT !.size = records[i].num])
    [] Tag(i) = "alignment"    -> IF d.alignment # 0 THEN Bad
                                  ELSE ReadCompound(i + 1, [d EXCEPT !.alignment = records[i].num])
    [] Tag(i) = "obj_base"     -> IF records[i].str \notin TypeNames THEN Bad
                                  ELSE ReadCompound(i + 1, [d EXCEPT !.base = records[i].str])
    [] Tag(i) = "field_begin"  -> IfRead(ReadField(i), LAMBDA r :
                                    ReadCompound(r.at, [d EXCEPT !.fields = Append(@, r.v)]))
    [] Tag(i) = "method_begin" -> IfRead(ReadFunction(i, "method"), LAMBDA r :
                                    ReadCompound(r.at, [d EXCEPT !.methods = Append(@, r.v)]))
    [] Tag(i) = "prop_begin"   ->
         IfRead(ReadProperty(i + 1, [name |-> records[i].str, indices |-> <<>>, type |-> Void,
                                   read |-> "", write |-> ""]), LAMBDA r :
           IF {r.v.read, r.v.write} \ {""} \subseteq Members(d)
           THEN ReadCompound(r.at, [d EXCEPT !.props = Append(@, r.v)]) ELSE Bad)
    [] OTHER -> Bad

RECURSIVE ReadItems(_, _)
ReadItems(i, items) ==
  IF Tag(i) # "item_name" THEN Got(items, i)
  ELSE IF Tag(i + 1) # "item_value" THEN Bad
  ELSE ReadItems(i + 2, Append(items, [name |-> records[i].str, value |-> records[i + 1].num]))

ReadTyped(i, kind, end) ==
  IfRead(Attrs(i + 1), LAMBDA a : IfRead(ReadSpec(a.at), LAMBDA t :
    Closed(IF kind = "var"
           THEN Got([kind |-> kind, name |-> records[i].str, attrs |-> a.v, type |-> t.v], t.at)
           ELSE IfRead(ReadValue(t.at, t.v), LAMBDA w :
                  Got([kind |-> kind, name |-> records[i].str, attrs |-> a.v, type |-> t.v, value |-> w.v], w.at)),
           end)))

(* One declaration of the file (the branches of ReadDqmIfRecords).          *)
ReadDecl(i) ==
  CASE Tag(i) = "type_begin"  -> Closed(IfRead(ReadSpec(i + 1), LAMBDA t :
                                   Got([kind |-> "alias", name |-> records[i].str, type |-> t.v], t.at)), "type_end")
    [] Tag(i) = "enum_begin"  -> Closed(IfRead(ReadSpec(i + 1), LAMBDA t : IfRead(ReadItems(t.at, <<>>), LAMBDA e :
                                   Got([kind |-> "enum", name |-> records[i].str, type |-> t.v, items |-> e.v], e.at))),
                                   "enum_end")
    [] Tag(i) = "const_begin" -> ReadTyped(i, "const", "const_end")
    [] Tag(i) = "var_begin"   -> ReadTyped(i, "var", "var_end")
    [] Tag(i) = "func_begin"  -> ReadFunction(i, "func")
    [] Tag(i) = "obj_begin"   -> ReadCompound(i + 1, [kind |-> "object", name |-> records[i].str, size |-> 0,
                                   alignment |-> 0, base |-> "", fields |-> <<>>, methods |-> <<>>, props |-> <<>>])
    [] OTHER -> Bad

(* Mutant: to the first end record, of whatever group.                    *)
SkipToAnyEnd(i, depth, tag) ==
  LET ends == {j \in i..Len(records) : Tag(j) \in {"type_end", "enum_end", "const_end", "var_end", "func_end",
                                                   "obj_end", "method_end", "field_end"}}
  IN  1 + CHOOSE j \in ends : \A k \in ends : j <= k

(* SkipGroup: to the end record of this group, counting groups of its kind. *)
EndTag == [t \in {"type_begin", "enum_begin", "const_begin", "var_begin", "func_begin", "obj_begin"} |->
            CASE t = "type_begin" -> "type_end" [] t = "enum_begin" -> "enum_end"
              [] t = "const_begin" -> "const_end" [] t = "var_begin" -> "var_end"
              [] t = "func_begin" -> "func_end" [] OTHER -> "obj_end"]
RECURSIVE SkipTo(_, _, _)
SkipTo(i, depth, tag) ==
  IF depth = 0 THEN i
  ELSE SkipTo(i + 1, CASE Tag(i) = tag -> depth + 1 [] Tag(i) = EndTag[tag] -> depth - 1 [] OTHER -> depth, tag)

-----------------------------------------------------------------------------
FileWritten == /\ known \in SUBSET {source[i].name : i \in DOMAIN source}
               /\ records = FlattenSeq([i \in DOMAIN source |-> WriteDecl(source[i])])
               /\ at = 1 /\ scope = <<>> /\ failed = FALSE

RecordInit == source \in ModuleTexts /\ FileWritten

(* ReadDqmIfRecords: the next declaration is read, or skipped.              *)
ReadNext ==
  /\ ~failed /\ at \in DOMAIN records
  /\ IF records[at].str \in known
     THEN at' = SkipTo(at + 1, 1, Tag(at)) /\ UNCHANGED <<scope, failed>>
     ELSE LET r == ReadDecl(at)
          IN  IF r.ok THEN at' = r.at /\ scope' = Append(scope, r.v) /\ UNCHANGED failed
              ELSE failed' = TRUE /\ UNCHANGED <<at, scope>>
  /\ UNCHANGED <<source, known, records>>

RecordNext == ReadNext

-----------------------------------------------------------------------------
RecordTypeOK == at \in 1..Len(records) + 1 /\ Len(scope) <= Len(source) /\ failed \in BOOLEAN

NewOnes == SelectSeq(source, LAMBDA d : d.name \notin known)

(* What a compiler wrote another one reads: every declaration comes back as *)
(* it was, in its order, except those the reader had already, which are     *)
(* skipped whole (OModuleIntf::ReadDqmIfRecords, ODqmIfReader::SkipGroup).  *)
RoundTrip == ~failed /\ IsPrefix(scope, NewOnes) /\ (at > Len(records) => scope = NewOnes)
=============================================================================
