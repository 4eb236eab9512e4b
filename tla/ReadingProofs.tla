---------------------------- MODULE ReadingProofs ----------------------------
(***************************************************************************)
(* What the run over the components that read texts checks, for every      *)
(* value of their constants.                                               *)
(*                                                                         *)
(* The parser of statements: as long as no error has been reported, a      *)
(* symbol that is marked as initialised has a value on every path to this  *)
(* point of the text, or is a hole.  That a block reverts the marks it     *)
(* made is right because the marks of different blocks are different ones, *)
(* each made by the innermost block that was open; that a closed if keeps  *)
(* the marks all of its branches made is right because they have a value   *)
(* at the end of each; and what is assigned when a block begins is also    *)
(* assigned in all blocks inside of it.                                    *)
(*                                                                         *)
(* The designators: a name that leads straight to storage that is not to   *)
(* be written is a constant or a refin parameter itself, and what an       *)
(* initialised name stands for has a value; each forbidden or unset part   *)
(* of the expression being parsed has its diagnostic.  A statement that is *)
(* accepted has looked at them, so what it binds keeps this.               *)
(*                                                                         *)
(* The composition: a behaviour takes the steps of one component only, and *)
(* keeps the inductive invariants of all.                                  *)
(***************************************************************************)
EXTENDS MCReading, FeederProofs

(* A brace if goes on with the same block after an else: what a branch     *)
(* assigned first stays in its list.                                       *)
Stale(b) == b.kind = "if" /\ "}" \in b.closers

Hidden(b) == b.first \cup (IF b.kind = "subfn" THEN b.outer ELSE {})

BlockKinds == {"func", "subfn", "if", "while", "for", "try", "except", "finally"}
BlockEnds ==
  {"}", "endfunc", "endsubfn", "endif", "elif", "else", "endwhile", "endfor", "except", "finally", "endtry"}
Blocks ==
  [kind : BlockKinds, closers : SUBSET BlockEnds, first : SUBSET Symbols, arms : Seq(SUBSET Symbols),
   else : BOOLEAN, parts : Nat, entry : SUBSET Symbols, ends : SUBSET Symbols, words : Nat, outer : SUBSET Symbols]

EndsWell(b) == b.kind = "if" => b.closers \in {{"}"}, {"endif", "elif", "else"}}

StackOK(bs) ==
  /\ bs \in Seq(Blocks)
  /\ \A i \in 1 .. Len(bs) : ((bs[i].kind = "func") <=> (i = 1)) /\ EndsWell(bs[i])

ParserType ==
  /\ StackOK(blocks)
  /\ initialized \subseteq Symbols /\ assigned \subseteq Symbols /\ unsafe \subseteq Symbols
  /\ length \in 0 .. MaxLength

(* What is marked has a value, or is a hole.                               *)
Marked(ini, asg, hol) == ini \subseteq asg \cup hol

(* What a block did not find assigned it has marked itself, or a block in it. *)
Owned(bs, ini, hol) ==
  \A i \in 2 .. Len(bs) : \A v \in ini :
    v \in bs[i].entry \cup hol \/ \E j \in i .. Len(bs) : v \in bs[j].first

Grown(bs, asg) ==
  \A i \in 1 .. Len(bs) :
    /\ bs[i].entry \subseteq asg /\ bs[i].entry \subseteq bs[i].ends
    /\ \A j \in i .. Len(bs) : bs[i].entry \subseteq bs[j].entry

(* Marks of different blocks are different ones.                           *)
Apart(bs, ini) ==
  \A i \in 1 .. Len(bs) : ~Stale(bs[i]) =>
    /\ bs[i].first \subseteq ini
    /\ \A j \in (i + 1) .. Len(bs) : bs[i].first \cap Hidden(bs[j]) = {}

Nested(bs, ini) ==
  \A i \in 1 .. Len(bs) : bs[i].kind = "subfn" =>
    /\ Symbols \ bs[i].outer \subseteq ini
    /\ \A j \in i .. Len(bs) : Hidden(bs[j]) \subseteq bs[i].outer

Branched(bs, hol) ==
  \A i \in 1 .. Len(bs) : bs[i].kind = "if" =>
    IF Stale(bs[i]) THEN ~bs[i].else
    ELSE \A v \in Symbols : (\A a \in DOMAIN bs[i].arms : v \in bs[i].arms[a]) => v \in bs[i].ends \cup hol

Tracked(bs, ini, asg, hol) ==
  /\ Marked(ini, asg, hol) /\ Owned(bs, ini, hol) /\ Grown(bs, asg)
  /\ Apart(bs, ini) /\ Nested(bs, ini) /\ Branched(bs, hol)

ParserIInv ==
  /\ ParserType /\ PendingIsExpected
  /\ errors = {} => Tracked(blocks, initialized, assigned, holes) /\ unsafe \subseteq holes

-----------------------------------------------------------------------------
(* How the stack of blocks changes.                                        *)
SameBelow(bs, cs, n) == \A i \in 1 .. n : cs[i] = bs[i]

LEMMA LongerKnown ==
  ASSUME NEW bs \in Seq(Blocks), NEW ini, NEW asg, NEW hol, NEW asg2, NEW hol2,
         Tracked(bs, ini, asg, hol), asg \subseteq asg2, hol \subseteq hol2
  PROVE  Tracked(bs, ini, asg2, hol2)
  <1>1. Marked(ini, asg2, hol2) /\ Owned(bs, ini, hol2) /\ Grown(bs, asg2)
    BY DEF Tracked, Marked, Owned, Grown
  <1>2. Branched(bs, hol2)
    BY DEF Tracked, Branched
  <1>3. QED
    BY <1>1, <1>2 DEF Tracked

(* Without the block at its top.                                           *)
Pops(bs, cs, b, ini, asg, hol, ini2, asg2, hol2) ==
  /\ bs \in Seq(Blocks) /\ cs \in Seq(Blocks) /\ Len(bs) >= 2 /\ Len(cs) = Len(bs) - 1
  /\ SameBelow(bs, cs, Len(cs)) /\ b \in Blocks /\ b = bs[Len(bs)]
  /\ ini \in SUBSET Symbols /\ ini2 \in SUBSET Symbols
  /\ Tracked(bs, ini, asg, hol) /\ hol \subseteq hol2 /\ ini2 \subseteq asg2 \cup hol2 /\ b.entry \subseteq asg2
  /\ \A v \in ini2 : (v \in ini /\ v \notin b.first) \/ v \in hol2 \/ Len(bs) = 2
  /\ ini \ Hidden(b) \subseteq ini2

LEMMA BlockPopped ==
  ASSUME NEW bs, NEW cs, NEW b, NEW ini, NEW asg, NEW hol, NEW ini2, NEW asg2, NEW hol2,
         Pops(bs, cs, b, ini, asg, hol, ini2, asg2, hol2)
  PROVE  Tracked(cs, ini2, asg2, hol2)
  <1> USE DEF Pops
  <1>n. Len(bs) \in Nat /\ Len(cs) \in Nat
    OBVIOUS
  <1>1. Owned(cs, ini2, hol2)
    <2> SUFFICES ASSUME NEW i \in 2 .. Len(cs), NEW v \in ini2, v \notin bs[i].entry \cup hol2
                 PROVE  \E j \in i .. Len(cs) : v \in bs[j].first
      BY <1>n DEF Owned, SameBelow
    <2>1. PICK j \in i .. Len(bs) : v \in bs[j].first
      BY <1>n DEF Tracked, Owned
    <2>2. QED
      BY <2>1, <1>n
  <1>2. Grown(cs, asg2)
    <2> SUFFICES ASSUME NEW i \in 1 .. Len(cs)
                 PROVE  /\ bs[i].entry \subseteq asg2 /\ bs[i].entry \subseteq bs[i].ends
                        /\ \A j \in i .. Len(cs) : bs[i].entry \subseteq bs[j].entry
      BY <1>n DEF Grown, SameBelow
    <2>1. bs[i].entry \subseteq bs[Len(bs)].entry
      BY <1>n DEF Tracked, Grown
    <2>2. QED
      BY <2>1, <1>n DEF Tracked, Grown
  <1>3. Apart(cs, ini2)
    <2> SUFFICES ASSUME NEW i \in 1 .. Len(cs), ~Stale(bs[i])
                 PROVE  /\ bs[i].first \subseteq ini2
                        /\ \A j \in (i + 1) .. Len(cs) : bs[i].first \cap Hidden(bs[j]) = {}
      BY <1>n DEF Apart, SameBelow
    <2>1. bs[i].first \cap Hidden(b) = {} /\ bs[i].first \subseteq ini
      BY <1>n DEF Tracked, Apart
    <2>2. QED
      BY <2>1, <1>n DEF Tracked, Apart
  <1>4. Nested(cs, ini2)
    <2> SUFFICES ASSUME NEW i \in 1 .. Len(cs), bs[i].kind = "subfn"
                 PROVE  /\ Symbols \ bs[i].outer \subseteq ini2
                        /\ \A j \in i .. Len(cs) : Hidden(bs[j]) \subseteq bs[i].outer
      BY <1>n DEF Nested, SameBelow
    <2>1. Hidden(b) \subseteq bs[i].outer /\ Symbols \ bs[i].outer \subseteq ini
      BY <1>n DEF Tracked, Nested
    <2>2. QED
      BY <2>1, <1>n DEF Tracked, Nested
  <1>5. Branched(cs, hol2)
    BY <1>n DEF Tracked, Branched, SameBelow
  <1>6. QED
    BY <1>1, <1>2, <1>3, <1>4, <1>5 DEF Tracked, Marked

(* With another block at its top.                                          *)
Replaces(bs, cs, b, c, ini, asg, hol, ini2, asg2, hol2) ==
  /\ bs \in Seq(Blocks) /\ cs \in Seq(Blocks) /\ Len(bs) >= 1 /\ Len(cs) = Len(bs)
  /\ SameBelow(bs, cs, Len(bs) - 1) /\ b \in Blocks /\ b = bs[Len(bs)] /\ c \in Blocks /\ c = cs[Len(bs)]
  /\ ini \in SUBSET Symbols /\ ini2 \in SUBSET Symbols
  /\ Tracked(bs, ini, asg, hol) /\ hol \subseteq hol2 /\ ini2 \subseteq asg2 \cup hol2
  /\ c.entry = b.entry /\ c.entry \subseteq asg2 /\ c.entry \subseteq c.ends
  /\ ((c.kind = "subfn") <=> (b.kind = "subfn")) /\ c.outer = b.outer
  /\ \A v \in ini2 : (v \in ini /\ v \notin b.first) \/ v \in hol2 \/ v \in c.first
  /\ ini \ Hidden(b) \subseteq ini2
  /\ c.first \subseteq b.first \cup (Symbols \ ini)
  /\ ~Stale(c) => c.first \subseteq ini2
  /\ c.kind = "if" =>
       IF Stale(c) THEN ~c.else
       ELSE \A v \in Symbols : (\A a \in DOMAIN c.arms : v \in c.arms[a]) => v \in c.ends \cup hol2

LEMMA BlockReplaced ==
  ASSUME NEW bs, NEW cs, NEW b, NEW c, NEW ini, NEW asg, NEW hol, NEW ini2, NEW asg2, NEW hol2,
         Replaces(bs, cs, b, c, ini, asg, hol, ini2, asg2, hol2)
  PROVE  Tracked(cs, ini2, asg2, hol2)
  <1> USE DEF Replaces
  <1>n. Len(bs) \in Nat /\ \A i \in 1 .. Len(bs) : i # Len(bs) => i \in 1 .. Len(bs) - 1 /\ cs[i] = bs[i]
    BY DEF SameBelow
  <1>1. Owned(cs, ini2, hol2)
    <2> SUFFICES ASSUME NEW i \in 2 .. Len(bs), NEW v \in ini2, v \notin cs[i].entry \cup hol2, v \notin c.first
                 PROVE  \E j \in i .. Len(bs) : v \in cs[j].first
      BY <1>n DEF Owned
    <2>1. v \in ini /\ v \notin b.first /\ v \notin bs[i].entry \cup hol
      BY <1>n
    <2>2. PICK j \in i .. Len(bs) : v \in bs[j].first
      BY <2>1, <1>n DEF Tracked, Owned
    <2>3. QED
      BY <2>1, <2>2, <1>n
  <1>2. Grown(cs, asg2)
    <2> SUFFICES ASSUME NEW i \in 1 .. Len(bs)
                 PROVE  /\ cs[i].entry \subseteq asg2 /\ cs[i].entry \subseteq cs[i].ends
                        /\ \A j \in i .. Len(bs) : cs[i].entry \subseteq cs[j].entry
      BY <1>n DEF Grown
    <2>0. \A j \in 1 .. Len(bs) : cs[j].entry = bs[j].entry
      BY <1>n
    <2>1. bs[i].entry \subseteq bs[Len(bs)].entry
      BY <1>n DEF Tracked, Grown
    <2>2. cs[i].entry \subseteq cs[i].ends
      BY <1>n DEF Tracked, Grown
    <2>3. QED
      BY <2>0, <2>1, <2>2, <1>n DEF Tracked, Grown
  <1>3. Apart(cs, ini2)
    <2> SUFFICES ASSUME NEW i \in 1 .. Len(bs), ~Stale(cs[i])
                 PROVE  /\ cs[i].first \subseteq ini2
                        /\ \A j \in (i + 1) .. Len(bs) : cs[i].first \cap Hidden(cs[j]) = {}
      BY <1>n DEF Apart
    <2>1. CASE i = Len(bs)
      BY <2>1, <1>n
    <2>2. CASE i # Len(bs)
      <3>1. bs[i].first \cap Hidden(b) = {} /\ bs[i].first \subseteq ini /\ cs[i] = bs[i]
        BY <2>2, <1>n DEF Tracked, Apart
      <3>2. bs[i].first \cap Hidden(c) = {}
        BY <3>1 DEF Hidden
      <3>3. ASSUME NEW j \in (i + 1) .. Len(bs)
            PROVE  cs[i].first \cap Hidden(cs[j]) = {}
        BY <3>1, <3>2, <2>2, <1>n DEF Tracked, Apart
      <3>4. QED
        BY <3>1, <3>3
    <2>3. QED
      BY <2>1, <2>2
  <1>4. Nested(cs, ini2)
    <2> SUFFICES ASSUME NEW i \in 1 .. Len(bs), cs[i].kind = "subfn"
                 PROVE  /\ Symbols \ cs[i].outer \subseteq ini2
                        /\ \A j \in i .. Len(bs) : Hidden(cs[j]) \subseteq cs[i].outer
      BY <1>n DEF Nested
    <2>0. cs[i].outer = bs[i].outer /\ bs[i].kind = "subfn"
      BY <1>n
    <2>1. Hidden(b) \subseteq bs[i].outer /\ Symbols \ bs[i].outer \subseteq ini
      BY <2>0, <1>n DEF Tracked, Nested
    <2>2. Hidden(c) \subseteq bs[i].outer
      BY <2>1 DEF Hidden
    <2>3. ASSUME NEW j \in i .. Len(bs)
          PROVE  Hidden(cs[j]) \subseteq cs[i].outer
      BY <2>0, <2>2, <1>n DEF Tracked, Nested
    <2>4. QED
      BY <2>0, <2>1, <2>3
  <1>5. Branched(cs, hol2)
    BY <1>n DEF Tracked, Branched
  <1>6. QED
    BY <1>1, <1>2, <1>3, <1>4, <1>5 DEF Tracked, Marked

(* With a block more.                                                      *)
Pushes(bs, cs, c, ini, asg, hol, ini2, asg2, hol2) ==
  /\ bs \in Seq(Blocks) /\ cs \in Seq(Blocks) /\ Len(cs) = Len(bs) + 1
  /\ SameBelow(bs, cs, Len(bs)) /\ c \in Blocks /\ c = cs[Len(cs)]
  /\ ini \in SUBSET Symbols /\ ini2 \in SUBSET Symbols
  /\ Tracked(bs, ini, asg, hol) /\ hol \subseteq hol2 /\ asg \subseteq asg2 /\ ini \subseteq ini2
  /\ ini2 \subseteq asg2 \cup hol2
  /\ \A v \in ini2 : v \in ini \/ v \in hol2 \/ v \in c.first \/ Len(bs) <= 1
  /\ asg \subseteq c.entry /\ c.entry \subseteq asg2 /\ c.entry \subseteq c.ends
  /\ ini2 \subseteq c.entry \cup hol2 \cup c.first
  /\ c.first \subseteq ini2 \ ini
  /\ c.kind = "subfn" => c.outer = Symbols \ ini /\ c.first = {}
  /\ c.kind = "if" => ~c.else /\ c.ends = Symbols

LEMMA BlockPushed ==
  ASSUME NEW bs, NEW cs, NEW c, NEW ini, NEW asg, NEW hol, NEW ini2, NEW asg2, NEW hol2,
         Pushes(bs, cs, c, ini, asg, hol, ini2, asg2, hol2)
  PROVE  Tracked(cs, ini2, asg2, hol2)
  <1> USE DEF Pushes
  <1>n. /\ Len(bs) \in Nat /\ Len(cs) \in Nat
        /\ \A i \in 1 .. Len(cs) : i # Len(cs) => i \in 1 .. Len(bs) /\ cs[i] = bs[i]
    BY DEF SameBelow
  <1>1. Owned(cs, ini2, hol2)
    <2> SUFFICES ASSUME NEW i \in 2 .. Len(cs), NEW v \in ini2, v \notin cs[i].entry \cup hol2, v \notin c.first
                 PROVE  \E j \in i .. Len(cs) : v \in cs[j].first
      BY <1>n DEF Owned
    <2>1. i # Len(cs) /\ v \in ini /\ v \notin bs[i].entry \cup hol
      BY <1>n
    <2>2. PICK j \in i .. Len(bs) : v \in bs[j].first
      BY <2>1, <1>n DEF Tracked, Owned
    <2>3. QED
      BY <2>2, <1>n
  <1>2. Grown(cs, asg2)
    <2> SUFFICES ASSUME NEW i \in 1 .. Len(cs)
                 PROVE  /\ cs[i].entry \subseteq asg2 /\ cs[i].entry \subseteq cs[i].ends
                        /\ \A j \in i .. Len(cs) : cs[i].entry \subseteq cs[j].entry
      BY <1>n DEF Grown
    <2>1. CASE i = Len(cs)
      BY <2>1, <1>n
    <2>2. CASE i # Len(cs)
      <3>1. cs[i] = bs[i] /\ bs[i].entry \subseteq asg /\ bs[i].entry \subseteq bs[i].ends
        BY <2>2, <1>n DEF Tracked, Grown
      <3>2. ASSUME NEW j \in i .. Len(cs)
            PROVE  cs[i].entry \subseteq cs[j].entry
        BY <3>1, <2>2, <1>n DEF Tracked, Grown
      <3>3. QED
        BY <3>1, <3>2
    <2>3. QED
      BY <2>1, <2>2
  <1>3. Apart(cs, ini2)
    <2> SUFFICES ASSUME NEW i \in 1 .. Len(cs), ~Stale(cs[i])
                 PROVE  /\ cs[i].first \subseteq ini2
                        /\ \A j \in (i + 1) .. Len(cs) : cs[i].first \cap Hidden(cs[j]) = {}
      BY <1>n DEF Apart
    <2>1. CASE i = Len(cs)
      BY <2>1, <1>n
    <2>2. CASE i # Len(cs)
      <3>1. cs[i] = bs[i] /\ bs[i].first \subseteq ini
        BY <2>2, <1>n DEF Tracked, Apart
      <3>2. bs[i].first \cap Hidden(c) = {}
        BY <3>1 DEF Hidden
      <3>3. ASSUME NEW j \in (i + 1) .. Len(cs)
            PROVE  cs[i].first \cap Hidden(cs[j]) = {}
        BY <3>1, <3>2, <2>2, <1>n DEF Tracked, Apart
      <3>4. QED
        BY <3>1, <3>3
    <2>3. QED
      BY <2>1, <2>2
  <1>4. Nested(cs, ini2)
    <2> SUFFICES ASSUME NEW i \in 1 .. Len(cs), cs[i].kind = "subfn"
                 PROVE  /\ Symbols \ cs[i].outer \subseteq ini2
                        /\ \A j \in i .. Len(cs) : Hidden(cs[j]) \subseteq cs[i].outer
      BY <1>n DEF Nested
    <2>1. CASE i = Len(cs)
      BY <2>1, <1>n DEF Hidden
    <2>2. CASE i # Len(cs)
      <3>1. cs[i] = bs[i] /\ Symbols \ bs[i].outer \subseteq ini
        BY <2>2, <1>n DEF Tracked, Nested
      <3>2. Hidden(c) \subseteq bs[i].outer
        BY <3>1 DEF Hidden, Blocks
      <3>3. ASSUME NEW j \in i .. Len(cs)
            PROVE  Hidden(cs[j]) \subseteq cs[i].outer
        BY <3>1, <3>2, <2>2, <1>n DEF Tracked, Nested
      <3>4. QED
        BY <3>1, <3>3
    <2>3. QED
      BY <2>1, <2>2
  <1>5. Branched(cs, hol2)
    BY <1>n DEF Tracked, Branched, Stale
  <1>6. QED
    BY <1>1, <1>2, <1>3, <1>4, <1>5 DEF Tracked, Marked

-----------------------------------------------------------------------------
LEMMA FrontFacts ==
  ASSUME NEW S, NEW q \in Seq(S), q # <<>>
  PROVE  /\ Front(q) \in Seq(S) /\ Len(Front(q)) = Len(q) - 1
         /\ \A i \in 1 .. Len(q) - 1 : Front(q)[i] = q[i]
  <1>1. Len(q) - 1 \in Nat /\ Len(q) - 1 <= Len(q) /\ Len(q) \in Nat
    OBVIOUS
  <1>2. ASSUME NEW k \in Nat, k <= Len(q)
        PROVE  /\ SubSeq(q, 1, k) \in Seq(S) /\ Len(SubSeq(q, 1, k)) = k
               /\ \A i \in 1 .. k : SubSeq(q, 1, k)[i] = q[i]
    BY <1>1, <1>2
  <1>3. QED
    BY <1>1, <1>2 DEF Front

LEMMA ReplacedFacts ==
  ASSUME NEW S, NEW q \in Seq(S), Len(q) >= 1, NEW c \in S, NEW cs, cs = [q EXCEPT ![Len(q)] = c]
  PROVE  /\ cs \in Seq(S) /\ Len(cs) = Len(q)
         /\ \A i \in 1 .. Len(q) - 1 : cs[i] = q[i]
         /\ cs[Len(q)] = c
  <1> DEFINE n == Len(q)
  <1>1. n \in 1 .. Len(q) /\ \A i \in 1 .. n - 1 : i \in 1 .. Len(q) /\ i # n
    OBVIOUS
  <1>2. cs = [q EXCEPT ![n] = c]
    OBVIOUS
  <1> HIDE DEF n
  <1>3. cs \in Seq(S) /\ Len(cs) = Len(q) /\ \A j \in 1 .. Len(q) : cs[j] = IF j = n THEN c ELSE q[j]
    BY <1>1, <1>2, ExceptSeq
  <1>4. QED
    BY <1>1, <1>3 DEF n

LEMMA PopStack ==
  ASSUME NEW bs, StackOK(bs), bs # <<>>
  PROVE  /\ StackOK(Front(bs)) /\ Front(bs) \in Seq(Blocks) /\ Len(Front(bs)) = Len(bs) - 1
         /\ SameBelow(bs, Front(bs), Len(Front(bs)))
         /\ bs \in Seq(Blocks) /\ Len(bs) \in Nat /\ Len(bs) >= 1 /\ bs[Len(bs)] \in Blocks
  <1>1. bs \in Seq(Blocks) /\ Len(bs) \in Nat /\ Len(bs) >= 1
    BY DEF StackOK
  <1>2. /\ Front(bs) \in Seq(Blocks) /\ Len(Front(bs)) = Len(bs) - 1
        /\ \A i \in 1 .. Len(bs) - 1 : Front(bs)[i] = bs[i]
    BY <1>1, FrontFacts
  <1>3. QED
    BY <1>1, <1>2 DEF StackOK, SameBelow

LEMMA PushStack ==
  ASSUME NEW bs, StackOK(bs), bs # <<>>, NEW c \in Blocks, c.kind # "func", EndsWell(c)
  PROVE  /\ StackOK(Append(bs, c)) /\ Append(bs, c) \in Seq(Blocks) /\ Len(Append(bs, c)) = Len(bs) + 1
         /\ SameBelow(bs, Append(bs, c), Len(bs)) /\ Append(bs, c)[Len(bs) + 1] = c
  <1>1. /\ Append(bs, c) \in Seq(Blocks) /\ Len(Append(bs, c)) = Len(bs) + 1 /\ Len(bs) >= 1
        /\ \A i \in 1 .. Len(bs) : Append(bs, c)[i] = bs[i]
        /\ Append(bs, c)[Len(bs) + 1] = c
    BY DEF StackOK
  <1>2. QED
    BY <1>1 DEF StackOK, SameBelow

LEMMA ReplaceStack ==
  ASSUME NEW bs, StackOK(bs), bs # <<>>, NEW c \in Blocks, EndsWell(c),
         (c.kind = "func") <=> (bs[Len(bs)].kind = "func")
  PROVE  /\ StackOK(Append(Front(bs), c)) /\ Append(Front(bs), c) \in Seq(Blocks)
         /\ Len(Append(Front(bs), c)) = Len(bs)
         /\ SameBelow(bs, Append(Front(bs), c), Len(bs) - 1) /\ Append(Front(bs), c)[Len(bs)] = c
  <1>0. bs \in Seq(Blocks) /\ Len(bs) \in Nat /\ Len(bs) >= 1
    BY DEF StackOK
  <1>1. /\ Front(bs) \in Seq(Blocks) /\ Len(Front(bs)) = Len(bs) - 1
        /\ \A i \in 1 .. Len(bs) - 1 : Front(bs)[i] = bs[i]
    BY PopStack DEF SameBelow
  <1>2. /\ Append(Front(bs), c) \in Seq(Blocks) /\ Len(Append(Front(bs), c)) = Len(bs)
        /\ \A i \in 1 .. Len(bs) - 1 : Append(Front(bs), c)[i] = bs[i]
        /\ Append(Front(bs), c)[Len(bs)] = c
    BY <1>0, <1>1
  <1>3. QED
    BY <1>0, <1>2 DEF StackOK, SameBelow

LEMMA SameKindStack ==
  ASSUME NEW bs, StackOK(bs), bs # <<>>, NEW c \in Blocks, c.kind = bs[Len(bs)].kind, c.closers = bs[Len(bs)].closers,
         NEW cs, cs = [bs EXCEPT ![Len(bs)] = c]
  PROVE  StackOK(cs) /\ cs \in Seq(Blocks) /\ Len(cs) = Len(bs) /\ SameBelow(bs, cs, Len(bs) - 1) /\ cs[Len(bs)] = c
  <1>1. bs \in Seq(Blocks) /\ Len(bs) \in Nat /\ Len(bs) >= 1
    BY DEF StackOK
  <1>2. cs \in Seq(Blocks) /\ Len(cs) = Len(bs) /\ (\A i \in 1 .. Len(bs) - 1 : cs[i] = bs[i]) /\ cs[Len(bs)] = c
    BY <1>1, ReplacedFacts
  <1>3. \A i \in 1 .. Len(cs) : cs[i].kind = bs[i].kind /\ cs[i].closers = bs[i].closers
    BY <1>1, <1>2
  <1>4. StackOK(cs)
    BY <1>2, <1>3 DEF StackOK, EndsWell
  <1>5. QED
    BY <1>2, <1>4 DEF SameBelow

LEMMA MarkStack ==
  ASSUME NEW bs, StackOK(bs), bs # <<>>, NEW v \in Symbols,
         NEW cs, cs = [bs EXCEPT ![Len(bs)].first = @ \cup {v}]
  PROVE  /\ StackOK(cs) /\ cs \in Seq(Blocks) /\ Len(cs) = Len(bs) /\ SameBelow(bs, cs, Len(bs) - 1)
         /\ cs[Len(bs)] = [bs[Len(bs)] EXCEPT !.first = @ \cup {v}] /\ cs[Len(bs)] \in Blocks
  <1>1. bs[Len(bs)] \in Blocks
    BY PopStack
  <1> DEFINE c == [bs[Len(bs)] EXCEPT !.first = @ \cup {v}]
  <1>2. c \in Blocks /\ c.kind = bs[Len(bs)].kind /\ c.closers = bs[Len(bs)].closers
    BY <1>1 DEF Blocks
  <1>3. cs = [bs EXCEPT ![Len(bs)] = c]
    OBVIOUS
  <1> HIDE DEF c
  <1>4. StackOK(cs) /\ cs \in Seq(Blocks) /\ Len(cs) = Len(bs) /\ SameBelow(bs, cs, Len(bs) - 1) /\ cs[Len(bs)] = c
    BY <1>2, <1>3, SameKindStack
  <1>5. QED
    BY <1>2, <1>4 DEF c

LEMMA NewBlockIsOne ==
  ASSUME NEW kind \in BlockKinds, NEW style, NEW entry \in SUBSET Symbols, NEW outer \in SUBSET Symbols
  PROVE  LET b == [NewBlock(kind, style, entry) EXCEPT !.outer = outer] IN
         /\ NewBlock(kind, style, entry) \in Blocks /\ b \in Blocks
         /\ EndsWell(NewBlock(kind, style, entry)) /\ EndsWell(b)
  <1>1. Closers(style, kind) \in SUBSET BlockEnds
    <2>1. ClosersOf(kind) \subseteq BlockEnds
      BY DEF ClosersOf, BlockKinds, BlockEnds
    <2>2. QED
      BY <2>1 DEF Closers, BlockEnds
  <1>2. kind = "if" => Closers(style, kind) \in {{"}"}, {"endif", "elif", "else"}}
    BY DEF Closers, ClosersOf
  <1>3. <<>> \in Seq(SUBSET Symbols)
    BY EmptySeq
  <1>4. NewBlock(kind, style, entry) \in Blocks
    BY <1>1, <1>3 DEF NewBlock, Blocks
  <1>5. [NewBlock(kind, style, entry) EXCEPT !.outer = outer] \in Blocks
    BY <1>4 DEF Blocks
  <1>6. QED
    BY <1>2, <1>4, <1>5 DEF NewBlock, EndsWell

-----------------------------------------------------------------------------
(* Blocks that change.                                                     *)
LEMMA BlockCounts ==
  ASSUME NEW b \in Blocks
  PROVE  b.words \in Nat /\ b.words + 1 \in Nat /\ b.parts + 1 \in Nat
  BY DEF Blocks

LEMMA ElseBelongs ==
  ASSUME NEW b, EndsWell(b), b.kind = "if", NEW word \in b.closers, word \in {"else", "elif"}
  PROVE  b.closers = {"endif", "elif", "else"} /\ ~Stale(b)
  BY DEF EndsWell, Stale

(* What is known of the block at the top.                                  *)
TopHolds ==
  /\ blocks \in Seq(Blocks) /\ Len(blocks) \in Nat /\ Len(blocks) >= 1 /\ Top \in Blocks
  /\ EndsWell(Top) /\ (Top.kind # "func" => Len(blocks) >= 2) /\ (Len(blocks) >= 2 => Top.kind # "func")
  /\ Top.kind \in BlockKinds /\ Top.closers \subseteq BlockEnds
  /\ Top.arms \in Seq(SUBSET Symbols) /\ Top.first \subseteq Symbols /\ Top.outer \subseteq Symbols
  /\ Top.ends \subseteq Symbols /\ Top.entry \subseteq Symbols

LEMMA TopOf ==
  ASSUME NEW bs, StackOK(bs), bs # <<>>, NEW n, n = Len(bs), NEW t, t = bs[n]
  PROVE  /\ bs \in Seq(Blocks) /\ n \in Nat /\ n >= 1 /\ t \in Blocks /\ EndsWell(t)
         /\ (t.kind # "func" => n >= 2) /\ (n >= 2 => t.kind # "func")
  <1>1. bs \in Seq(Blocks) /\ n \in Nat /\ n >= 1
    BY DEF StackOK
  <1>2. t \in Blocks
    BY <1>1
  <1>3. n \in 1 .. Len(bs)
    BY <1>1
  <1>4. EndsWell(t) /\ ((t.kind = "func") <=> (n = 1))
    BY <1>3 DEF StackOK
  <1>5. n >= 2 <=> n # 1
    BY <1>1
  <1>6. QED
    BY <1>1, <1>2, <1>4, <1>5

LEMMA TopTyped ==
  ASSUME ParserType, blocks # <<>>
  PROVE  TopHolds
  <1>1. /\ blocks \in Seq(Blocks) /\ Len(blocks) \in Nat /\ Len(blocks) >= 1 /\ Top \in Blocks /\ EndsWell(Top)
        /\ (Top.kind # "func" => Len(blocks) >= 2) /\ (Len(blocks) >= 2 => Top.kind # "func")
    BY TopOf DEF ParserType, Top
  <1>2. QED
    BY <1>1 DEF TopHolds, Blocks

(* What is known there in a text without errors.                           *)
TopTracked ==
  /\ Top.entry \subseteq assigned /\ Top.entry \subseteq Top.ends
  /\ initialized \subseteq assigned \cup holes
  /\ Len(blocks) >= 2 => initialized \ Top.first \subseteq Top.entry \cup holes
  /\ ~Stale(Top) => Top.first \subseteq initialized
  /\ Top.kind = "subfn" => Top.first \subseteq Top.outer
  /\ Top.kind = "if" =>
       IF Stale(Top) THEN ~Top.else
       ELSE \A v \in Symbols : (\A a \in DOMAIN Top.arms : v \in Top.arms[a]) => v \in Top.ends \cup holes

LEMMA TopKnown ==
  ASSUME ParserType, blocks # <<>>, Tracked(blocks, initialized, assigned, holes)
  PROVE  TopTracked
  <1>1. TopHolds
    BY TopTyped
  <1> DEFINE n == Len(blocks)
  <1>2. n \in 1 .. Len(blocks) /\ n \in Nat /\ Top = blocks[n] /\ n .. Len(blocks) = {n}
    BY <1>1 DEF TopHolds, Top
  <1>3. n >= 2 => n \in 2 .. Len(blocks)
    BY <1>2
  <1> HIDE DEF n
  <1>4. Top.entry \subseteq assigned /\ Top.entry \subseteq Top.ends /\ initialized \subseteq assigned \cup holes
    BY <1>2 DEF Tracked, Grown, Marked
  <1>5. n >= 2 => initialized \ Top.first \subseteq Top.entry \cup holes
    BY <1>2, <1>3 DEF Tracked, Owned
  <1>6. ~Stale(Top) => Top.first \subseteq initialized
    BY <1>2 DEF Tracked, Apart
  <1>7. Top.kind = "subfn" => Top.first \subseteq Top.outer
    BY <1>2 DEF Tracked, Nested, Hidden
  <1>8. Top.kind = "if" =>
       IF Stale(Top) THEN ~Top.else
       ELSE \A v \in Symbols : (\A a \in DOMAIN Top.arms : v \in Top.arms[a]) => v \in Top.ends \cup holes
    BY <1>2 DEF Tracked, Branched
  <1>9. QED
    BY <1>4, <1>5, <1>6, <1>7, <1>8 DEF TopTracked, n

LEMMA PopKnown ==
  ASSUME ParserType, Len(blocks) >= 2, blocks # <<>>, Tracked(blocks, initialized, assigned, holes),
         NEW ini2 \in SUBSET Symbols, NEW asg2, NEW hol2,
         holes \subseteq hol2, ini2 \subseteq asg2 \cup hol2, Top.entry \subseteq asg2,
         \A v \in ini2 : (v \in initialized /\ v \notin Top.first) \/ v \in hol2 \/ Len(blocks) = 2,
         initialized \ Hidden(Top) \subseteq ini2
  PROVE  Tracked(Front(blocks), ini2, asg2, hol2)
  <1>1. StackOK(blocks) /\ initialized \in SUBSET Symbols
    BY DEF ParserType
  <1>2. /\ Front(blocks) \in Seq(Blocks) /\ Len(Front(blocks)) = Len(blocks) - 1
        /\ SameBelow(blocks, Front(blocks), Len(Front(blocks)))
    BY <1>1, PopStack
  <1>3. Top \in Blocks /\ Top = blocks[Len(blocks)] /\ blocks \in Seq(Blocks)
    BY TopTyped DEF TopHolds, Top
  <1>4. Pops(blocks, Front(blocks), Top, initialized, assigned, holes, ini2, asg2, hol2)
    BY <1>1, <1>2, <1>3 DEF Pops
  <1>5. QED
    BY <1>4, BlockPopped

LEMMA ReplaceKnown ==
  ASSUME ParserType, blocks # <<>>, Tracked(blocks, initialized, assigned, holes),
         NEW cs \in Seq(Blocks), Len(cs) = Len(blocks), SameBelow(blocks, cs, Len(blocks) - 1),
         NEW c \in Blocks, c = cs[Len(blocks)],
         NEW ini2 \in SUBSET Symbols, NEW asg2, NEW hol2,
         holes \subseteq hol2, ini2 \subseteq asg2 \cup hol2,
         c.entry = Top.entry, c.entry \subseteq asg2, c.entry \subseteq c.ends,
         (c.kind = "subfn") <=> (Top.kind = "subfn"), c.outer = Top.outer,
         \A v \in ini2 : (v \in initialized /\ v \notin Top.first) \/ v \in hol2 \/ v \in c.first,
         initialized \ Hidden(Top) \subseteq ini2,
         c.first \subseteq Top.first \cup (Symbols \ initialized),
         ~Stale(c) => c.first \subseteq ini2,
         c.kind = "if" =>
           IF Stale(c) THEN ~c.else
           ELSE \A v \in Symbols : (\A a \in DOMAIN c.arms : v \in c.arms[a]) => v \in c.ends \cup hol2
  PROVE  Tracked(cs, ini2, asg2, hol2)
  <1>1. initialized \in SUBSET Symbols
    BY DEF ParserType
  <1>3. Top \in Blocks /\ Top = blocks[Len(blocks)] /\ blocks \in Seq(Blocks) /\ Len(blocks) >= 1
    BY TopTyped DEF TopHolds, Top
  <1>4. Replaces(blocks, cs, Top, c, initialized, assigned, holes, ini2, asg2, hol2)
    BY <1>1, <1>3 DEF Replaces
  <1>5. QED
    BY <1>4, BlockReplaced

LEMMA PushKnown ==
  ASSUME ParserType, blocks # <<>>, Tracked(blocks, initialized, assigned, holes),
         NEW c \in Blocks, EndsWell(c), c.kind # "func",
         NEW ini2 \in SUBSET Symbols, NEW asg2, NEW hol2,
         holes \subseteq hol2, assigned \subseteq asg2, initialized \subseteq ini2, ini2 \subseteq asg2 \cup hol2,
         \A v \in ini2 : v \in initialized \/ v \in hol2 \/ v \in c.first \/ Len(blocks) <= 1,
         assigned \subseteq c.entry, c.entry \subseteq asg2, c.entry \subseteq c.ends,
         ini2 \subseteq c.entry \cup hol2 \cup c.first,
         c.first \subseteq ini2 \ initialized,
         c.kind = "subfn" => c.outer = Symbols \ initialized /\ c.first = {},
         c.kind = "if" => ~c.else /\ c.ends = Symbols
  PROVE  Tracked(Append(blocks, c), ini2, asg2, hol2)
  <1>1. StackOK(blocks) /\ initialized \in SUBSET Symbols /\ blocks \in Seq(Blocks)
    BY DEF ParserType, StackOK
  <1>2. /\ Append(blocks, c) \in Seq(Blocks) /\ Len(Append(blocks, c)) = Len(blocks) + 1
        /\ SameBelow(blocks, Append(blocks, c), Len(blocks)) /\ Append(blocks, c)[Len(blocks) + 1] = c
    BY <1>1, PushStack
  <1>3. c = Append(blocks, c)[Len(Append(blocks, c))]
    BY <1>1, <1>2
  <1>4. Pushes(blocks, Append(blocks, c), c, initialized, assigned, holes, ini2, asg2, hol2)
    BY <1>1, <1>2, <1>3 DEF Pushes
  <1>5. QED
    BY <1>4, BlockPushed

-----------------------------------------------------------------------------
(* The statements.                                                         *)
LEMMA ParserInitial == ParserInit => ParserIInv
  <1> SUFFICES ASSUME ParserInit PROVE ParserIInv
    OBVIOUS
  <1> DEFINE b == NewBlock("func", "colon", {})
  <1>1. b \in Blocks /\ EndsWell(b)
    BY NewBlockIsOne DEF BlockKinds
  <1>2. b.kind = "func" /\ b.entry = {} /\ b.first = {}
    BY DEF NewBlock
  <1> HIDE DEF b
  <1>3. blocks = <<b>> /\ initialized = {} /\ assigned = {} /\ unsafe = {} /\ holes = {}
    BY DEF ParserInit, b
  <1>4. blocks \in Seq(Blocks) /\ Len(blocks) = 1 /\ blocks[1] = b
    BY <1>1, <1>3
  <1>5. StackOK(blocks)
    BY <1>1, <1>2, <1>4 DEF StackOK
  <1>6. ParserType
    <2>1. length \in 0 .. MaxLength
      <3>1. length = 0
        BY DEF ParserInit
      <3>2. QED
        BY <3>1, ParserAssumption
    <2>2. QED
      BY <1>3, <1>5, <2>1 DEF ParserType
  <1>7. Tracked(blocks, {}, {}, {})
    BY <1>2, <1>4, <1>1 DEF Tracked, Marked, Owned, Grown, Apart, Nested, Branched
  <1>8. QED
    BY <1>3, <1>6, <1>7 DEF ParserIInv, PendingIsExpected, ParserInit

LEMMA ReadingTyped ==
  ASSUME ParserType, Reading
  PROVE  length' \in 0 .. MaxLength /\ blocks # <<>> /\ pending = ""
  <1>1. length \in 0 .. MaxLength
    BY DEF ParserType
  <1>2. length < MaxLength /\ length' = length + 1
    BY DEF Reading
  <1>3. length' \in 0 .. MaxLength
    BY <1>1, <1>2, ParserAssumption
  <1>4. QED
    BY <1>3 DEF Reading

LEMMA NothingHappens ==
  ASSUME ParserIInv, Reading, UNCHANGED <<blocks, initialized, pending, errors, assigned, unsafe, holes>>
  PROVE  ParserIInv'
  <1>1. length' \in 0 .. MaxLength /\ pending' = ""
    BY ReadingTyped DEF ParserIInv
  <1>2. ParserType'
    BY <1>1 DEF ParserIInv, ParserType
  <1>3. QED
    BY <1>1, <1>2 DEF ParserIInv, PendingIsExpected

(* A symbol that gets its mark at the top.                                 *)
LEMMA MarkTyped ==
  ASSUME ParserType, blocks # <<>>, NEW v \in Symbols
  PROVE  StackOK(FirstAssign(blocks, Len(blocks), v))
  <1>0. StackOK(blocks)
    BY DEF ParserType
  <1> DEFINE cs == [blocks EXCEPT ![Len(blocks)].first = @ \cup {v}]
  <1>1. StackOK(cs)
    <2>1. cs = [blocks EXCEPT ![Len(blocks)].first = @ \cup {v}]
      OBVIOUS
    <2> HIDE DEF cs
    <2>2. QED
      BY <1>0, <2>1, MarkStack
  <1>2. QED
    BY <1>0, <1>1 DEF FirstAssign

LEMMA MarkKnown ==
  ASSUME ParserType, blocks # <<>>, NEW v \in Symbols, NEW cs, cs = FirstAssign(blocks, Len(blocks), v),
         Tracked(blocks, initialized, assigned, holes), NEW asg2, NEW hol2,
         assigned \subseteq asg2, holes \subseteq hol2, v \in asg2 \cup hol2
  PROVE  Tracked(cs, initialized \cup {v}, asg2, hol2)
  <1>0. StackOK(blocks) /\ blocks \in Seq(Blocks)
    BY DEF ParserType, StackOK
  <1>1. CASE v \in initialized
    <2>1. cs = blocks /\ initialized \cup {v} = initialized
      BY <1>1 DEF FirstAssign
    <2>2. QED
      BY <1>0, <2>1, LongerKnown
  <1>2. CASE v \notin initialized
    <2>1. cs = [blocks EXCEPT ![Len(blocks)].first = @ \cup {v}]
      BY <1>2 DEF FirstAssign
    <2>2. /\ StackOK(cs) /\ cs \in Seq(Blocks) /\ Len(cs) = Len(blocks)
          /\ SameBelow(blocks, cs, Len(blocks) - 1)
          /\ cs[Len(blocks)] = [Top EXCEPT !.first = @ \cup {v}] /\ cs[Len(blocks)] \in Blocks
      BY <1>0, <2>1, MarkStack DEF Top
    <2> DEFINE c == [Top EXCEPT !.first = @ \cup {v}]
    <2>3. /\ c \in Blocks /\ c.entry = Top.entry /\ c.ends = Top.ends /\ c.kind = Top.kind /\ c.outer = Top.outer
          /\ c.first = Top.first \cup {v} /\ c.arms = Top.arms /\ c.else = Top.else /\ (Stale(c) <=> Stale(Top))
      BY <2>2, TopTyped DEF TopHolds, Blocks, Stale
    <2>4. cs[Len(blocks)] = c
      BY <2>2
    <2> HIDE DEF c
    <2>5. TopTracked
      BY TopKnown
    <2>6. initialized \cup {v} \in SUBSET Symbols
      BY DEF ParserType
    <2>7. /\ initialized \cup {v} \subseteq asg2 \cup hol2
          /\ c.entry \subseteq asg2 /\ c.entry \subseteq c.ends
          /\ \A w \in initialized \cup {v} :
               (w \in initialized /\ w \notin Top.first) \/ w \in hol2 \/ w \in c.first
          /\ initialized \ Hidden(Top) \subseteq initialized \cup {v}
          /\ c.first \subseteq Top.first \cup (Symbols \ initialized)
      BY <2>3, <2>5, <1>2 DEF TopTracked
    <2>8. ~Stale(c) => c.first \subseteq initialized \cup {v}
      BY <2>3, <2>5 DEF TopTracked
    <2>9. c.kind = "if" =>
            IF Stale(c) THEN ~c.else
            ELSE \A w \in Symbols : (\A a \in DOMAIN c.arms : w \in c.arms[a]) => w \in c.ends \cup hol2
      BY <2>3, <2>5 DEF TopTracked
    <2>10. QED
      BY <2>2, <2>3, <2>4, <2>6, <2>7, <2>8, <2>9, ReplaceKnown
  <1>3. QED
    BY <1>1, <1>2

LEMMA AssignKeeps ==
  ASSUME ParserIInv, NEW v \in Symbols, NEW guarded \in BOOLEAN, Assign(v, guarded)
  PROVE  ParserIInv'
  <1>1. Reading /\ ParserType /\ blocks # <<>> /\ length' \in 0 .. MaxLength /\ pending = ""
    BY ReadingTyped DEF Assign, ParserIInv
  <1>2. CASE Ignored
    BY <1>1, <1>2, NothingHappens DEF Ignored
  <1>3. CASE ~Ignored
    <2>1. /\ blocks' = FirstAssign(blocks, Len(blocks), v)
          /\ initialized' = initialized \cup {v}
          /\ assigned' = IF guarded THEN assigned ELSE assigned \cup {v}
          /\ holes' = IF guarded THEN holes \cup {v} ELSE holes
          /\ pending' = pending /\ errors' = errors /\ unsafe' = unsafe
      BY <1>3 DEF Assign
    <2>2. StackOK(blocks')
      BY <1>1, <2>1, MarkTyped
    <2>3. ParserType'
      BY <1>1, <2>1, <2>2 DEF ParserType
    <2>4. ASSUME errors' = {}
          PROVE  Tracked(blocks', initialized', assigned', holes') /\ unsafe' \subseteq holes'
      <3>1. Tracked(blocks, initialized, assigned, holes) /\ unsafe \subseteq holes
        BY <2>1, <2>4 DEF ParserIInv
      <3>2. assigned \subseteq assigned' /\ holes \subseteq holes' /\ v \in assigned' \cup holes'
        BY <2>1
      <3>3. Tracked(blocks', initialized \cup {v}, assigned', holes')
        BY <1>1, <2>1, <3>1, <3>2, MarkKnown
      <3>4. QED
        BY <2>1, <3>1, <3>2, <3>3
    <2>5. QED
      BY <1>1, <2>1, <2>3, <2>4 DEF ParserIInv, PendingIsExpected
  <1>4. QED
    BY <1>2, <1>3

LEMMA ReadKeeps ==
  ASSUME ParserIInv, NEW v \in Vars, Read(v)
  PROVE  ParserIInv'
  <1>1. Reading /\ ParserType /\ blocks # <<>> /\ length' \in 0 .. MaxLength /\ pending = ""
    BY ReadingTyped DEF Read, ParserIInv
  <1>2. CASE Ignored
    BY <1>1, <1>2, NothingHappens DEF Ignored
  <1>3. CASE ~Ignored
    <2>1. /\ IF v \in initialized THEN unsafe' = unsafe \cup ({v} \ assigned) /\ errors' = errors
             ELSE errors' = errors \cup {"VarNotInit"} /\ unsafe' = unsafe
          /\ blocks' = blocks /\ initialized' = initialized /\ pending' = pending
          /\ assigned' = assigned /\ holes' = holes
      BY <1>3 DEF Read, Tally
    <2>3. ParserType'
      BY <1>1, <2>1 DEF ParserType, Symbols
    <2>4. ASSUME errors' = {}
          PROVE  Tracked(blocks', initialized', assigned', holes') /\ unsafe' \subseteq holes'
      <3>1. Tracked(blocks, initialized, assigned, holes) /\ unsafe \subseteq holes
        BY <2>1, <2>4 DEF ParserIInv
      <3>2. QED
        BY <2>1, <2>4, <3>1 DEF Tracked, Marked
    <2>5. QED
      BY <1>1, <2>1, <2>3, <2>4 DEF ParserIInv, PendingIsExpected
  <1>4. QED
    BY <1>2, <1>3

LEMMA ReturnKeeps ==
  ASSUME ParserIInv, NEW value \in BOOLEAN, Return(value)
  PROVE  ParserIInv'
  <1>1. Reading /\ ParserType /\ blocks # <<>> /\ length' \in 0 .. MaxLength /\ pending = ""
    BY ReadingTyped DEF Return, ParserIInv
  <1>2. CASE Ignored
    BY <1>1, <1>2, NothingHappens DEF Ignored
  <1>r. "result" \in Symbols
    BY DEF Symbols
  <1>3. CASE ~Ignored /\ value
    <2>1. /\ blocks' = FirstAssign(blocks, Len(blocks), "result")
          /\ initialized' = initialized \cup {"result"} /\ assigned' = Symbols
          /\ pending' = pending /\ errors' = errors /\ unsafe' = unsafe /\ holes' = holes
      BY <1>3 DEF Return
    <2>2. StackOK(blocks')
      BY <1>1, <1>r, <2>1, MarkTyped
    <2>3. ParserType'
      BY <1>1, <1>r, <2>1, <2>2 DEF ParserType
    <2>4. ASSUME errors' = {}
          PROVE  Tracked(blocks', initialized', assigned', holes') /\ unsafe' \subseteq holes'
      <3>1. Tracked(blocks, initialized, assigned, holes) /\ unsafe \subseteq holes
        BY <2>1, <2>4 DEF ParserIInv
      <3>2. assigned \subseteq assigned' /\ holes \subseteq holes' /\ "result" \in assigned' \cup holes'
        BY <1>1, <1>r, <2>1 DEF ParserType
      <3>3. Tracked(blocks', initialized \cup {"result"}, assigned', holes')
        BY <1>1, <1>r, <2>1, <3>1, <3>2, MarkKnown
      <3>4. QED
        BY <2>1, <3>1, <3>2, <3>3
    <2>5. QED
      BY <1>1, <2>1, <2>3, <2>4 DEF ParserIInv, PendingIsExpected
  <1>4. CASE ~Ignored /\ ~value
    <2>1. /\ unsafe' = unsafe \cup ({"result"} \ assigned) /\ holes' = holes \cup {"result"}
          /\ blocks' = blocks /\ initialized' = initialized /\ assigned' = Symbols
          /\ pending' = pending /\ errors' = errors
      BY <1>4 DEF Return
    <2>3. ParserType'
      BY <1>1, <1>r, <2>1 DEF ParserType
    <2>4. ASSUME errors' = {}
          PROVE  Tracked(blocks', initialized', assigned', holes') /\ unsafe' \subseteq holes'
      <3>1. Tracked(blocks, initialized, assigned, holes) /\ unsafe \subseteq holes /\ blocks \in Seq(Blocks)
        BY <1>1, <2>1, <2>4 DEF ParserIInv, ParserType, StackOK
      <3>2. assigned \subseteq Symbols /\ holes \subseteq holes \cup {"result"}
        BY <1>1 DEF ParserType
      <3>3. Tracked(blocks, initialized, Symbols, holes \cup {"result"})
        BY <3>1, <3>2, LongerKnown
      <3>4. QED
        BY <2>1, <3>1, <3>3
    <2>5. QED
      BY <1>1, <2>1, <2>3, <2>4 DEF ParserIInv, PendingIsExpected
  <1>5. QED
    BY <1>2, <1>3, <1>4

LEMMA JumpKeeps ==
  ASSUME ParserIInv, NEW kinds, Jump(kinds)
  PROVE  ParserIInv'
  <1>1. Reading /\ ParserType /\ blocks # <<>> /\ length' \in 0 .. MaxLength /\ pending = ""
    BY ReadingTyped DEF Jump, ParserIInv
  <1>2. CASE Ignored
    BY <1>1, <1>2, NothingHappens DEF Ignored
  <1>3. CASE ~Ignored
    <2>1. /\ assigned' \in {assigned, Symbols}
          /\ errors' \in {errors, errors \cup {"StatementInvalid"}}
          /\ blocks' = blocks /\ initialized' = initialized /\ pending' = pending
          /\ unsafe' = unsafe /\ holes' = holes
      BY <1>3 DEF Jump, Tally
    <2>3. ParserType'
      BY <1>1, <2>1 DEF ParserType
    <2>4. ASSUME errors' = {}
          PROVE  Tracked(blocks', initialized', assigned', holes') /\ unsafe' \subseteq holes'
      <3>1. Tracked(blocks, initialized, assigned, holes) /\ unsafe \subseteq holes /\ blocks \in Seq(Blocks)
        BY <1>1, <2>1, <2>4 DEF ParserIInv, ParserType, StackOK
      <3>2. assigned \subseteq assigned'
        BY <1>1, <2>1 DEF ParserType
      <3>3. Tracked(blocks, initialized, assigned', holes)
        BY <3>1, <3>2, LongerKnown
      <3>4. QED
        BY <2>1, <3>1, <3>3
    <2>5. QED
      BY <1>1, <2>1, <2>3, <2>4 DEF ParserIInv, PendingIsExpected
  <1>4. QED
    BY <1>2, <1>3

-----------------------------------------------------------------------------
(* Blocks that begin.                                                      *)
LEMMA OpenBlockKeeps ==
  ASSUME ParserIInv, NEW kind \in {"if", "while", "try", "subfn"}, NEW style, OpenBlock(kind, style)
  PROVE  ParserIInv'
  <1>1. Reading /\ ParserType /\ blocks # <<>> /\ length' \in 0 .. MaxLength /\ pending = "" /\ StackOK(blocks)
    BY ReadingTyped DEF OpenBlock, ParserIInv, ParserType
  <1>2. CASE Ignored
    BY <1>1, <1>2, NothingHappens DEF Ignored
  <1>3. CASE ~Ignored
    <2> DEFINE c == [NewBlock(kind, style, assigned) EXCEPT !.outer = Symbols \ initialized]
    <2>1. /\ blocks' = Append(blocks, c) /\ errors' \in {errors, errors \cup {"SubfnNesting"}}
          /\ initialized' = initialized /\ pending' = pending /\ assigned' = assigned
          /\ unsafe' = unsafe /\ holes' = holes
      BY <1>3 DEF OpenBlock, Open, Tally
    <2>2. c \in Blocks /\ EndsWell(c)
      BY <1>1, NewBlockIsOne DEF ParserType, BlockKinds
    <2>3. /\ c.kind # "func" /\ c.entry = assigned /\ c.ends = Symbols /\ c.first = {}
          /\ c.outer = Symbols \ initialized /\ ~c.else
      BY DEF NewBlock
    <2> HIDE DEF c
    <2>4. StackOK(blocks')
      BY <1>1, <2>1, <2>2, <2>3, PushStack
    <2>5. ParserType'
      BY <1>1, <2>1, <2>4 DEF ParserType
    <2>6. ASSUME errors' = {}
          PROVE  Tracked(blocks', initialized', assigned', holes') /\ unsafe' \subseteq holes'
      <3>1. Tracked(blocks, initialized, assigned, holes) /\ unsafe \subseteq holes
        BY <2>1, <2>6 DEF ParserIInv
      <3>2. initialized \subseteq assigned \cup holes
        BY <3>1 DEF Tracked, Marked
      <3>3. assigned \subseteq Symbols /\ initialized \in SUBSET Symbols
        BY <1>1 DEF ParserType
      <3>4. Tracked(Append(blocks, c), initialized, assigned, holes)
        BY <1>1, <2>2, <2>3, <3>1, <3>2, <3>3, PushKnown
      <3>5. QED
        BY <2>1, <3>1, <3>4
    <2>7. QED
      BY <1>1, <2>1, <2>5, <2>6 DEF ParserIInv, PendingIsExpected
  <1>4. QED
    BY <1>2, <1>3

LEMMA OpenForKeeps ==
  ASSUME ParserIInv, NEW v \in Vars, NEW range \in BOOLEAN, NEW style, OpenFor(v, range, style)
  PROVE  ParserIInv'
  <1>1. Reading /\ ParserType /\ blocks # <<>> /\ length' \in 0 .. MaxLength /\ pending = "" /\ StackOK(blocks)
    BY ReadingTyped DEF OpenFor, ParserIInv, ParserType
  <1>2. CASE Ignored
    BY <1>1, <1>2, NothingHappens DEF Ignored
  <1>3. CASE ~Ignored
    <2> DEFINE entry == IF range THEN assigned \cup {v} ELSE assigned
               b == NewBlock("for", style, entry)
               c == IF range \/ v \in initialized THEN b ELSE [b EXCEPT !.first = {v}]
    <2>1. /\ blocks' = Append(blocks, c)
          /\ initialized' = initialized \cup {v} /\ assigned' = assigned \cup {v}
          /\ holes' = IF range /\ Len(blocks) > 1 THEN holes \cup {v} ELSE holes
          /\ pending' = pending /\ errors' = errors /\ unsafe' = unsafe
      BY <1>3 DEF OpenFor, Open
    <2>2. v \in Symbols /\ entry \in SUBSET Symbols
      BY <1>1 DEF ParserType, Symbols
    <2>3. b \in Blocks /\ EndsWell(b)
      BY <2>2, NewBlockIsOne DEF BlockKinds
    <2>4. b.kind = "for" /\ b.entry = entry /\ b.ends = Symbols /\ b.first = {}
      BY DEF NewBlock
    <2> HIDE DEF b
    <2>5. /\ c \in Blocks /\ c.kind = "for" /\ c.entry = entry /\ c.ends = Symbols
          /\ c.first = IF range \/ v \in initialized THEN {} ELSE {v}
      BY <2>2, <2>3, <2>4 DEF Blocks
    <2>6. EndsWell(c)
      BY <2>5 DEF EndsWell
    <2> HIDE DEF c
    <2>7. StackOK(blocks')
      BY <1>1, <2>1, <2>5, <2>6, PushStack
    <2>8. ParserType'
      BY <1>1, <2>1, <2>2, <2>7 DEF ParserType
    <2>9. ASSUME errors' = {}
          PROVE  Tracked(blocks', initialized', assigned', holes') /\ unsafe' \subseteq holes'
      <3>1. Tracked(blocks, initialized, assigned, holes) /\ unsafe \subseteq holes
        BY <2>1, <2>9 DEF ParserIInv
      <3>2. initialized \subseteq assigned \cup holes
        BY <3>1 DEF Tracked, Marked
      <3>3. assigned \subseteq Symbols /\ initialized' \in SUBSET Symbols /\ Len(blocks) \in Nat
        <4>1. assigned \subseteq Symbols /\ initialized' \in SUBSET Symbols
          BY <1>1, <2>1, <2>2 DEF ParserType
        <4>2. QED
          BY <1>1, <4>1, PopStack
      <3>4. /\ holes \subseteq holes' /\ assigned \subseteq assigned' /\ initialized \subseteq initialized'
            /\ initialized' \subseteq assigned' \cup holes'
            /\ \A w \in initialized' : w \in initialized \/ w \in holes' \/ w \in c.first \/ Len(blocks) <= 1
            /\ assigned \subseteq c.entry /\ c.entry \subseteq assigned' /\ c.entry \subseteq c.ends
            /\ initialized' \subseteq c.entry \cup holes' \cup c.first
            /\ c.first \subseteq initialized' \ initialized
        BY <2>1, <2>2, <2>5, <3>2, <3>3
      <3>5. Tracked(Append(blocks, c), initialized', assigned', holes')
        BY <1>1, <2>5, <2>6, <3>1, <3>3, <3>4, PushKnown
      <3>6. QED
        BY <2>1, <3>1, <3>4, <3>5
    <2>10. QED
      BY <1>1, <2>1, <2>8, <2>9 DEF ParserIInv, PendingIsExpected
  <1>4. QED
    BY <1>2, <1>3

-----------------------------------------------------------------------------
(* Blocks that end.                                                        *)
Known == ParserType /\ (errors = {} => Tracked(blocks, initialized, assigned, holes) /\ unsafe \subseteq holes)

Ended ==
  /\ StackOK(blocks') /\ initialized' \subseteq Symbols /\ assigned' \subseteq Symbols /\ unsafe' \subseteq Symbols
  /\ errors' = {} => Tracked(blocks', initialized', assigned', holes') /\ unsafe' \subseteq holes'

EndedBranch == [Top EXCEPT !.arms = Append(@, Top.first), !.ends = @ \cap assigned]

LEMMA BranchTyped ==
  ASSUME ParserType, blocks # <<>>
  PROVE  /\ EndedBranch \in Blocks /\ EndedBranch.kind = Top.kind /\ EndedBranch.closers = Top.closers /\ EndedBranch.first = Top.first
         /\ EndedBranch.else = Top.else /\ EndedBranch.entry = Top.entry /\ EndedBranch.outer = Top.outer
         /\ EndedBranch.ends = Top.ends \cap assigned
         /\ EndedBranch.arms \in Seq(SUBSET Symbols) /\ Len(EndedBranch.arms) = Len(Top.arms) + 1
         /\ \A a \in DOMAIN Top.arms : a \in DOMAIN EndedBranch.arms /\ EndedBranch.arms[a] = Top.arms[a]
         /\ Len(EndedBranch.arms) \in DOMAIN EndedBranch.arms /\ 1 \in DOMAIN EndedBranch.arms
         /\ EndedBranch.arms[Len(EndedBranch.arms)] = Top.first
  <1>1. TopHolds
    BY TopTyped
  <1> DEFINE arms == Append(Top.arms, Top.first)
  <1>2. Top.arms \in Seq(SUBSET Symbols) /\ Top.first \in SUBSET Symbols /\ Top.ends \cap assigned \in SUBSET Symbols
    BY <1>1 DEF TopHolds
  <1>3. /\ arms \in Seq(SUBSET Symbols) /\ Len(arms) = Len(Top.arms) + 1
        /\ \A a \in 1 .. Len(Top.arms) : arms[a] = Top.arms[a]
        /\ arms[Len(Top.arms) + 1] = Top.first
    BY <1>2, AppendProperties
  <1>4. Len(Top.arms) \in Nat /\ DOMAIN Top.arms = 1 .. Len(Top.arms) /\ DOMAIN arms = 1 .. Len(Top.arms) + 1
    BY <1>2, <1>3, LenProperties
  <1> HIDE DEF arms
  <1>5. EndedBranch = [Top EXCEPT !.arms = arms, !.ends = Top.ends \cap assigned]
    BY DEF EndedBranch, arms
  <1>6. /\ EndedBranch \in Blocks /\ EndedBranch.kind = Top.kind /\ EndedBranch.closers = Top.closers /\ EndedBranch.first = Top.first
        /\ EndedBranch.else = Top.else /\ EndedBranch.entry = Top.entry /\ EndedBranch.outer = Top.outer
        /\ EndedBranch.ends = Top.ends \cap assigned /\ EndedBranch.arms = arms
    BY <1>1, <1>2, <1>3, <1>5 DEF TopHolds, Blocks
  <1>7. QED
    BY <1>3, <1>4, <1>6

LEMMA BranchKnown ==
  ASSUME ParserType, blocks # <<>>, Top.kind = "if", Tracked(blocks, initialized, assigned, holes)
  PROVE  /\ EndedBranch.entry \subseteq EndedBranch.ends
         /\ Stale(Top) => ~EndedBranch.else
         /\ ~Stale(Top) => \A v \in Symbols : (\A a \in DOMAIN EndedBranch.arms : v \in EndedBranch.arms[a]) => v \in EndedBranch.ends \cup holes
  <1>1. TopTracked
    BY TopKnown
  <1>2. EndedBranch.entry \subseteq EndedBranch.ends /\ (Stale(Top) => ~EndedBranch.else)
    BY <1>1, BranchTyped DEF TopTracked
  <1>3. ASSUME ~Stale(Top), NEW v \in Symbols, \A a \in DOMAIN EndedBranch.arms : v \in EndedBranch.arms[a]
        PROVE  v \in EndedBranch.ends \cup holes
    <2>1. \A a \in DOMAIN Top.arms : v \in Top.arms[a]
      BY <1>3, BranchTyped
    <2>2. v \in Top.first
      BY <1>3, BranchTyped
    <2>3. QED
      BY <1>1, <1>3, <2>1, <2>2, BranchTyped DEF TopTracked
  <1>4. QED
    BY <1>2, <1>3

LEMMA FinishIfEnds ==
  ASSUME Known, blocks # <<>>, Top.kind = "if", NEW raised, FinishIf(EndedBranch, raised), unsafe' = unsafe
  PROVE  Ended /\ blocks' = Front(blocks)
  <1>1. TopHolds /\ StackOK(blocks) /\ ParserType
    BY TopTyped DEF Known, ParserType
  <1> DEFINE kept == IF EndedBranch.else
                     THEN {v \in EndedBranch.arms[1] : \A i \in DOMAIN EndedBranch.arms : v \in EndedBranch.arms[i]} ELSE {}
             ini2 == (initialized \ Top.first) \cup kept
  <1>2. /\ blocks' = Front(blocks) /\ initialized' = ini2
        /\ holes' = IF Len(blocks) > 2 THEN holes \cup kept ELSE holes
        /\ assigned' = IF EndedBranch.else THEN EndedBranch.ends ELSE EndedBranch.ends \cap EndedBranch.entry
        /\ errors' = errors \cup raised
    BY DEF FinishIf, Reverted, Report
  <1>3. kept \subseteq Symbols /\ \A v \in kept : v \in Symbols /\ \A i \in DOMAIN EndedBranch.arms : v \in EndedBranch.arms[i]
    BY <1>1, BranchTyped
  <1>4. ~EndedBranch.else => kept = {}
    OBVIOUS
  <1> HIDE DEF kept
  <1>5. Len(blocks) >= 2 /\ Len(blocks) \in Nat
    BY <1>1 DEF TopHolds
  <1>6. StackOK(blocks')
    BY <1>1, <1>2, PopStack
  <1>7. initialized' \subseteq Symbols /\ assigned' \subseteq Symbols /\ unsafe' \subseteq Symbols
    BY <1>1, <1>2, <1>3, BranchTyped DEF ParserType, TopHolds
  <1>8. ASSUME errors' = {}
        PROVE  Tracked(blocks', initialized', assigned', holes') /\ unsafe' \subseteq holes'
    <2>1. Tracked(blocks, initialized, assigned, holes) /\ unsafe \subseteq holes
      BY <1>2, <1>8 DEF Known
    <2>2. TopTracked
      BY <1>1, <2>1, TopKnown
    <2>3. kept \subseteq EndedBranch.ends \cup holes
      BY <1>1, <1>3, <1>4, <2>1, BranchKnown
    <2>4. /\ EndedBranch.entry \subseteq EndedBranch.ends /\ EndedBranch.entry = Top.entry /\ ini2 \in SUBSET Symbols
      BY <1>1, <1>2, <1>7, <2>1, BranchKnown, BranchTyped
    <2>5. Top.entry \subseteq assigned' /\ holes \subseteq holes'
      BY <1>2, <2>4
    <2>6. ini2 \subseteq assigned' \cup holes'
      BY <1>2, <1>4, <1>5, <2>2, <2>3, <2>4 DEF TopTracked
    <2>7. \A v \in ini2 : (v \in initialized /\ v \notin Top.first) \/ v \in holes' \/ Len(blocks) = 2
      <3>1. Len(blocks) > 2 \/ Len(blocks) = 2
        <4> DEFINE n == Len(blocks)
        <4>1. n >= 2 /\ n \in Nat
          BY <1>5
        <4> HIDE DEF n
        <4>2. n > 2 \/ n = 2
          BY <4>1
        <4>3. QED
          BY <4>2 DEF n
      <3>2. Len(blocks) > 2 => kept \subseteq holes'
        BY <1>2
      <3>3. QED
        BY <3>1, <3>2
    <2>8. initialized \ Hidden(Top) \subseteq ini2
      BY DEF Hidden
    <2> HIDE DEF ini2
    <2>9. Tracked(Front(blocks), ini2, assigned', holes')
      BY <1>1, <1>5, <2>1, <2>4, <2>5, <2>6, <2>7, <2>8, PopKnown
    <2>10. QED
      BY <1>2, <2>1, <2>5, <2>9
  <1>9. QED
    BY <1>2, <1>6, <1>7, <1>8 DEF Ended

LEMMA EndBranchEnds ==
  ASSUME Known, blocks # <<>>, Top.kind = "if", NEW raised, NEW word, word = "" \/ word \in Top.closers,
         EndBranch(word, raised), unsafe' = unsafe
  PROVE  Ended /\ (word = "" => blocks' = Front(blocks))
  <1>1. TopHolds /\ StackOK(blocks) /\ ParserType
    BY TopTyped DEF Known, ParserType
  <1>2. CASE ~(word = "elif" \/ (word = "else" /\ ~EndedBranch.else))
    <2>1. PICK more : FinishIf(EndedBranch, more)
      BY <1>2 DEF EndBranch, EndedBranch
    <2>2. QED
      BY <2>1, FinishIfEnds
  <1>3. CASE word = "elif" \/ (word = "else" /\ ~EndedBranch.else)
    <2> DEFINE next == [EndedBranch EXCEPT !.first = {}, !.words = @ + 1, !.else = @ \/ word = "else"]
    <2>1. /\ blocks' = Append(Front(blocks), next) /\ initialized' = initialized \ Top.first
          /\ assigned' = EndedBranch.entry /\ errors' = errors /\ holes' = holes
      BY <1>3 DEF EndBranch, EndedBranch, Reverted
    <2>2. /\ next \in Blocks /\ next.kind = Top.kind /\ next.closers = Top.closers /\ next.first = {}
          /\ next.entry = Top.entry /\ next.outer = Top.outer /\ next.ends = EndedBranch.ends /\ next.arms = EndedBranch.arms
      <3> DEFINE w == EndedBranch.words + 1  e == EndedBranch.else \/ word = "else"
      <3>1. EndedBranch \in Blocks /\ w \in Nat
        BY <1>1, BranchTyped, BlockCounts
      <3>2. e \in BOOLEAN
        OBVIOUS
      <3>3. next = [EndedBranch EXCEPT !.first = {}, !.words = w, !.else = e]
        OBVIOUS
      <3> HIDE DEF w, e, next
      <3>4. /\ next \in Blocks /\ next.kind = EndedBranch.kind /\ next.closers = EndedBranch.closers /\ next.first = {}
            /\ next.entry = EndedBranch.entry /\ next.outer = EndedBranch.outer /\ next.ends = EndedBranch.ends
            /\ next.arms = EndedBranch.arms
        BY <3>1, <3>2, <3>3 DEF Blocks
      <3>5. QED
        BY <1>1, <3>4, BranchTyped
    <2> HIDE DEF next
    <2>3. EndsWell(next) /\ Top.closers = {"endif", "elif", "else"} /\ ~Stale(Top) /\ ~Stale(next)
      <3>1. word \in Top.closers /\ word \in {"else", "elif"}
        BY <1>3
      <3>2. EndsWell(Top)
        BY <1>1 DEF TopHolds
      <3>3. Top.closers = {"endif", "elif", "else"} /\ ~Stale(Top)
        BY <3>1, <3>2, ElseBelongs
      <3>4. QED
        BY <2>2, <3>2, <3>3 DEF EndsWell, Stale
    <2>4. /\ StackOK(blocks') /\ blocks' \in Seq(Blocks) /\ Len(blocks') = Len(blocks)
          /\ SameBelow(blocks, blocks', Len(blocks) - 1) /\ blocks'[Len(blocks)] = next
      BY <1>1, <2>1, <2>2, <2>3, ReplaceStack DEF Top
    <2>5. initialized' \in SUBSET Symbols /\ assigned' \subseteq Symbols /\ unsafe' \subseteq Symbols
      BY <1>1, <2>1, BranchTyped DEF ParserType, TopHolds
    <2>6. ASSUME errors' = {}
          PROVE  Tracked(blocks', initialized', assigned', holes') /\ unsafe' \subseteq holes'
      <3>1. Tracked(blocks, initialized, assigned, holes) /\ unsafe \subseteq holes
        BY <2>1, <2>6 DEF Known
      <3>2. TopTracked
        BY <1>1, <3>1, TopKnown
      <3>3. /\ next.entry \subseteq next.ends /\ next.entry \subseteq assigned'
            /\ \A v \in Symbols : (\A a \in DOMAIN next.arms : v \in next.arms[a]) => v \in next.ends \cup holes'
        BY <1>1, <2>1, <2>2, <2>3, <3>1, BranchKnown, BranchTyped
      <3>4. Len(blocks) >= 2
        BY <1>1 DEF TopHolds
      <3>5. /\ initialized' \subseteq assigned' \cup holes' /\ holes \subseteq holes'
            /\ \A v \in initialized' : v \in initialized /\ v \notin Top.first
            /\ initialized \ Hidden(Top) \subseteq initialized'
        BY <2>1, <2>2, <3>2, <3>3, <3>4, BranchTyped, <1>1 DEF TopTracked, Hidden
      <3>6. Tracked(blocks', initialized', assigned', holes')
        BY <1>1, <2>2, <2>3, <2>4, <2>5, <3>1, <3>3, <3>5, ReplaceKnown
      <3>7. QED
        BY <2>1, <3>1, <3>6
    <2>7. QED
      BY <1>3, <2>4, <2>5, <2>6 DEF Ended
  <1>4. QED
    BY <1>2, <1>3

LEMMA EndTryEnds ==
  ASSUME Known, blocks # <<>>, Top.kind \in {"try", "except", "finally"}, NEW raised, NEW word,
         EndTry(word, raised), unsafe' = unsafe, holes' = holes
  PROVE  /\ Ended /\ (word = "" => blocks' = Front(blocks))
         /\ ~(word = "" /\ Top.kind = "except") => skip' = ""
  <1>1. TopHolds /\ StackOK(blocks) /\ ParserType
    BY TopTyped DEF Known, ParserType
  <1> DEFINE b == [Top EXCEPT !.first = {}, !.ends = IF Top.kind = "finally" THEN @ ELSE @ \cap assigned]
  <1>2. /\ b \in Blocks /\ b.entry = Top.entry /\ b.outer = Top.outer /\ b.first = {} /\ b.kind = Top.kind
        /\ b.ends = IF Top.kind = "finally" THEN Top.ends ELSE Top.ends \cap assigned
    BY <1>1 DEF TopHolds, Blocks
  <1>3. initialized' = initialized \ Top.first /\ (~(word = "" /\ Top.kind = "except") => skip' = "")
    BY DEF EndTry, Reverted
  <1>4. Len(blocks) >= 2 /\ Top.kind # "subfn" /\ Top.kind # "if"
    BY <1>1 DEF TopHolds
  <1>5. initialized' \in SUBSET Symbols /\ unsafe' \subseteq Symbols
    BY <1>1, <1>3 DEF ParserType
  <1>6. CASE word \in {"except", "finally"}
    <2> DEFINE next == [b EXCEPT !.kind = word, !.parts = @ + 1, !.closers = ClosersOf(word)]
    <2>1. blocks' = Append(Front(blocks), next) /\ assigned' = b.entry /\ errors' = errors \cup raised
      BY <1>6 DEF EndTry, Report
    <2> HIDE DEF b
    <2>2. word \in BlockKinds /\ ClosersOf(word) \in SUBSET BlockEnds
      BY <1>6 DEF ClosersOf, BlockKinds, BlockEnds
    <2>3. /\ next \in Blocks /\ next.kind = word /\ next.first = {} /\ next.entry = Top.entry
          /\ next.outer = Top.outer /\ next.ends = b.ends
      <3> DEFINE p == b.parts + 1  cl == ClosersOf(word)
      <3>1. p \in Nat /\ cl \in SUBSET BlockEnds
        BY <1>2, <2>2, BlockCounts
      <3>2. next = [b EXCEPT !.kind = word, !.parts = p, !.closers = cl]
        OBVIOUS
      <3> HIDE DEF p, cl, next
      <3>3. QED
        BY <1>2, <2>2, <3>1, <3>2 DEF Blocks
    <2> HIDE DEF next
    <2>4. EndsWell(next) /\ (next.kind = "func" <=> Top.kind = "func") /\ next.kind # "if" /\ next.kind # "subfn" /\ ~Stale(next)
      BY <1>4, <1>6, <2>3, <1>1 DEF EndsWell, TopHolds, Stale
    <2>5. /\ StackOK(blocks') /\ blocks' \in Seq(Blocks) /\ Len(blocks') = Len(blocks)
          /\ SameBelow(blocks, blocks', Len(blocks) - 1) /\ blocks'[Len(blocks)] = next
      BY <1>1, <2>1, <2>3, <2>4, ReplaceStack DEF Top
    <2>6. assigned' \subseteq Symbols
      BY <1>1, <1>2, <2>1 DEF TopHolds
    <2>7. ASSUME errors' = {}
          PROVE  Tracked(blocks', initialized', assigned', holes') /\ unsafe' \subseteq holes'
      <3>1. Tracked(blocks, initialized, assigned, holes) /\ unsafe \subseteq holes
        BY <2>1, <2>7 DEF Known
      <3>2. TopTracked
        BY <1>1, <3>1, TopKnown
      <3>3. /\ next.entry \subseteq next.ends /\ next.entry \subseteq assigned'
            /\ initialized' \subseteq assigned' \cup holes' /\ holes \subseteq holes'
            /\ \A v \in initialized' : v \in initialized /\ v \notin Top.first
            /\ initialized \ Hidden(Top) \subseteq initialized'
        BY <1>2, <1>3, <1>4, <2>1, <2>3, <3>2 DEF TopTracked, Hidden
      <3>4. Tracked(blocks', initialized', assigned', holes')
        BY <1>1, <1>4, <1>5, <2>3, <2>4, <2>5, <3>1, <3>3, ReplaceKnown
      <3>5. QED
        BY <3>1, <3>4
    <2>8. QED
      BY <1>3, <1>5, <1>6, <2>5, <2>6, <2>7 DEF Ended
  <1>7. CASE word \notin {"except", "finally"}
    <2>1. /\ blocks' = Front(blocks)
          /\ assigned' = IF Top.kind = "finally" THEN b.ends \cup assigned ELSE b.ends
          /\ errors = {} \/ errors' # {}
      BY <1>7 DEF EndTry, Report
    <2> HIDE DEF b
    <2>2. StackOK(blocks')
      BY <1>1, <2>1, PopStack
    <2>3. assigned' \subseteq Symbols
      BY <1>1, <1>2, <2>1 DEF TopHolds, ParserType
    <2>4. ASSUME errors' = {}
          PROVE  Tracked(blocks', initialized', assigned', holes') /\ unsafe' \subseteq holes'
      <3>1. Tracked(blocks, initialized, assigned, holes) /\ unsafe \subseteq holes
        BY <2>1, <2>4 DEF Known
      <3>2. TopTracked
        BY <1>1, <3>1, TopKnown
      <3>3. /\ Top.entry \subseteq assigned'
            /\ initialized' \subseteq assigned' \cup holes' /\ holes \subseteq holes'
            /\ \A v \in initialized' : v \in initialized /\ v \notin Top.first
            /\ initialized \ Hidden(Top) \subseteq initialized'
        BY <1>2, <1>3, <1>4, <2>1, <3>2 DEF TopTracked, Hidden
      <3>4. Tracked(Front(blocks), initialized', assigned', holes')
        BY <1>1, <1>4, <1>5, <3>1, <3>3, PopKnown
      <3>5. QED
        BY <2>1, <3>1, <3>4
    <2>5. QED
      BY <1>3, <1>5, <2>1, <2>2, <2>3, <2>4 DEF Ended
  <1>8. QED
    BY <1>6, <1>7

LEMMA LoopEnds ==
  ASSUME Known, blocks # <<>>, Top.kind \in {"while", "for", "subfn"},
         blocks' = Front(blocks),
         initialized' = IF Top.kind = "subfn" THEN initialized \ Top.outer ELSE initialized \ Top.first,
         assigned' = Top.entry, errors = {} \/ errors' # {}, unsafe' = unsafe, holes' = holes
  PROVE  Ended
  <1>1. TopHolds /\ StackOK(blocks) /\ ParserType
    BY TopTyped DEF Known, ParserType
  <1>2. Len(blocks) >= 2
    BY <1>1 DEF TopHolds
  <1>3. initialized' \in SUBSET Symbols /\ unsafe' \subseteq Symbols /\ assigned' \subseteq Symbols /\ StackOK(blocks')
    BY <1>1, PopStack DEF ParserType, TopHolds
  <1>4. ASSUME errors' = {}
        PROVE  Tracked(blocks', initialized', assigned', holes') /\ unsafe' \subseteq holes'
    <2>1. Tracked(blocks, initialized, assigned, holes) /\ unsafe \subseteq holes
      BY <1>4 DEF Known
    <2>2. TopTracked
      BY <1>1, <2>1, TopKnown
    <2>3. /\ \A v \in initialized' : v \in initialized /\ v \notin Top.first
          /\ initialized \ Hidden(Top) \subseteq initialized' /\ Top.entry \subseteq assigned'
          /\ initialized' \subseteq assigned' \cup holes'
      BY <1>2, <2>2 DEF TopTracked, Hidden
    <2>4. Tracked(Front(blocks), initialized', assigned', holes')
      BY <1>1, <1>2, <1>3, <2>1, <2>3, PopKnown
    <2>5. QED
      BY <2>1, <2>4
  <1>5. QED
    BY <1>3, <1>4 DEF Ended

LEMMA FunctionEnds ==
  ASSUME Known, blocks # <<>>, blocks' = <<>>, initialized' = initialized, assigned' = assigned, holes' = holes,
         errors = {} \/ errors' # {}, unsafe' = unsafe \cup ({"result"} \cap (initialized \ assigned))
  PROVE  Ended
  <1>1. StackOK(blocks') /\ initialized' \subseteq Symbols /\ assigned' \subseteq Symbols /\ unsafe' \subseteq Symbols
    <2>1. blocks' \in Seq(Blocks) /\ Len(blocks') = 0
      BY EmptySeq
    <2>2. QED
      BY <2>1 DEF StackOK, Known, ParserType
  <1>2. ASSUME errors' = {}
        PROVE  Tracked(blocks', initialized', assigned', holes') /\ unsafe' \subseteq holes'
    <2>1. Marked(initialized, assigned, holes) /\ unsafe \subseteq holes
      BY <1>2 DEF Known, Tracked
    <2>2. Len(blocks') = 0
      BY EmptySeq
    <2>3. QED
      BY <2>1, <2>2 DEF Tracked, Marked, Owned, Grown, Apart, Nested, Branched
  <1>3. QED
    BY <1>1, <1>2 DEF Ended

LEMMA EndBlockEnds ==
  ASSUME Known, blocks # <<>>, skip = "", NEW raised, NEW word, word = "" \/ word \in Top.closers,
         EndBlock(word, raised)
  PROVE  /\ Ended
         /\ word = "" => blocks' = IF Top.kind = "func" THEN <<>> ELSE Front(blocks)
         /\ ~(word = "" /\ Top.kind = "except") => skip' = ""
  <1>1. TopHolds
    BY TopTyped DEF Known
  <1>2. CASE Top.kind = "if"
    <2>1. EndBranch(word, raised) /\ unsafe' = unsafe /\ skip' = skip
      BY <1>2 DEF EndBlock
    <2>2. QED
      BY <1>2, <2>1, EndBranchEnds
  <1>3. CASE Top.kind \in {"try", "except", "finally"}
    <2>1. EndTry(word, raised) /\ unsafe' = unsafe /\ holes' = holes
      BY <1>3 DEF EndBlock
    <2>2. QED
      BY <1>3, <2>1, EndTryEnds
  <1>4. CASE Top.kind \in {"while", "for", "subfn"}
    <2>1. /\ blocks' = Front(blocks)
          /\ initialized' = IF Top.kind = "subfn" THEN initialized \ Top.outer ELSE initialized \ Top.first
          /\ assigned' = Top.entry /\ errors' = errors \cup raised
          /\ skip' = skip /\ unsafe' = unsafe /\ holes' = holes
      BY <1>4 DEF EndBlock, Report, Reverted
    <2>2. Ended
      BY <1>4, <2>1, LoopEnds
    <2>3. QED
      BY <1>4, <2>1, <2>2
  <1>5. CASE Top.kind = "func"
    <2>1. /\ blocks' = <<>> /\ errors \subseteq errors'
          /\ unsafe' = unsafe \cup ({"result"} \cap (initialized \ assigned))
          /\ initialized' = initialized /\ assigned' = assigned /\ skip' = skip /\ holes' = holes
      BY <1>5 DEF EndBlock, Report
    <2>2. Ended
      BY <2>1, FunctionEnds
    <2>3. QED
      BY <1>5, <2>1, <2>2
  <1>6. QED
    BY <1>1, <1>2, <1>3, <1>4, <1>5 DEF TopHolds, BlockKinds

LEMMA EndedKeeps ==
  ASSUME Ended, PendingIsExpected', length' \in 0 .. MaxLength
  PROVE  ParserIInv'
  BY DEF Ended, ParserIInv, ParserType

LEMMA ClosesKeeps ==
  ASSUME ParserIInv, blocks # <<>>, length' \in 0 .. MaxLength, NEW word, Closes(word)
  PROVE  ParserIInv'
  <1>1. Known /\ TopHolds /\ skip = ""
    BY TopTyped DEF ParserIInv, Known, Closes
  <1>2. CASE word \in Top.closers
    <2>1. EndBlock(word, {}) /\ pending' = ""
      BY <1>2 DEF Closes
    <2>2. Ended
      BY <1>1, <1>2, <2>1, EndBlockEnds
    <2>3. QED
      BY <2>1, <2>2, EndedKeeps DEF PendingIsExpected
  <1>3. CASE word \notin Top.closers
    <2> DEFINE expected == \E i \in DOMAIN blocks : word \in blocks[i].closers
    <2>1. EndBlock("", {"CloseMismatch"}) /\ pending' = IF expected /\ Top.kind # "except" THEN word ELSE ""
      BY <1>3 DEF Closes
    <2>2. /\ Ended /\ (Top.kind # "except" => skip' = "")
          /\ blocks' = IF Top.kind = "func" THEN <<>> ELSE Front(blocks)
      BY <1>1, <2>1, EndBlockEnds
    <2>3. ASSUME pending' # ""
          PROVE  skip' = "" /\ \E i \in DOMAIN blocks' : pending' \in blocks'[i].closers
      <3>1. pending' = word /\ skip' = ""
        BY <2>1, <2>2, <2>3
      <3>2. PICK i \in DOMAIN blocks : word \in blocks[i].closers
        BY <2>1, <2>3
      <3>3. DOMAIN blocks = 1 .. Len(blocks) /\ i # Len(blocks) /\ Len(blocks) \in Nat
        BY <1>1, <1>3, <3>2, LenProperties DEF TopHolds, Top
      <3>4. Top.kind # "func"
        <4>1. Len(blocks) >= 2
          BY <3>3
        <4>2. QED
          BY <1>1, <4>1 DEF TopHolds
      <3>5. /\ blocks' \in Seq(Blocks) /\ Len(blocks') = Len(blocks) - 1
            /\ \A j \in 1 .. Len(blocks) - 1 : blocks'[j] = blocks[j]
        BY <1>1, <2>2, <3>4, PopStack DEF Known, ParserType, SameBelow
      <3>6. i \in DOMAIN blocks' /\ blocks'[i] = blocks[i]
        BY <3>3, <3>5, LenProperties
      <3>7. QED
        BY <3>1, <3>2, <3>6
    <2>4. QED
      BY <2>2, <2>3, EndedKeeps DEF PendingIsExpected
  <1>4. QED
    BY <1>2, <1>3

LEMMA CloserKeeps ==
  ASSUME ParserIInv, NEW word, Closer(word)
  PROVE  ParserIInv'
  <1>1. Reading /\ blocks # <<>> /\ length' \in 0 .. MaxLength
    BY ReadingTyped DEF Closer, ParserIInv
  <1>2. CASE Closes(word)
    BY <1>1, <1>2, ClosesKeeps
  <1>3. CASE ~Closes(word)
    BY <1>1, <1>3, NothingHappens DEF Closer
  <1>4. QED
    BY <1>2, <1>3

LEMMA ReadAgainKeeps ==
  ASSUME ParserIInv, ReadAgain
  PROVE  ParserIInv'
  <1>1. blocks # <<>> /\ pending # "" /\ Closes(pending) /\ length' \in 0 .. MaxLength
    BY DEF ReadAgain, ParserIInv, ParserType
  <1>2. QED
    BY <1>1, ClosesKeeps

LEMMA BraceKeeps ==
  ASSUME ParserIInv, NEW follow, Brace(follow)
  PROVE  ParserIInv'
  <1>1. /\ Reading /\ blocks # <<>> /\ length' \in 0 .. MaxLength /\ pending' = "" /\ skip = "" /\ "}" \in Top.closers
        /\ Known /\ ParserType /\ StackOK(blocks)
    BY ReadingTyped DEF Brace, ParserIInv, Known, ParserType
  <1>2. PendingIsExpected'
    BY <1>1 DEF PendingIsExpected
  <1>3. CASE Top.kind # "if"
    <2>1. EndBlock("}", {})
      BY <1>3 DEF Brace
    <2>2. QED
      BY <1>1, <1>2, <2>1, EndBlockEnds, EndedKeeps
  <1>4. CASE Top.kind = "if" /\ follow \notin {"else", "elif", "endif"}
    <2>1. EndBranch("", {}) /\ unsafe' = unsafe
      BY <1>4 DEF Brace, EndBraceBranch
    <2>2. QED
      BY <1>1, <1>2, <1>4, <2>1, EndBranchEnds, EndedKeeps
  <1>5. CASE Top.kind = "if" /\ follow \in {"else", "elif", "endif"}
    <2> DEFINE same == [Top EXCEPT !.ends = @ \cap assigned, !.words = IF follow = "endif" THEN @ ELSE @ + 1]
               next == IF follow = "else" THEN same ELSE [same EXCEPT !.closers = ClosersOf("if")]
    <2>1. /\ initialized' = initialized \ Top.first /\ assigned' = Top.entry
          /\ blocks' = Append(Front(blocks), next)
          /\ errors' = errors \cup (IF follow = "else" THEN {} ELSE {"BlockStartMissing"})
          /\ holes' = holes /\ unsafe' = unsafe
      BY <1>5 DEF Brace, EndBraceBranch, Reverted, Report
    <2>2. TopHolds
      BY <1>1, TopTyped
    <2>3. /\ same \in Blocks /\ same.kind = "if" /\ same.closers = Top.closers /\ same.first = Top.first
          /\ same.entry = Top.entry /\ same.outer = Top.outer /\ same.ends = Top.ends \cap assigned
          /\ same.else = Top.else
      <3> DEFINE w == IF follow = "endif" THEN Top.words ELSE Top.words + 1
                 e == Top.ends \cap assigned
      <3>1. Top \in Blocks /\ w \in Nat /\ e \in SUBSET Symbols
        BY <2>2, BlockCounts DEF TopHolds
      <3>2. same = [Top EXCEPT !.ends = e, !.words = w]
        OBVIOUS
      <3> HIDE DEF w, e, same
      <3>3. /\ same \in Blocks /\ same.kind = Top.kind /\ same.closers = Top.closers /\ same.first = Top.first
            /\ same.entry = Top.entry /\ same.outer = Top.outer /\ same.ends = e /\ same.else = Top.else
        BY <3>1, <3>2 DEF Blocks
      <3>4. QED
        BY <1>5, <3>3 DEF e
    <2> HIDE DEF same
    <2>4. next \in Blocks /\ next.kind = "if" /\ EndsWell(next) /\ (follow = "else" => next = same)
      BY <2>2, <2>3, <1>5 DEF Blocks, BlockEnds, ClosersOf, EndsWell, TopHolds
    <2> HIDE DEF next
    <2>5. /\ StackOK(blocks') /\ blocks' \in Seq(Blocks) /\ Len(blocks') = Len(blocks)
          /\ SameBelow(blocks, blocks', Len(blocks) - 1) /\ blocks'[Len(blocks)] = next
      BY <1>1, <1>5, <2>1, <2>4, ReplaceStack DEF Top
    <2>6. initialized' \in SUBSET Symbols /\ assigned' \subseteq Symbols /\ unsafe' \subseteq Symbols
      BY <1>1, <2>1, <2>2 DEF ParserType, TopHolds
    <2>7. ASSUME errors' = {}
          PROVE  Tracked(blocks', initialized', assigned', holes') /\ unsafe' \subseteq holes'
      <3>0. errors = {} /\ follow = "else"
        BY <2>1, <2>7
      <3>1. Tracked(blocks, initialized, assigned, holes) /\ unsafe \subseteq holes /\ next = same
        BY <1>1, <2>4, <3>0 DEF Known
      <3>2. TopTracked
        BY <1>1, <3>1, TopKnown
      <3>3. Stale(Top) /\ Stale(next) /\ Len(blocks) >= 2
        BY <1>1, <1>5, <2>2, <2>3, <3>1 DEF Stale, TopHolds
      <3>4. /\ next.entry \subseteq next.ends /\ next.entry \subseteq assigned' /\ ~next.else
            /\ initialized' \subseteq assigned' \cup holes' /\ holes \subseteq holes'
            /\ \A v \in initialized' : v \in initialized /\ v \notin Top.first
            /\ initialized \ Hidden(Top) \subseteq initialized'
        BY <1>5, <2>1, <2>3, <3>1, <3>2, <3>3 DEF TopTracked, Hidden
      <3>5. /\ next.entry = Top.entry /\ next.outer = Top.outer /\ next.first = Top.first
            /\ next.kind # "subfn" /\ Top.kind # "subfn"
        BY <1>5, <2>3, <3>1
      <3>6. Tracked(blocks', initialized', assigned', holes')
        BY <1>1, <2>4, <2>5, <2>6, <3>1, <3>3, <3>4, <3>5, ReplaceKnown
      <3>7. QED
        BY <2>1, <3>1, <3>6
    <2>8. Ended
      BY <2>5, <2>6, <2>7 DEF Ended
    <2>9. QED
      BY <1>1, <1>2, <2>8, EndedKeeps
  <1>6. QED
    BY <1>3, <1>4, <1>5

LEMMA EndOfTextKeeps ==
  ASSUME ParserIInv, EndOfText
  PROVE  ParserIInv'
  <1>1. /\ blocks' = <<>> /\ pending' = "" /\ errors' = errors \cup {"BlockCloseMissing"} /\ initialized' = initialized
        /\ assigned' = assigned /\ unsafe' = unsafe /\ length' = length
    BY DEF EndOfText, Tally
  <1>2. blocks' \in Seq(Blocks) /\ Len(blocks') = 0
    BY <1>1, EmptySeq
  <1>3. ParserType'
    <2>1. StackOK(blocks')
      BY <1>2 DEF StackOK
    <2>2. QED
      BY <1>1, <2>1 DEF ParserType, ParserIInv
  <1>4. QED
    BY <1>1, <1>3 DEF ParserIInv, PendingIsExpected

LEMMA ParserStep == ParserIInv /\ [ParserNext]_parserVars => ParserIInv'
  <1> SUFFICES ASSUME ParserIInv, [ParserNext]_parserVars PROVE ParserIInv'
    OBVIOUS
  <1>1. CASE UNCHANGED parserVars
    BY <1>1 DEF parserVars, ParserIInv, ParserType, PendingIsExpected
  <1>2. ASSUME NEW v \in Symbols, Assign(v, FALSE) PROVE ParserIInv'
    BY <1>2, AssignKeeps
  <1>3. ASSUME NEW v \in Vars, Assign(v, TRUE) PROVE ParserIInv'
    BY <1>3, AssignKeeps DEF Symbols
  <1>4. ASSUME NEW v \in Vars, Read(v) PROVE ParserIInv'
    BY <1>4, ReadKeeps
  <1>5. ASSUME NEW b \in BOOLEAN, Return(b) PROVE ParserIInv'
    BY <1>5, ReturnKeeps
  <1>6. ASSUME NEW kinds, Jump(kinds) PROVE ParserIInv'
    BY <1>6, JumpKeeps
  <1>7. ASSUME NEW style, NEW k \in {"if", "while", "try", "subfn"}, OpenBlock(k, style) PROVE ParserIInv'
    BY <1>7, OpenBlockKeeps
  <1>8. ASSUME NEW style, NEW v \in Vars, NEW range \in BOOLEAN, OpenFor(v, range, style) PROVE ParserIInv'
    BY <1>8, OpenForKeeps
  <1>9. ASSUME NEW w \in Words, Closer(w) PROVE ParserIInv'
    BY <1>9, CloserKeeps
  <1>10. ASSUME NEW w, Brace(w) PROVE ParserIInv'
    BY <1>10, BraceKeeps
  <1>11. CASE ReadAgain
    BY <1>11, ReadAgainKeeps
  <1>12. CASE EndOfText
    BY <1>12, EndOfTextKeeps
  <1>13. QED
    BY <1>1, <1>2, <1>3, <1>4, <1>5, <1>6, <1>7, <1>8, <1>9, <1>10, <1>11, <1>12
    DEF ParserNext, ParseStatement, Opening, Closing

(* In every reachable state without an error the marks of the parser are   *)
(* those of symbols that have a value, or of holes                         *)
(* (ODqCompParserStmt, OScope).                                            *)
THEOREM ParserInvariant == ParserSpec => []ParserIInv
  BY ParserInitial, ParserStep, PTL DEF ParserSpec

LEMMA ParserImplied == ParserIInv => ParserTypeOK /\ SoundOutsideHoles /\ PendingIsExpected
  <1> SUFFICES ASSUME ParserIInv PROVE ParserTypeOK
    BY DEF ParserIInv, SoundOutsideHoles
  <1>1. ASSUME NEW i \in DOMAIN blocks PROVE blocks[i].first \subseteq Symbols /\ blocks[i].entry \subseteq Symbols
    <2>1. blocks[i] \in Blocks
      BY LenProperties DEF ParserIInv, ParserType, StackOK
    <2>2. QED
      BY <2>1 DEF Blocks
  <1>2. QED
    BY <1>1 DEF ParserTypeOK, ParserIInv, ParserType

-----------------------------------------------------------------------------
(* The designators.                                                        *)
(* What the names of a text stand for: one that leads straight to storage  *)
(* that is not to be written is not to be written either; what is not      *)
(* initialised stands for itself, and what anything initialised stands for *)
(* has a value, and so has what a pointer or slice leads to.               *)
OwnerNames == DOMAIN Declarations \cup {"elsewhere"}
NameFields == {"sort", "mode", "type", "attrs", "fixed", "inited", "owner", "target", "direct", "set"}

NamesOK(ns) ==
  /\ DOMAIN ns = DOMAIN Declarations
  /\ \A x \in DOMAIN Declarations :
       /\ NameFields \subseteq DOMAIN ns[x]
       /\ ns[x].sort = Declarations[x].sort /\ ns[x].mode = Declarations[x].mode
       /\ ns[x].owner \in OwnerNames /\ ns[x].target \in OwnerNames
       /\ ns[x].owner \in ReadOnlyStorage /\ ns[x].direct => x \in ReadOnlyStorage
       /\ ~ns[x].inited => ns[x].owner = x
       /\ ns[x].inited /\ ns[x].owner \in DOMAIN Declarations => ns[ns[x].owner].set
       /\ ns[x].target \in DOMAIN Declarations => ns[ns[x].target].set

(* Each forbidden part of the expression and each name without a value has *)
(* its held back diagnostic, or has been reported; what changes its object *)
(* in place is the end of the expression.                                  *)
Changing == {"method", "mutator"}
IsExpression(e) == \E S : e \in [name : DOMAIN Declarations, steps : Seq(S), use : Uses]

ExprOK(e) ==
  /\ IsExpression(e) /\ Len(e.steps) <= MaxSteps
  /\ LastOp(e) \in Changing => Kind(TypeOf(e)) = "none"
  /\ \A n \in 1..(Len(e.steps) - 1) : Op(e, n) \notin Changing
  /\ \A d \in diags : d[1] \in {"access", "init"} /\ d[2] \in 0..Len(e.steps)
  /\ ~RootSymbol(e).inited => IF HeldBack(e.use) THEN <<"init", 0>> \in diags ELSE reported
  /\ \A k \in 0..Len(e.steps) : Restricted(e, "noread", k) =>
       IF AccessHeldBack(e.use) THEN \E j \in 0..k : <<"access", j>> \in diags ELSE reported
  /\ LastOp(e) = "method" /\ (\A n \in 1..(Len(e.steps) - 1) : InPart(e, n))
       /\ (RootSymbol(e).sort = "const" \/ RootSymbol(e).mode = "refin") => reported

DesignatorIInv ==
  /\ NamesOK(names)
  /\ expr # NoExpression => ExprOK(expr)
  /\ expr = NoExpression => diags = {} /\ ~reported
  /\ DesignatorTypesOK /\ DirectWritesRespected /\ NoReadHonoured /\ NothingReadUnset

(* What a longer expression says of the parts of the shorter one.          *)
Extended(e, step, f) == IsExpression(e) /\ f = [e EXCEPT !.steps = Append(@, step)] /\ DOMAIN names = DOMAIN Declarations

LEMMA MakeExpression ==
  ASSUME NEW a, a \in DOMAIN Declarations, NEW T, NEW q, q \in Seq(T), NEW u, u \in Uses,
         NEW f, f = [name |-> a, steps |-> q, use |-> u]
  PROVE  IsExpression(f) /\ f.steps = q /\ f.name = a /\ f.use = u
  BY DEF IsExpression

LEMMA StepAppended ==
  ASSUME NEW e, NEW step, NEW f, Extended(e, step, f)
  PROVE  /\ IsExpression(f) /\ f.name = e.name /\ f.use = e.use /\ Len(e.steps) \in Nat
         /\ Len(f.steps) = Len(e.steps) + 1 /\ f.steps[Len(e.steps) + 1] = step
         /\ \A n \in 1..Len(e.steps) : f.steps[n] = e.steps[n]
         /\ DOMAIN e.steps = 1..Len(e.steps)
         /\ DOMAIN f.steps = 1..(Len(e.steps) + 1)
  <1>1. PICK S : e \in [name : DOMAIN Declarations, steps : Seq(S), use : Uses]
    BY DEF IsExpression, Extended
  <1> DEFINE T == S \cup {step}
             s == e.steps
             q == Append(s, step)
  <1>2. s \in Seq(S) /\ f = [name |-> e.name, steps |-> q, use |-> e.use] /\ e.name \in DOMAIN Declarations /\ e.use \in Uses
    BY <1>1 DEF Extended
  <1> HIDE DEF s
  <1>3. s \in Seq(T) /\ step \in T
    BY <1>2
  <1> HIDE DEF T
  <1>4. /\ q \in Seq(T) /\ Len(s) \in Nat /\ Len(q) = Len(s) + 1 /\ q[Len(s) + 1] = step
        /\ \A n \in 1..Len(s) : q[n] = s[n]
        /\ DOMAIN s = 1..Len(s) /\ DOMAIN q = 1..(Len(s) + 1)
    BY <1>3, AppendProperties
  <1> HIDE DEF q
  <1>5. IsExpression(f) /\ f.steps = q /\ f.name = e.name /\ f.use = e.use
    BY <1>2, <1>4, MakeExpression
  <1>7. QED
    BY <1>2, <1>4, <1>5 DEF s

LEMMA PartsStay ==
  ASSUME NEW e, NEW step, NEW f, Extended(e, step, f)
  PROVE  /\ RootSymbol(f) = RootSymbol(e)
         /\ \A n \in 0..Len(e.steps) : Op(f, n) = Op(e, n) /\ PartType(f, n) = PartType(e, n)
         /\ LastOp(f) = step.op /\ TypeOf(f) = step.type /\ Op(f, Len(e.steps) + 1) = step.op
         /\ Container(f, Len(e.steps) + 1) = Kind(TypeOf(e))
         /\ \A n \in 1..Len(e.steps) : /\ Container(f, n) = Container(e, n) /\ (InPart(f, n) <=> InPart(e, n))
                                       /\ Member(f, n) = Member(e, n)
  <1>1. /\ f.name = e.name /\ f.use = e.use /\ Len(e.steps) \in Nat
        /\ Len(f.steps) = Len(e.steps) + 1 /\ f.steps[Len(e.steps) + 1] = step
        /\ \A n \in 1..Len(e.steps) : f.steps[n] = e.steps[n]
    BY StepAppended
  <1>2. \A n \in 0..Len(e.steps) : Op(f, n) = Op(e, n) /\ PartType(f, n) = PartType(e, n)
    BY <1>1 DEF Op, PartType
  <1>3. LastOp(f) = step.op /\ TypeOf(f) = step.type /\ Op(f, Len(e.steps) + 1) = step.op /\ RootSymbol(f) = RootSymbol(e)
    BY <1>1 DEF LastOp, Op, TypeOf, PartType, RootSymbol
  <1>4. Container(f, Len(e.steps) + 1) = Kind(TypeOf(e))
    <2>1. Len(e.steps) + 1 - 1 = Len(e.steps) /\ Len(e.steps) \in 0..Len(e.steps)
      BY <1>1
    <2>2. QED
      BY <2>1, <1>2 DEF Container, TypeOf
  <1>5. ASSUME NEW n \in 1..Len(e.steps)
        PROVE  /\ Container(f, n) = Container(e, n) /\ (InPart(f, n) <=> InPart(e, n))
               /\ Member(f, n) = Member(e, n)
    <2>1. n - 1 \in 0..Len(e.steps) /\ n \in 0..Len(e.steps)
      BY <1>1
    <2>2. PartType(f, n - 1) = PartType(e, n - 1) /\ Op(f, n) = Op(e, n)
      BY <2>1, <1>2
    <2>3. Container(f, n) = Container(e, n)
      BY <2>2 DEF Container
    <2>4. InPart(f, n) <=> InPart(e, n)
      BY <2>2, <2>3 DEF InPart
    <2>5. Member(f, n) = Member(e, n)
      BY <2>2, <2>3, <1>1 DEF Member
    <2>6. QED
      BY <2>3, <2>4, <2>5
  <1>6. QED
    BY <1>2, <1>3, <1>4, <1>5

(* A part that is not to be read makes longer expressions no less readable *)
(* than itself, and only a member can make a readable one forbidden.       *)
LEMMA RestrictionStays ==
  ASSUME NEW e, NEW step, NEW f, Extended(e, step, f)
  PROVE  /\ \A k \in 0..Len(e.steps) : Restricted(f, "noread", k) => Restricted(e, "noread", k)
         /\ Restricted(f, "noread", Len(e.steps) + 1) =>
              \/ Restricted(e, "noread", Len(e.steps))
              \/ step.op = "member" /\ "noread" \in Member(f, Len(e.steps) + 1).attrs
  <1> DEFINE l == Len(e.steps)
  <1>1. l \in Nat
    BY StepAppended
  <1>2. /\ RootSymbol(f) = RootSymbol(e) /\ Op(f, l + 1) = step.op
        /\ \A n \in 1..l : (InPart(f, n) <=> InPart(e, n)) /\ Member(f, n) = Member(e, n) /\ Op(f, n) = Op(e, n)
    <2>1. \A n \in 1..l : n \in 0..l
      BY <1>1
    <2>2. /\ RootSymbol(f) = RootSymbol(e)
          /\ \A n \in 0..Len(e.steps) : Op(f, n) = Op(e, n) /\ PartType(f, n) = PartType(e, n)
          /\ Op(f, Len(e.steps) + 1) = step.op
          /\ \A n \in 1..Len(e.steps) : /\ Container(f, n) = Container(e, n) /\ (InPart(f, n) <=> InPart(e, n))
                                       /\ Member(f, n) = Member(e, n)
      BY PartsStay
    <2>3. QED
      BY <2>1, <2>2
  <1> HIDE DEF l
  <1>3. ASSUME NEW k \in 0..l, Restricted(f, "noread", k) PROVE Restricted(e, "noread", k)
    <2>1. \A n \in 1..k : n \in 1..l
      BY <1>1
    <2>2. CASE "noread" \in RootSymbol(f).attrs /\ \A n \in 1..k : InPart(f, n)
      BY <2>1, <2>2, <1>2 DEF Restricted
    <2>3. CASE \E m \in 1..k : /\ Op(f, m) = "member" /\ "noread" \in Member(f, m).attrs
                               /\ \A n \in (m + 1)..k : InPart(f, n)
      <3>1. PICK m \in 1..k : /\ Op(f, m) = "member" /\ "noread" \in Member(f, m).attrs
                              /\ \A n \in (m + 1)..k : InPart(f, n)
        BY <2>3
      <3>2. \A n \in (m + 1)..k : n \in 1..l
        BY <1>1
      <3>3. \A n \in (m + 1)..k : InPart(e, n)
        BY <3>1, <3>2, <1>2
      <3>4. Op(e, m) = "member" /\ "noread" \in Member(e, m).attrs
        BY <3>1, <2>1, <1>2
      <3>5. QED
        BY <3>3, <3>4 DEF Restricted
    <2>4. QED
      BY <1>3, <2>2, <2>3 DEF Restricted
  <1>4. ASSUME Restricted(f, "noread", l + 1), ~(step.op = "member" /\ "noread" \in Member(f, l + 1).attrs)
        PROVE  Restricted(f, "noread", l)
    <2>1. \A n \in 1..l : n \in 1..(l + 1)
      BY <1>1
    <2>2. CASE "noread" \in RootSymbol(f).attrs /\ \A n \in 1..(l + 1) : InPart(f, n)
      BY <2>1, <2>2 DEF Restricted
    <2>3. CASE \E m \in 1..(l + 1) : /\ Op(f, m) = "member" /\ "noread" \in Member(f, m).attrs
                                     /\ \A n \in (m + 1)..(l + 1) : InPart(f, n)
      <3>1. PICK m \in 1..(l + 1) : /\ Op(f, m) = "member" /\ "noread" \in Member(f, m).attrs
                                    /\ \A n \in (m + 1)..(l + 1) : InPart(f, n)
        BY <2>3
      <3>2. m # l + 1
        BY <3>1, <1>2, <1>4
      <3>3. m \in 1..l /\ \A n \in (m + 1)..l : n \in (m + 1)..(l + 1)
        BY <3>2, <1>1
      <3>4. QED
        BY <3>1, <3>3 DEF Restricted
    <2>4. QED
      BY <1>4, <2>2, <2>3 DEF Restricted
  <1>5. l \in 0..l
    BY <1>1
  <1>6. QED
    BY <1>3, <1>4, <1>5 DEF l

(* A step of the postfix loop (ParsePostfix) keeps the invariant if it     *)
(* raises what the part it adds forbids.                                   *)
LEMMA ExtendKeeps ==
  ASSUME DesignatorIInv, NEW step, Parsing, Same, Extend(step),
         diags \subseteq diags', reported => reported',
         \A d \in diags' : d \in diags \/ (d[1] = "access" /\ d[2] = Len(expr.steps) + 1),
         LastOp(expr) \notin Changing, step.op \in Changing => Kind(step.type) = "none",
         step.op = "member" /\ "noread" \in Member(expr', Len(expr.steps) + 1).attrs =>
           IF AccessHeldBack(expr.use) THEN <<"access", Len(expr.steps) + 1>> \in diags' ELSE reported',
         step.op = "method" /\ Rooted(expr) /\ (RootSymbol(expr).sort = "const" \/ ~RefWriteable(expr)) => reported'
  PROVE  DesignatorIInv'
  <1> DEFINE e == expr
             f == expr'
             l == Len(expr.steps)
  <1>a. NamesOK(names) /\ ExprOK(e) /\ e # NoExpression /\ names' = names /\ last' = last /\ l < MaxSteps
    BY DEF DesignatorIInv, Parsing, Same
  <1>b. Extended(e, step, f)
    BY <1>a DEF Extended, ExprOK, Extend, NamesOK
  <1>c. /\ IsExpression(f) /\ f.name = e.name /\ f.use = e.use /\ l \in Nat /\ Len(f.steps) = l + 1
        /\ DOMAIN e.steps = 1..l
    BY <1>b, StepAppended
  <1>d. /\ RootSymbol(f) = RootSymbol(e)
        /\ \A n \in 0..l : Op(f, n) = Op(e, n)
        /\ LastOp(f) = step.op /\ TypeOf(f) = step.type
        /\ \A n \in 1..l : InPart(f, n) <=> InPart(e, n)
    BY <1>b, PartsStay
  <1>e. /\ \A k \in 0..l : Restricted(f, "noread", k) => Restricted(e, "noread", k)
        /\ Restricted(f, "noread", l + 1) =>
              Restricted(e, "noread", l) \/ (step.op = "member" /\ "noread" \in Member(f, l + 1).attrs)
    BY <1>b, RestrictionStays
  <1>m. MaxSteps \in Nat
    BY DesignatorAssumption
  <1> HIDE DEF l
  <1> DEFINE r == RootSymbol(e)
             P(k) == Restricted(e, "noread", k)
             Q(k) == Restricted(f, "noread", k)
             held == AccessHeldBack(e.use)
             marked == "noread" \in Member(f, l + 1).attrs
  <1>1. \A n \in 1..l : Op(f, n) \notin Changing
    <2> SUFFICES ASSUME NEW n \in 1..l PROVE Op(f, n) \notin Changing
      OBVIOUS
    <2>1. Op(f, n) = Op(e, n)
      BY <1>c, <1>d
    <2>2. CASE n = l
      BY <2>1, <2>2 DEF LastOp, l
    <2>3. CASE n # l
      BY <2>1, <2>3, <1>a, <1>c DEF ExprOK, l
    <2>4. QED
      BY <2>2, <2>3
  <1>2. \A d \in diags' : d[1] \in {"access", "init"} /\ d[2] \in 0..(l + 1)
    <2>1. \A d \in diags : d[1] \in {"access", "init"} /\ d[2] \in 0..l
      BY <1>a DEF ExprOK, l
    <2>2. QED
      BY <2>1, <1>c DEF l
  <1>3. ~r.inited => IF HeldBack(f.use) THEN <<"init", 0>> \in diags' ELSE reported'
    BY <1>a, <1>c DEF ExprOK
  <1>4. ASSUME NEW k \in 0..(l + 1), Q(k)
        PROVE  IF held THEN \E j \in 0..k : <<"access", j>> \in diags' ELSE reported'
    <2>1. \A i \in 0..l : P(i) => IF held THEN \E j \in 0..i : <<"access", j>> \in diags ELSE reported
      BY <1>a DEF ExprOK, l
    <2>2. CASE k # l + 1
      <3>1. k \in 0..l /\ P(k)
        BY <2>2, <1>4, <1>c, <1>e
      <3> HIDE DEF P, held
      <3>2. QED
        BY <3>1, <2>1
    <2>3. CASE k = l + 1
      <3>1. CASE P(l)
        <4>1. l \in 0..l /\ \A j \in 0..l : j \in 0..k
          BY <1>c, <2>3
        <4> HIDE DEF P, held
        <4>2. QED
          BY <3>1, <4>1, <2>1
      <3>2. CASE step.op = "member" /\ marked
        <4>1. IF held THEN <<"access", l + 1>> \in diags' ELSE reported'
          BY <3>2 DEF l
        <4>2. l + 1 \in 0..k
          BY <1>c, <2>3
        <4> HIDE DEF held
        <4>3. QED
          BY <4>1, <4>2, <2>3
      <3>3. QED
        BY <2>3, <3>1, <3>2, <1>4, <1>e
    <2>4. QED
      BY <2>2, <2>3
  <1>5. LastOp(f) = "method" /\ (\A n \in 1..l : InPart(f, n)) /\ (r.sort = "const" \/ r.mode = "refin") => reported'
    BY <1>c, <1>d DEF Rooted, RefWriteable
  <1>6. ExprOK(expr)'
    <2>1. RootSymbol(expr)' = r
      BY <1>a, <1>d DEF RootSymbol
    <2>2. \A k : Restricted(expr, "noread", k)' <=> Q(k)
      BY <1>a DEF Restricted, InPart, Op, Container, PartType, Member, RootSymbol
    <2>3. LastOp(expr)' = LastOp(f) /\ TypeOf(expr)' = TypeOf(f) /\ (\A n : Op(expr, n)' = Op(f, n)) /\ (\A n : InPart(expr, n)' <=> InPart(f, n))
      BY <1>a DEF LastOp, Op, TypeOf, PartType, InPart, Container
    <2>4. Len(f.steps) = l + 1 /\ Len(f.steps) - 1 = l /\ l + 1 <= MaxSteps
      BY <1>a, <1>c, <1>m DEF l
    <2> HIDE DEF r, P, Q, held, marked
    <2>5. IsExpression(expr)' /\ Len(f.steps) <= MaxSteps /\ (LastOp(f) \in Changing => Kind(TypeOf(f)) = "none")
      BY <1>c, <1>d, <2>4 DEF IsExpression
    <2>6. (\A n \in 1..(Len(f.steps) - 1) : Op(f, n) \notin Changing)
      BY <1>1, <2>4
    <2>7. LastOp(f) = "method" /\ (\A n \in 1..(Len(f.steps) - 1) : InPart(f, n)) /\ (r.sort = "const" \/ r.mode = "refin") => reported'
      BY <1>5, <2>4
    <2>8. \A k \in 0..Len(f.steps) : Q(k) => IF AccessHeldBack(f.use) THEN \E j \in 0..k : <<"access", j>> \in diags' ELSE reported'
      BY <1>4, <2>4, <1>c DEF held
    <2>9. QED
      BY <1>2, <1>3, <2>1, <2>2, <2>3, <2>4, <2>5, <2>6, <2>7, <2>8 DEF ExprOK
  <1>7. expr' # NoExpression
    <2>1. f.use \in Uses
      BY <1>c DEF IsExpression
    <2>2. NoExpression.use = "none" /\ "none" \notin Uses
      BY DEF NoExpression, Uses
    <2>3. QED
      BY <2>1, <2>2
  <1>8. DesignatorTypesOK'
    <2>1. f.name \in DOMAIN names /\ f.use \in Uses /\ Len(f.steps) <= MaxSteps
      BY <1>6, <1>a, <1>c DEF ExprOK, IsExpression, NamesOK
    <2>2. \A x \in DOMAIN names : names[x].owner \in DOMAIN names \cup {"elsewhere"}
      BY <1>a DEF NamesOK, OwnerNames
    <2>3. QED
      BY <2>1, <2>2, <1>2, <1>a, <1>c DEF DesignatorTypesOK
  <1>9. QED
    BY <1>a, <1>6, <1>7, <1>8 DEF DesignatorIInv, NamesOK, DirectWritesRespected, NoReadHonoured, NothingReadUnset

LEMMA BeginKeepsDesignator ==
  ASSUME DesignatorIInv, NEW x \in DOMAIN names, NEW use \in Uses, Begin(x, use)
  PROVE  DesignatorIInv'
  <1> DEFINE held(kind) == IF kind = "access" THEN AccessHeldBack(use) ELSE HeldBack(use)
             raised == (IF "noread" \in names[x].attrs THEN {"access"} ELSE {}) \cup (IF names[x].inited THEN {} ELSE {"init"})
             f == [name |-> x, steps |-> <<>>, use |-> use]
  <1>1. /\ expr' = f /\ names' = names /\ last' = last
        /\ diags' = {<<k, 0>> : k \in {k \in raised : held(k)}}
        /\ reported' = (\E k \in raised : ~held(k))
    BY DEF Begin, Same
  <1>2. NamesOK(names) /\ MaxSteps \in Nat
    BY DesignatorAssumption DEF DesignatorIInv
  <1>3. IsExpression(f) /\ f.steps = <<>> /\ Len(f.steps) = 0 /\ f.use = use /\ f.name = x
    <2>1. x \in DOMAIN Declarations /\ <<>> \in Seq({})
      BY <1>2 DEF NamesOK
    <2>2. f \in [name : DOMAIN Declarations, steps : Seq({}), use : Uses]
      BY <2>1
    <2>3. IsExpression(f)
      BY <2>2 DEF IsExpression
    <2>4. QED
      BY <2>3
  <1>4. RootSymbol(f) = names[x] /\ LastOp(f) = "name" /\ \A k \in 0..0 : Restricted(f, "noread", k) => "noread" \in names[x].attrs
    BY <1>3 DEF RootSymbol, LastOp, Op, Restricted
  <1>5. \A d \in diags' : d[1] \in {"access", "init"} /\ d[2] = 0
    BY <1>1
  <1>6. ~names[x].inited => IF HeldBack(use) THEN <<"init", 0>> \in diags' ELSE reported'
    BY <1>1
  <1>7. "noread" \in names[x].attrs => IF AccessHeldBack(use) THEN <<"access", 0>> \in diags' ELSE reported'
    BY <1>1
  <1> HIDE DEF f
  <1>8. ExprOK(expr)'
    <2>1. /\ RootSymbol(expr)' = RootSymbol(f) /\ LastOp(expr)' = LastOp(f)
          /\ \A k : Restricted(expr, "noread", k)' <=> Restricted(f, "noread", k)
      BY <1>1 DEF Restricted, InPart, Op, Container, PartType, Member, RootSymbol, LastOp
    <2>2. IsExpression(expr)' /\ expr' = f
      BY <1>1, <1>3 DEF IsExpression
    <2>3. \A n \in 1..(0 - 1) : FALSE
      OBVIOUS
    <2>4. \A k \in 0..0 : Restricted(f, "noread", k) => IF AccessHeldBack(f.use) THEN \E j \in 0..k : <<"access", j>> \in diags' ELSE reported'
      BY <1>3, <1>4, <1>7
    <2>5. \A d \in diags' : d[1] \in {"access", "init"} /\ d[2] \in 0..0
      BY <1>5
    <2>6. QED
      BY <1>2, <1>3, <1>4, <1>6, <2>1, <2>2, <2>3, <2>4, <2>5 DEF ExprOK, Changing
  <1>9. expr' # NoExpression
    <2>1. NoExpression.use = "none" /\ "none" \notin Uses
      BY DEF NoExpression, Uses
    <2>2. QED
      BY <2>1, <1>1, <1>3
  <1>10. DesignatorTypesOK'
    <2>1. \A y \in DOMAIN names : names[y].owner \in DOMAIN names \cup {"elsewhere"}
      BY <1>2 DEF NamesOK, OwnerNames
    <2>2. QED
      BY <2>1, <1>1, <1>2, <1>3, <1>5 DEF DesignatorTypesOK
  <1>11. QED
    BY <1>1, <1>2, <1>8, <1>9, <1>10 DEF DesignatorIInv, NamesOK, DirectWritesRespected, NoReadHonoured, NothingReadUnset

(* A call of a changing method is the end of its expression.               *)
LEMMA LastOfExpression ==
  ASSUME DesignatorIInv, expr # NoExpression
  PROVE  /\ LastOp(expr) \in Changing => ~IsLValue(expr) /\ Kind(TypeOf(expr)) = "none"
         /\ Kind("none") = "none" /\ Len(expr.steps) \in Nat /\ expr.use \in Uses
         /\ DOMAIN expr.steps = 1..Len(expr.steps)
  <1>1. ExprOK(expr) /\ IsExpression(expr)
    BY DEF DesignatorIInv, ExprOK
  <1>2. LastOp(expr) \in Changing => ~IsLValue(expr) /\ Kind(TypeOf(expr)) = "none"
    BY <1>1 DEF ExprOK, IsLValue, Changing
  <1>3. Kind("none") = "none"
    BY DesignatorAssumption DEF Kind
  <1>4. PICK S : expr \in [name : DOMAIN Declarations, steps : Seq(S), use : Uses]
    BY <1>1 DEF IsExpression
  <1>5. QED
    BY <1>2, <1>3, <1>4

LEMMA ParseStepsKeep ==
  ASSUME DesignatorIInv, ParseIndex \/ ParsePointerIndex \/ ParseDeref \/ ParseMember \/ ParseMutator \/ ParseMethodCall
  PROVE  DesignatorIInv'
  <1>0. expr # NoExpression
    BY DEF ParseIndex, ParsePointerIndex, ParseDeref, ParseMember, ParseMutator, ParseMethodCall, Parsing
  <1>1. ASSUME NEW step, Parsing, Same, Extend(step), Silent, LastOp(expr) \notin Changing,
               step.op \notin {"member", "method"}, step.op = "mutator" => Kind(step.type) = "none"
        PROVE  DesignatorIInv'
    <2>1. step.op \in Changing => Kind(step.type) = "none"
      BY <1>1 DEF Changing
    <2>2. diags' = diags /\ reported' = reported
      BY <1>1 DEF Silent
    <2>3. QED
      BY <1>1, <2>1, <2>2, ExtendKeeps
  <1>2. CASE ParseIndex
    <2>1. PICK t : Extend(Step("index", t, ""))
      BY <1>2 DEF ParseIndex
    <2>2. LastOp(expr) \notin Changing
      BY <1>0, <1>2, LastOfExpression DEF ParseIndex
    <2>3. Step("index", t, "").op = "index"
      BY DEF Step
    <2>4. QED
      BY <2>1, <2>2, <2>3, <1>1, <1>2 DEF ParseIndex
  <1>3. CASE ParsePointerIndex \/ ParseDeref
    <2>1. PICK t, op : op \in {"pointer index", "deref"} /\ Extend(Step(op, t, ""))
      BY <1>3 DEF ParsePointerIndex, ParseDeref
    <2>2. LastOp(expr) \notin Changing
      BY <1>0, <1>3, LastOfExpression DEF ParsePointerIndex, ParseDeref
    <2>3. Step(op, t, "").op = op
      BY DEF Step
    <2>4. QED
      BY <2>1, <2>2, <2>3, <1>1, <1>3 DEF ParsePointerIndex, ParseDeref
  <1>4. CASE ParseMember
    <2> DEFINE base == IF Kind(TypeOf(expr)) = "pointer" THEN Types[TypeOf(expr)].elem ELSE TypeOf(expr)
               l == Len(expr.steps)
    <2>1. Parsing /\ Same /\ Kind(base) \in Compounds
      BY <1>4 DEF ParseMember
    <2>2. PICK m \in DOMAIN Types[base].members :
             LET member == Types[base].members[m]
                 step == Step(IF "property" \in member.attrs THEN "property" ELSE "member", member.type, m)
             IN  /\ IsLValue(expr) \/ (Kind(TypeOf(expr)) = "object" /\ step.op = "property")
                 /\ Extend(step)
                 /\ IF step.op = "property" /\ "noread" \in member.attrs
                    THEN reported' = (reported \/ ~HeldBack(expr.use)) /\ UNCHANGED diags
                    ELSE IF step.op = "member" /\ "noread" \in member.attrs THEN Raise("access", Len(expr.steps) + 1)
                    ELSE Silent
      BY <1>4 DEF ParseMember
    <2> DEFINE member == Types[base].members[m]
               op == IF "property" \in member.attrs THEN "property" ELSE "member"
               step == Step(op, member.type, m)
    <2>3. step.op = op /\ step.name = m /\ op \in {"property", "member"}
      BY DEF Step
    <2>4. LastOp(expr) \notin Changing
      <3>1. Kind(TypeOf(expr)) = "none" => Kind(base) = "none"
        OBVIOUS
      <3>2. "none" \notin Compounds
        BY DEF Compounds
      <3>3. QED
        BY <3>1, <3>2, <2>1, <1>0, LastOfExpression
    <2>5. Extend(step)
      BY <2>2
    <2>6. Extended(expr, step, expr')
      BY <2>5, <1>0 DEF Extended, Extend, DesignatorIInv, ExprOK, NamesOK
    <2>7. Member(expr', l + 1) = member
      <3>1. /\ \A n \in 0..Len(expr.steps) : Op(expr', n) = Op(expr, n) /\ PartType(expr', n) = PartType(expr, n)
            /\ Container(expr', Len(expr.steps) + 1) = Kind(TypeOf(expr))
        BY <2>6, PartsStay
      <3>2. Len(expr.steps) \in Nat /\ expr'.steps[Len(expr.steps) + 1] = step
        BY <2>6, StepAppended
      <3>3. l + 1 - 1 = l /\ l \in 0..l
        BY <3>2
      <3>4. PartType(expr', l + 1 - 1) = TypeOf(expr)
        BY <3>1, <3>3 DEF TypeOf
      <3>5. expr'.steps[l + 1].name = m /\ Container(expr', l + 1) = Kind(TypeOf(expr))
        BY <3>1, <3>2, <2>3
      <3>6. QED
        BY <3>4, <3>5 DEF Member
    <2>8. op = "member" /\ "noread" \in member.attrs =>
            IF AccessHeldBack(expr.use) THEN diags' = diags \cup {<<"access", l + 1>>} /\ reported' = reported
            ELSE reported' = TRUE /\ diags' = diags
      BY <2>2, <2>3 DEF Raise
    <2>9. ~(op = "member" /\ "noread" \in member.attrs) => diags' = diags /\ (reported => reported')
      BY <2>2, <2>3 DEF Silent
    <2> HIDE DEF step, member, op, l
    <2>10. diags \subseteq diags' /\ (reported => reported') /\ \A d \in diags' : d \in diags \/ (d[1] = "access" /\ d[2] = l + 1)
      BY <2>8, <2>9
    <2>11. step.op = "member" /\ "noread" \in Member(expr', l + 1).attrs =>
            IF AccessHeldBack(expr.use) THEN <<"access", l + 1>> \in diags' ELSE reported'
      BY <2>3, <2>7, <2>8
    <2>12. step.op \notin Changing /\ step.op # "method"
      BY <2>3 DEF Changing
    <2>13. QED
      BY <2>1, <2>4, <2>5, <2>10, <2>11, <2>12, ExtendKeeps DEF l
  <1>5. CASE ParseMutator
    <2>2. LastOp(expr) \notin Changing
      BY <1>0, <1>5, LastOfExpression DEF ParseMutator
    <2>3. Step("mutator", "none", "").op = "mutator" /\ Kind(Step("mutator", "none", "").type) = "none"
      BY LastOfExpression, <1>0 DEF Step
    <2>4. QED
      BY <2>2, <2>3, <1>1, <1>5 DEF ParseMutator
  <1>6. CASE ParseMethodCall
    <2> DEFINE step == Step("method", "none", "")
    <2>1. Parsing /\ Same /\ Extend(step) /\ diags' = diags
          /\ reported' = (reported \/ (Rooted(expr) /\ (RootSymbol(expr).sort = "const" \/ ~RefWriteable(expr))))
      BY <1>6 DEF ParseMethodCall
    <2>2. LastOp(expr) \notin Changing
      BY <1>0, <1>6, LastOfExpression DEF ParseMethodCall
    <2>3. step.op = "method" /\ Kind(step.type) = "none"
      BY LastOfExpression, <1>0 DEF Step
    <2> HIDE DEF step
    <2>4. QED
      BY <2>1, <2>2, <2>3, ExtendKeeps
  <1>7. QED
    BY <1>2, <1>3, <1>4, <1>5, <1>6

(* Whose storage is designated, by the parts that lead outwards.           *)
LEMMA OwnerIs ==
  ASSUME NEW e, NamesOK(names), e.name \in DOMAIN Declarations
  PROVE  /\ Outward(e) = {} => Owner(e) = RootSymbol(e).owner
         /\ Outward(e) = {1} => Owner(e) = RootSymbol(e).target
         /\ Outward(e) \notin {{}, {1}} => Owner(e) = "elsewhere"
         /\ Owner(e) \in OwnerNames
  <1>1. RootSymbol(e).owner \in OwnerNames /\ RootSymbol(e).target \in OwnerNames /\ "elsewhere" \in OwnerNames
    BY DEF NamesOK, RootSymbol, OwnerNames
  <1>2. {} # {1}
    OBVIOUS
  <1>3. QED
    BY <1>1, <1>2 DEF Owner

(* Without a part that leads outwards an expression is a path of members   *)
(* and elements from its name.                                             *)
LEMMA InwardIsRooted ==
  ASSUME DesignatorIInv, expr # NoExpression, Outward(expr) = {}
  PROVE  /\ LastOp(expr) \notin Changing => Rooted(expr) /\ LastOp(expr) \in {"name", "member", "index"} /\ \A n \in DOMAIN expr.steps : Passed(expr, n)
         /\ \A n \in 1..(Len(expr.steps) - 1) : InPart(expr, n)
  <1> DEFINE e == expr
             l == Len(expr.steps)
  <1>1. l \in Nat /\ DOMAIN e.steps = 1..l /\ ExprOK(e)
    BY LastOfExpression DEF DesignatorIInv
  <1>2. \A n \in 1..l : Op(e, n) \notin Changing => Passed(e, n)
    BY <1>1 DEF Outward, Changing
  <1>3. \A n \in 1..l : Passed(e, n) => InPart(e, n) /\ Op(e, n) \in {"member", "index"}
    BY DEF Passed, InPart
  <1>4. \A n \in 1..(l - 1) : Op(e, n) \notin Changing /\ n \in 1..l
    BY <1>1 DEF ExprOK
  <1>5. \A n \in 1..(l - 1) : InPart(e, n)
    BY <1>2, <1>3, <1>4
  <1>6. ASSUME LastOp(e) \notin Changing PROVE \A n \in 1..l : Op(e, n) \notin Changing
    <2>1. \A n \in 1..l : n = l \/ n \in 1..(l - 1)
      BY <1>1
    <2>2. QED
      BY <2>1, <1>4, <1>6 DEF LastOp
  <1>7. ASSUME LastOp(e) \notin Changing PROVE LastOp(e) \in {"name", "member", "index"}
    <2>1. CASE l = 0
      BY <2>1 DEF LastOp, Op
    <2>2. CASE l # 0
      <3>1. l \in 1..l
        BY <2>2, <1>1
      <3>2. QED
        BY <3>1, <1>2, <1>3, <1>6, <1>7 DEF LastOp
    <2>3. QED
      BY <2>1, <2>2
  <1>8. QED
    BY <1>1, <1>2, <1>3, <1>5, <1>6, <1>7 DEF Rooted

(* What a statement is that the compiler accepts; whatever it writes       *)
(* without a detour belongs to a name that may be written.                 *)
AcceptedStatement == DesignatorIInv /\ expr # NoExpression /\ StatementAccepted(expr) /\ (expr.use = "call" <=> LastOp(expr) \in Changing)

LEMMA WritableRoot ==
  ASSUME AcceptedStatement, Outward(expr) = {}, LastOp(expr) # "mutator", Writes(expr) \/ expr.use = "local ref"
  PROVE  RootSymbol(expr).sort # "const" /\ RootSymbol(expr).mode # "refin"
  <1> DEFINE e == expr
             free == RootSymbol(e).sort # "const" /\ RootSymbol(e).mode # "refin"
  <1>1. ExprOK(e) /\ ~reported /\ e.use \in Uses
    BY LastOfExpression DEF AcceptedStatement, DesignatorIInv, StatementAccepted
  <1>2. CASE e.use = "call"
    <2>1. LastOp(e) = "method"
      BY <1>2 DEF AcceptedStatement, Changing
    <2>2. \A n \in 1..(Len(e.steps) - 1) : InPart(e, n)
      BY InwardIsRooted DEF AcceptedStatement
    <2>3. QED
      BY <2>1, <2>2, <1>1 DEF ExprOK
  <1>3. CASE e.use # "call"
    <2>1. Rooted(e) /\ LastOp(e) \in {"name", "member", "index"}
      BY <1>3, InwardIsRooted DEF AcceptedStatement
    <2>2. IsLValue(e) /\ LastOp(e) # "property"
      BY <2>1 DEF IsLValue
    <2>3. CASE e.use \in {"assign", "modify"}
      <3>1. Assignable(e)
        BY <2>3 DEF AcceptedStatement, StatementAccepted
      <3>2. QED
        BY <3>1, <2>1, <2>2 DEF Assignable, RefWriteable
    <2>4. CASE e.use \in {"ref", "refin", "refout", "local ref"}
      <3>1. Bindable(e)
        BY <2>4 DEF AcceptedStatement, StatementAccepted, Argument
      <3>2. QED
        BY <3>1, <2>1 DEF Bindable, RefWriteable
    <2>5. CASE e.use \in {"delete", "delete = nil"}
      <3>1. Deletable(e)
        BY <2>5 DEF AcceptedStatement, StatementAccepted
      <3>2. Kind(TypeOf(e)) = "object" \/ e.use = "delete = nil"
        BY <2>5 DEF Writes
      <3>3. QED
        BY <3>1, <3>2, <2>1, <2>2 DEF Deletable, RefWriteable
    <2>6. e.use \in {"assign", "modify", "ref", "refin", "refout", "local ref", "delete", "delete = nil"}
      BY <1>3 DEF Writes
    <2>7. QED
      BY <2>3, <2>4, <2>5, <2>6
  <1>4. QED
    BY <1>2, <1>3

LEMMA WritesAreDirect ==
  ASSUME AcceptedStatement, Effect(expr).writes \in ReadOnlyStorage
  PROVE  Effect(expr).escapes
  <1> SUFFICES ASSUME Outward(expr) = {}, LastOp(expr) # "mutator", RootSymbol(expr).direct PROVE FALSE
    BY DEF Effect
  <1>1. Writes(expr)
    BY DesignatorAssumption DEF Effect, ReadOnlyStorage
  <1>2. RootSymbol(expr).sort # "const" /\ RootSymbol(expr).mode # "refin"
    BY <1>1, WritableRoot
  <1>3. NamesOK(names) /\ expr.name \in DOMAIN Declarations
    BY DEF AcceptedStatement, DesignatorIInv, ExprOK, IsExpression
  <1>4. RootSymbol(expr).owner \in ReadOnlyStorage
    BY <1>1, <1>3, OwnerIs DEF Effect
  <1>5. expr.name \in ReadOnlyStorage
    BY <1>3, <1>4 DEF NamesOK, RootSymbol
  <1>6. QED
    BY <1>2, <1>3, <1>5 DEF NamesOK, RootSymbol, ReadOnlyStorage

(* What is not to be read and is read has its diagnostic, which only an    *)
(* address or a reference discards.                                        *)
LEMMA ReadsAreHeldBack ==
  ASSUME AcceptedStatement, "noread" \in Effect(expr).faults
  PROVE  AccessHeldBack(expr.use) /\ expr.use \notin {"assign", "modify", "call", "argument"}
  <1> DEFINE e == expr
             l == Len(expr.steps)
  <1>1. l \in Nat /\ DOMAIN e.steps = 1..l /\ ExprOK(e) /\ ~reported
    BY LastOfExpression DEF AcceptedStatement, DesignatorIInv, StatementAccepted
  <1>2. PICK n \in Loads(e) : Restricted(e, "noread", n)
    BY DEF Effect, Faults
  <1>3. n \in 0..l
    BY <1>1 DEF Loads
  <1>4. AccessHeldBack(e.use) /\ \E j \in 0..n : <<"access", j>> \in diags
    BY <1>1, <1>2, <1>3 DEF ExprOK
  <1>5. PICK j \in 0..n : <<"access", j>> \in diags
    BY <1>4
  <1>6. e.use \notin {"modify", "call", "argument"}
    <2>1. e.use \in {"modify", "call", "argument"} => diags = {}
      BY DEF AcceptedStatement, StatementAccepted, Emitted
    <2>2. QED
      BY <2>1, <1>5
  <1>7. ASSUME e.use = "assign" PROVE FALSE
    <2>1. {d \in diags : d[2] \notin Unread(e)} = {}
      BY <1>7 DEF AcceptedStatement, StatementAccepted, Emitted
    <2>2. j \in Unread(e)
      BY <2>1, <1>5
    <2>3. n + 1 \in DOMAIN e.steps /\ ~Passed(e, n + 1)
      BY <1>1, <1>7 DEF Loads, Followed
    <2>4. n + 1 \in (j + 1)..l
      BY <2>3, <1>1, <1>3
    <2>5. QED
      BY <2>2, <2>3, <2>4 DEF Unread
  <1>8. QED
    BY <1>4, <1>6, <1>7

(* A statement that needs a value has one, and so has what a name is bound *)
(* to.                                                                     *)
LEMMA RootIsInitialized ==
  ASSUME AcceptedStatement, expr.use \in Uses \ {"refout"},
         expr.use = "assign" => \E n \in DOMAIN expr.steps : ~Passed(expr, n)
  PROVE  RootSymbol(expr).inited
  <1> SUFFICES ASSUME ~RootSymbol(expr).inited PROVE FALSE
    OBVIOUS
  <1>1. ExprOK(expr) /\ ~reported /\ Len(expr.steps) \in Nat /\ DOMAIN expr.steps = 1..Len(expr.steps)
    BY LastOfExpression DEF AcceptedStatement, DesignatorIInv, StatementAccepted
  <1>2. HeldBack(expr.use) /\ <<"init", 0>> \in diags
    BY <1>1 DEF ExprOK
  <1>3. expr.use \in {"assign", "modify", "call", "argument", "ref", "refin"}
    BY <1>2 DEF HeldBack
  <1>4. CASE expr.use \in {"modify", "call", "argument"}
    BY <1>2, <1>4 DEF AcceptedStatement, StatementAccepted, Emitted
  <1>5. CASE expr.use \in {"ref", "refin"}
    <2>1. Argument(expr)
      BY <1>5 DEF AcceptedStatement, StatementAccepted
    <2>2. QED
      BY <2>1, <1>2, <1>5 DEF Argument
  <1>6. CASE expr.use = "assign"
    <2>1. {d \in diags : d[2] \notin Unread(expr)} = {}
      BY <1>6 DEF AcceptedStatement, StatementAccepted, Emitted
    <2>2. 0 \in Unread(expr)
      BY <2>1, <1>2
    <2>3. \A n \in 1..Len(expr.steps) : n \in (0 + 1)..Len(expr.steps)
      OBVIOUS
    <2>4. QED
      BY <2>2, <2>3, <1>1, <1>6 DEF Unread
  <1>7. QED
    BY <1>3, <1>4, <1>5, <1>6

LEMMA ReadsAreSet ==
  ASSUME AcceptedStatement, Effect(expr).unset
  PROVE  expr.use = "refout"
  <1> SUFFICES ASSUME expr.use # "refout" PROVE FALSE
    OBVIOUS
  <1> DEFINE own == {n \in Loads(expr) : \A m \in 1..n : Passed(expr, m)}
  <1>1. own # {} /\ RootSymbol(expr).owner \in DOMAIN names /\ ~names[RootSymbol(expr).owner].set
    BY DEF Effect, ReadsUnset
  <1>2. expr.use \in Uses /\ NamesOK(names) /\ expr.name \in DOMAIN Declarations /\ DOMAIN names = DOMAIN Declarations
    BY DEF AcceptedStatement, DesignatorIInv, ExprOK, IsExpression, NamesOK
  <1>3. expr.use = "assign" => \E n \in DOMAIN expr.steps : ~Passed(expr, n)
    BY <1>1 DEF Loads, Followed
  <1>4. RootSymbol(expr).inited
    BY <1>2, <1>3, RootIsInitialized
  <1>5. QED
    BY <1>1, <1>2, <1>4 DEF NamesOK, RootSymbol

(* What a statement changes of the names: references, pointers and slices  *)
(* are bound, what is assigned is initialised, what is written has a       *)
(* value.                                                                  *)
BindsRef(e, x) == e.use = "local ref" /\ x = "r"
BindsPointer(e, x) == (e.use = "address" /\ x = "p") \/ (e.use = "slice" /\ x = "s")
SetsName(e, x) == e.use \in {"assign", "refout"} /\ Rooted(e) /\ x = e.name

NamesChanged(e, q) ==
  /\ DOMAIN q = DOMAIN Declarations
  /\ \A x \in DOMAIN Declarations :
       /\ NameFields \subseteq DOMAIN q[x]
       /\ q[x].sort = names[x].sort /\ q[x].mode = names[x].mode
       /\ q[x].owner = IF BindsRef(e, x) THEN Owner(e) ELSE names[x].owner
       /\ IF BindsRef(e, x) THEN q[x].direct => Outward(e) = {} /\ RootSymbol(e).direct ELSE q[x].direct = names[x].direct
       /\ q[x].target = IF BindsPointer(e, x) THEN Owner(e) ELSE names[x].target
       /\ IF BindsRef(e, x) \/ BindsPointer(e, x) \/ SetsName(e, x) THEN q[x].inited ELSE q[x].inited = names[x].inited
       /\ names[x].set \/ BindsPointer(e, x) \/ (e.use = "refout" /\ SetsName(e, x)) => q[x].set

LEMMA BoundIsAChange ==
  ASSUME NEW e, NamesOK(names), e.name \in DOMAIN Declarations
  PROVE  NamesChanged(e, Bound(e))
  <1>1. {"p", "r", "s"} \subseteq DOMAIN Declarations
    BY DesignatorAssumption
  <1>2. DOMAIN names = DOMAIN Declarations /\ \A x \in DOMAIN Declarations : NameFields \subseteq DOMAIN names[x]
    BY DEF NamesOK
  <1>3. CASE e.use = "local ref"
    <2> DEFINE d == RootSymbol(e).direct /\ Outward(e) = {}
    <2>1. Bound(e) = [names EXCEPT !["r"] = [@ EXCEPT !.type = TypeOf(e), !.owner = Owner(e), !.inited = TRUE, !.direct = d]]
      BY <1>3 DEF Bound
    <2>2. d => RootSymbol(e).direct /\ Outward(e) = {}
      OBVIOUS
    <2> DEFINE q == Bound(e)
    <2> HIDE DEF d
    <2>3. DOMAIN q = DOMAIN Declarations /\ \A x \in DOMAIN Declarations \ {"r"} : q[x] = names[x]
      BY <1>1, <1>2, <2>1
    <2>4. q["r"] = [names["r"] EXCEPT !.type = TypeOf(e), !.owner = Owner(e), !.inited = TRUE, !.direct = d]
      BY <1>1, <1>2, <2>1
    <2> HIDE DEF q
    <2>5. /\ DOMAIN q["r"] = DOMAIN names["r"] /\ q["r"].sort = names["r"].sort /\ q["r"].mode = names["r"].mode
          /\ q["r"].owner = Owner(e) /\ q["r"].target = names["r"].target /\ q["r"].set = names["r"].set
          /\ q["r"].inited
      BY <1>1, <1>2, <2>4 DEF NameFields
    <2>6. q["r"].direct = d
      BY <1>1, <1>2, <2>4 DEF NameFields
    <2>7. q["r"].direct => Outward(e) = {} /\ RootSymbol(e).direct
      BY <2>2, <2>6
    <2>8. NamesChanged(e, q)
      BY <1>1, <1>2, <1>3, <2>3, <2>5, <2>7 DEF NamesChanged, BindsRef, BindsPointer, SetsName, NameFields
    <2>9. QED
      BY <2>8 DEF q
  <1>4. CASE e.use = "address"
    <2>1. Bound(e) = [names EXCEPT !["p"] = [@ EXCEPT !.target = Owner(e), !.inited = TRUE, !.set = TRUE]]
      BY <1>4 DEF Bound
    <2>2. QED
      BY <1>1, <1>2, <1>4, <2>1 DEF NamesChanged, BindsRef, BindsPointer, SetsName, NameFields
  <1>5. CASE e.use = "slice"
    <2>1. Bound(e) = [names EXCEPT !["s"] = [@ EXCEPT !.target = Owner(e), !.inited = TRUE, !.set = TRUE]]
      BY <1>5 DEF Bound
    <2>2. QED
      BY <1>1, <1>2, <1>5, <2>1 DEF NamesChanged, BindsRef, BindsPointer, SetsName, NameFields
  <1>6. CASE e.use = "assign" /\ Rooted(e)
    <2>1. Bound(e) = [names EXCEPT ![e.name].inited = TRUE]
      BY <1>6 DEF Bound
    <2>2. QED
      BY <1>1, <1>2, <1>6, <2>1 DEF NamesChanged, BindsRef, BindsPointer, SetsName, NameFields
  <1>7. CASE e.use = "refout" /\ Rooted(e)
    <2>1. Bound(e) = [names EXCEPT ![e.name].inited = TRUE, ![e.name].set = TRUE]
      BY <1>7 DEF Bound
    <2>2. QED
      BY <1>1, <1>2, <1>7, <2>1 DEF NamesChanged, BindsRef, BindsPointer, SetsName, NameFields
  <1>8. CASE e.use \notin {"local ref", "address", "slice"} /\ ~(e.use \in {"assign", "refout"} /\ Rooted(e))
    <2>1. Bound(e) = names
      BY <1>8 DEF Bound
    <2>2. QED
      BY <1>1, <1>2, <1>8, <2>1 DEF NamesChanged, BindsRef, BindsPointer, SetsName, NameFields
  <1>9. QED
    <2>1. CASE e.use \in {"assign", "refout"} /\ Rooted(e)
      <3>1. CASE e.use = "assign"
        BY <2>1, <3>1, <1>6
      <3>2. CASE e.use = "refout"
        BY <2>1, <3>2, <1>7
      <3>3. QED
        BY <2>1, <3>1, <3>2
    <2>2. CASE ~(e.use \in {"assign", "refout"} /\ Rooted(e))
      <3>1. CASE e.use \notin {"local ref", "address", "slice"}
        BY <2>2, <3>1, <1>8
      <3>2. CASE e.use \in {"local ref", "address", "slice"}
        BY <3>2, <1>3, <1>4, <1>5
      <3>3. QED
        BY <3>1, <3>2
    <2>3. QED
      BY <2>1, <2>2

LEMMA SetIsAChange ==
  ASSUME NEW e, NEW b, NamesChanged(e, b), NEW y \in DOMAIN Declarations, NEW q, q = [b EXCEPT ![y] = [@ EXCEPT !.set = TRUE]]
  PROVE  NamesChanged(e, q) /\ q[y].set
  <1>1. DOMAIN q = DOMAIN Declarations
    BY DEF NamesChanged
  <1>2. ASSUME NEW x \in DOMAIN Declarations
        PROVE  /\ DOMAIN q[x] = DOMAIN b[x]
               /\ q[x].sort = b[x].sort /\ q[x].mode = b[x].mode /\ q[x].owner = b[x].owner /\ q[x].direct = b[x].direct
               /\ q[x].target = b[x].target /\ q[x].inited = b[x].inited /\ q[x].set = IF x = y THEN TRUE ELSE b[x].set
    BY <1>1 DEF NamesChanged, NameFields
  <1>3. q[y].set
    BY <1>2
  <1>4. QED
    BY <1>1, <1>2, <1>3 DEF NamesChanged

(* What an accepted statement binds and writes keeps what the names stand  *)
(* for.                                                                    *)
LEMMA ChangeKeepsNames ==
  ASSUME AcceptedStatement, NEW q, NamesChanged(expr, q), Writes(expr) /\ Owner(expr) \in DOMAIN Declarations => q[Owner(expr)].set
  PROVE  NamesOK(q)
  <1> DEFINE e == expr
             D == DOMAIN Declarations
  <1>1. NamesOK(names) /\ e.name \in D /\ e.use \in Uses /\ "elsewhere" \notin D
    BY DesignatorAssumption DEF AcceptedStatement, DesignatorIInv, ExprOK, IsExpression
  <1>2. Owner(e) \in OwnerNames
    BY <1>1, OwnerIs
  <1>3. ASSUME e.use \in {"local ref", "address", "slice"}, Owner(e) \in D PROVE names[Owner(e)].set
    <2>1. RootSymbol(e).inited
      BY <1>1, <1>3, RootIsInitialized
    <2>2. CASE Outward(e) = {}
      BY <2>1, <2>2, <1>1, <1>3, OwnerIs DEF NamesOK, RootSymbol
    <2>3. CASE Outward(e) = {1}
      BY <2>3, <1>1, <1>3, OwnerIs DEF NamesOK, RootSymbol
    <2>4. QED
      BY <2>2, <2>3, <1>1, <1>3, OwnerIs
  <1>4. ASSUME NEW x \in D, e.use = "assign", SetsName(e, x), ~names[x].inited
        PROVE  Writes(e) /\ Owner(e) = names[x].owner
    <2>1. \A n \in DOMAIN e.steps : Passed(e, n)
      BY <1>1, <1>4, RootIsInitialized DEF SetsName, RootSymbol
    <2>2. Outward(e) = {}
      BY <2>1 DEF Outward
    <2>3. QED
      BY <2>2, <1>1, <1>4, OwnerIs DEF SetsName, RootSymbol, Writes
  <1> DEFINE Base(x) ==
        /\ NameFields \subseteq DOMAIN q[x]
        /\ q[x].sort = Declarations[x].sort /\ q[x].mode = Declarations[x].mode
        /\ q[x].owner \in OwnerNames /\ q[x].target \in OwnerNames
  <1>5. \A x \in D : Base(x)
    BY <1>1, <1>2 DEF NamesChanged, NamesOK
  <1>6. ASSUME NEW x \in D, q[x].owner \in ReadOnlyStorage, q[x].direct PROVE x \in ReadOnlyStorage
    <2>1. CASE BindsRef(e, x)
      <3>1. Outward(e) = {} /\ RootSymbol(e).direct /\ q[x].owner = Owner(e)
        BY <1>6, <2>1 DEF NamesChanged
      <3>2. e.use = "local ref" /\ LastOp(e) # "mutator"
        BY <2>1 DEF BindsRef, AcceptedStatement, Changing
      <3>3. RootSymbol(e).sort # "const" /\ RootSymbol(e).mode # "refin"
        BY <3>1, <3>2, WritableRoot
      <3>4. e.name \in ReadOnlyStorage
        BY <3>1, <1>1, <1>6, OwnerIs DEF NamesOK, RootSymbol
      <3>5. QED
        BY <3>3, <3>4, <1>1 DEF NamesOK, RootSymbol, ReadOnlyStorage
    <2>2. CASE ~BindsRef(e, x)
      <3>1. q[x].owner = names[x].owner /\ q[x].direct = names[x].direct
        BY <2>2 DEF NamesChanged
      <3>2. QED
        BY <3>1, <1>1, <1>6 DEF NamesOK
    <2>3. QED
      BY <2>1, <2>2
  <1>7. ASSUME NEW x \in D PROVE ~q[x].inited => q[x].owner = x
    BY <1>1 DEF NamesChanged, NamesOK
  <1>8. ASSUME NEW x \in D, q[x].inited, q[x].owner \in D PROVE q[q[x].owner].set
    <2>1. \A y \in D : names[y].set => q[y].set
      BY DEF NamesChanged
    <2>2. CASE BindsRef(e, x)
      <3>1. q[x].owner = Owner(e) /\ e.use = "local ref"
        BY <2>2 DEF NamesChanged, BindsRef
      <3>2. QED
        BY <3>1, <2>1, <1>3, <1>8
    <2>3. CASE ~BindsRef(e, x)
      <3>1. q[x].owner = names[x].owner
        BY <2>3 DEF NamesChanged
      <3>2. CASE names[x].inited
        BY <3>1, <3>2, <2>1, <1>1, <1>8 DEF NamesOK
      <3>3. CASE ~names[x].inited
        <4>1. names[x].owner = x
          BY <3>3, <1>1 DEF NamesOK
        <4>2. BindsPointer(e, x) \/ SetsName(e, x)
          BY <2>3, <3>3, <1>8 DEF NamesChanged
        <4>3. CASE BindsPointer(e, x) \/ (SetsName(e, x) /\ e.use = "refout")
          BY <3>1, <4>1, <4>3 DEF NamesChanged
        <4>4. CASE SetsName(e, x) /\ e.use = "assign"
          BY <3>1, <3>3, <4>4, <1>4, <1>8
        <4>5. QED
          BY <4>2, <4>3, <4>4 DEF SetsName
      <3>4. QED
        BY <3>2, <3>3
    <2>4. QED
      BY <2>2, <2>3
  <1>9. ASSUME NEW x \in D, q[x].target \in D PROVE q[q[x].target].set
    <2>1. \A y \in D : names[y].set => q[y].set
      BY DEF NamesChanged
    <2>2. CASE BindsPointer(e, x)
      <3>1. q[x].target = Owner(e) /\ e.use \in {"address", "slice"}
        BY <2>2 DEF NamesChanged, BindsPointer
      <3>2. QED
        BY <3>1, <2>1, <1>3, <1>9
    <2>3. CASE ~BindsPointer(e, x)
      <3>1. q[x].target = names[x].target
        BY <2>3 DEF NamesChanged
      <3>2. QED
        BY <3>1, <2>1, <1>1, <1>9 DEF NamesOK
    <2>4. QED
      BY <2>2, <2>3
  <1>10. DOMAIN q = D
    BY DEF NamesChanged
  <1>11. QED
    BY <1>5, <1>6, <1>7, <1>8, <1>9, <1>10 DEF NamesOK

LEMMA CompileStatementKeeps ==
  ASSUME DesignatorIInv, CompileStatement
  PROVE  DesignatorIInv'
  <1>1. expr # NoExpression /\ expr' = NoExpression /\ diags' = {} /\ reported' = FALSE /\ (expr.use = "call" <=> LastOp(expr) \in Changing)
    BY DEF CompileStatement, Changing
  <1>2. NamesOK(names) /\ expr.name \in DOMAIN Declarations
    BY <1>1 DEF DesignatorIInv, ExprOK, IsExpression
  <1>3. CASE StatementAccepted(expr)
    <2> DEFINE owner == IF Writes(expr) THEN Owner(expr) ELSE "nothing"
               b == Bound(expr)
               q == IF owner \in DOMAIN names THEN [b EXCEPT ![owner] = [@ EXCEPT !.set = TRUE]] ELSE b
    <2>1. names' = q /\ last' = Effect(expr)
      BY <1>3 DEF CompileStatement
    <2>2. AcceptedStatement
      BY <1>1, <1>3 DEF AcceptedStatement
    <2>3. NamesChanged(expr, b) /\ DOMAIN names = DOMAIN Declarations
      BY <1>2, BoundIsAChange DEF NamesOK
    <2>4. "nothing" \notin DOMAIN Declarations
      BY DesignatorAssumption
    <2> HIDE DEF b
    <2>5. NamesChanged(expr, q) /\ (owner \in DOMAIN Declarations => q[owner].set)
      <3> HIDE DEF owner
      <3>1. CASE owner \in DOMAIN names
        BY <3>1, <2>3, SetIsAChange
      <3>2. CASE owner \notin DOMAIN names
        BY <3>2, <2>3
      <3>3. QED
        BY <3>1, <3>2
    <2>6. Writes(expr) /\ Owner(expr) \in DOMAIN Declarations => q[Owner(expr)].set
      BY <2>5
    <2> HIDE DEF q
    <2>7. NamesOK(q)
      BY <2>2, <2>5, <2>6, ChangeKeepsNames
    <2>8. DirectWritesRespected'
      BY <2>1, <2>2, WritesAreDirect DEF DirectWritesRespected, ReadOnlyStorage
    <2>9. NoReadHonoured'
      <3>1. Effect(expr).use = expr.use
        BY DEF Effect
      <3>2. QED
        BY <3>1, <2>1, <2>2, ReadsAreHeldBack DEF NoReadHonoured
    <2>10. NothingReadUnset'
      <3>1. Effect(expr).use = expr.use
        BY DEF Effect
      <3>2. QED
        BY <3>1, <2>1, <2>2, ReadsAreSet DEF NothingReadUnset
    <2>11. DesignatorTypesOK'
      <3>1. \A x \in DOMAIN q : q[x].owner \in DOMAIN q \cup {"elsewhere"}
        BY <2>7 DEF NamesOK, OwnerNames
      <3>2. QED
        BY <3>1, <2>1, <1>1 DEF DesignatorTypesOK
    <2>12. QED
      BY <1>1, <2>1, <2>7, <2>8, <2>9, <2>10, <2>11 DEF DesignatorIInv, NamesOK
  <1>4. CASE ~StatementAccepted(expr)
    <2>1. names' = names /\ last' = NoStatement
      BY <1>4 DEF CompileStatement
    <2>2. NoStatement.writes \notin ReadOnlyStorage /\ "noread" \notin NoStatement.faults /\ ~NoStatement.unset
      BY DesignatorAssumption DEF NoStatement, ReadOnlyStorage
    <2>3. DesignatorTypesOK'
      BY <1>1, <1>2, <2>1 DEF DesignatorTypesOK, NamesOK, OwnerNames
    <2>4. QED
      BY <1>1, <1>2, <2>1, <2>2, <2>3 DEF DesignatorIInv, NamesOK, DirectWritesRespected, NoReadHonoured, NothingReadUnset
  <1>5. QED
    BY <1>3, <1>4

LEMMA DesignatorInitial == DesignatorInit => DesignatorIInv
  <1> SUFFICES ASSUME DesignatorInit PROVE DesignatorIInv
    OBVIOUS
  <1>1. expr = NoExpression /\ diags = {} /\ ~reported /\ last = NoStatement /\ DOMAIN names = DOMAIN Declarations
    BY DEF DesignatorInit
  <1>2. ASSUME NEW x \in DOMAIN Declarations
        PROVE  /\ NameFields \subseteq DOMAIN names[x]
               /\ names[x].sort = Declarations[x].sort /\ names[x].mode = Declarations[x].mode
               /\ names[x].owner = x /\ names[x].target = "elsewhere"
               /\ names[x].inited = Declarations[x].inited /\ names[x].set = Declarations[x].inited
    <2> DEFINE F == DOMAIN Declarations[x] \cup {"owner", "target", "direct", "set"}
    <2>1. names[x] = [f \in F |-> CASE f = "owner" -> x [] f = "target" -> "elsewhere" [] f = "direct" -> TRUE
                                     [] f = "set" -> Declarations[x].inited [] OTHER -> Declarations[x][f]]
      BY DEF DesignatorInit
    <2>2. NameFields \subseteq F
      BY DesignatorAssumption DEF NameFields
    <2> HIDE DEF F
    <2>3. QED
      BY <2>1, <2>2 DEF NameFields
  <1>3. "elsewhere" \notin DOMAIN Declarations
    BY DesignatorAssumption
  <1>4. NamesOK(names)
    BY <1>1, <1>2, <1>3 DEF NamesOK, OwnerNames
  <1>5. NoStatement.writes \notin ReadOnlyStorage /\ "noread" \notin NoStatement.faults /\ ~NoStatement.unset
    BY DesignatorAssumption DEF NoStatement, ReadOnlyStorage
  <1>6. QED
    BY <1>1, <1>2, <1>4, <1>5 DEF DesignatorIInv, DesignatorTypesOK, DirectWritesRespected, NoReadHonoured, NothingReadUnset

LEMMA DesignatorStep == DesignatorIInv /\ [DesignatorNext]_designatorVars => DesignatorIInv'
  <1> SUFFICES ASSUME DesignatorIInv, [DesignatorNext]_designatorVars PROVE DesignatorIInv'
    OBVIOUS
  <1>1. CASE \E x \in DOMAIN names, use \in Uses : Begin(x, use)
    BY <1>1, BeginKeepsDesignator
  <1>2. CASE ParseIndex \/ ParsePointerIndex \/ ParseDeref \/ ParseMember \/ ParseMutator \/ ParseMethodCall
    BY <1>2, ParseStepsKeep
  <1>3. CASE CompileStatement
    BY <1>3, CompileStatementKeeps
  <1>4. CASE UNCHANGED designatorVars
    <2>1. names' = names /\ expr' = expr /\ diags' = diags /\ reported' = reported /\ last' = last
      BY <1>4 DEF designatorVars
    <2>2. NamesOK(names)' <=> NamesOK(names)
      BY <2>1 DEF NamesOK
    <2>3. ExprOK(expr)' <=> ExprOK(expr)
      <3>1. \A n : Op(expr, n)' = Op(expr, n) /\ PartType(expr, n)' = PartType(expr, n)
        BY <2>1 DEF Op, PartType
      <3>2. /\ RootSymbol(expr)' = RootSymbol(expr) /\ TypeOf(expr)' = TypeOf(expr) /\ LastOp(expr)' = LastOp(expr)
            /\ \A n : Container(expr, n)' = Container(expr, n)
        BY <2>1, <3>1 DEF RootSymbol, TypeOf, LastOp, Container
      <3>3. \A n : (InPart(expr, n)' <=> InPart(expr, n)) /\ Member(expr, n)' = Member(expr, n)
        BY <2>1, <3>1, <3>2 DEF InPart, Member
      <3>4. \A k : Restricted(expr, "noread", k)' <=> Restricted(expr, "noread", k)
        BY <3>1, <3>2, <3>3 DEF Restricted
      <3>5. QED
        BY <2>1, <3>1, <3>2, <3>3, <3>4 DEF ExprOK, IsExpression
    <2>4. QED
      BY <2>1, <2>2, <2>3 DEF DesignatorIInv, DesignatorTypesOK, DirectWritesRespected, NoReadHonoured, NothingReadUnset
  <1>5. QED
    BY <1>1, <1>2, <1>3, <1>4 DEF DesignatorNext

-----------------------------------------------------------------------------
(* The composition.                                                        *)
ReadingIInv == FeederIInv /\ ParserIInv /\ DesignatorIInv

LEMMA ReadingStep == ReadingIInv /\ [MCNext]_mcVars => ReadingIInv'
  <1> SUFFICES ASSUME ReadingIInv, [MCNext]_mcVars PROVE ReadingIInv'
    OBVIOUS
  <1>1. [FeederNext]_feederVars /\ [ParserNext]_parserVars /\ [DesignatorNext]_designatorVars
    BY DEF MCNext, mcVars
  <1>2. QED
    BY <1>1, FeederStep, ParserStep, DesignatorStep DEF ReadingIInv

LEMMA ReadingIInvHolds == MCSpec => []ReadingIInv
  <1>1. MCInit => ReadingIInv
    BY FeederInitial, ParserInitial, DesignatorInitial DEF MCInit, ReadingIInv
  <1>2. QED
    BY <1>1, ReadingStep, PTL DEF MCSpec

(* Of any files and conditionals, however they are nested and include each *)
(* other, the parser sees the selected branches and what is defined in     *)
(* them, and a file with an #include_once once (OScFeederDq).              *)
THEOREM FeederCorrect == MCSpec => []FeederSelects
  <1>1. ReadingIInv => FeederSelects
    BY FeederImplied DEF ReadingIInv, FeederSelects
  <1>2. QED
    BY <1>1, ReadingIInvHolds, PTL

(* In any text of blocks, jumps and assignments, of any length and depth,  *)
(* a symbol that is read without an error has a value but for the holes    *)
(* that are named, and a word kept for an outer block closes one           *)
(* (ODqCompParserStmt::ParseStatement, OScope).                            *)
THEOREM AssignmentsCorrect == MCSpec => []AssignmentsTracked
  <1>1. ReadingIInv => AssignmentsTracked
    BY ParserImplied DEF ReadingIInv, AssignmentsTracked
  <1>2. QED
    BY <1>1, ReadingIInvHolds, PTL

(* However a designator is composed, and through whatever references: what *)
(* is accepted does not write a constant or a refin parameter directly,    *)
(* reads [[noread]] storage only to take its address or a reference, and   *)
(* reads no name that nothing has written                                  *)
(* (ParsePostfix, FinalizeStmtAssign, BindCallArguments).                  *)
THEOREM AccessCorrect == MCSpec => []AccessRespected
  <1>1. ReadingIInv => AccessRespected
    BY DEF ReadingIInv, DesignatorIInv, AccessRespected
  <1>2. QED
    BY <1>1, ReadingIInvHolds, PTL
=============================================================================
