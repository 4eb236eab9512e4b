------------------------- MODULE ModuleBuildProofs -------------------------
(***************************************************************************)
(* For any modules, sessions and commands: the compilers of a session form *)
(* a chain of calls in which no artifact is compiled twice; where the      *)
(* interfaces and the objects are not entered in a circle, no sessions     *)
(* wait for each other's locks; builds nobody disturbs succeed; and what   *)
(* is linked while others edit is current.                                 *)
(*                                                                         *)
(* IInv and KInv describe the chains; SInv what is on disk meanwhile, and  *)
(* LInv how recent that is.  The lemmas of a step are named after its      *)
(* action: ..I for IInv, ..K for KInv, ..S for SInv, ..L for LInv.         *)
(***************************************************************************)
EXTENDS ModuleBuild, SequenceTheorems, WellFoundedInduction, TLAPS

-----------------------------------------------------------------------------
(* What the compilers, the artifacts and the locks look like.              *)
Artifact == {"if", "o"} \X Modules
Locks    == UNION {[A -> {"SHARED", "EXCLUSIVE"}] : A \in SUBSET Artifact}
Versions == UNION {[M -> Nat] : M \in SUBSET Modules}

Places == {"lock", "opened", "use", "interface", "object", "locked", "reinterface",
           "compile", "read", "publish", "finish", "error"}

CompilerRec ==
  [mod : Modules, ifgen : BOOLEAN, regen : BOOLEAN, pc : Places, use : Nat, again : BOOLEAN,
   holds : Locks, deps : Versions, from : SUBSET (Modules \X Nat), links : SUBSET Modules]

InterfaceRec == [deps : Versions, stamp : 0..3, links : SUBSET Modules]
ObjectRec    == [from : SUBSET (Modules \X Nat), stamp : 1..3]

Types ==
  /\ src \in [Modules -> 0..MaxEdits]
  /\ intf \in [Modules -> InterfaceRec \cup {Missing}]
  /\ obj \in [Modules -> ObjectRec \cup {Missing}]
  /\ \A m \in Modules : intf[m] # Missing => m \in DOMAIN intf[m].deps
  /\ stack \in [Sessions -> Seq(CompilerRec)]
  /\ result \in [Sessions -> {"none", "ok", "failed"}]
  /\ starts \in [Sessions -> 0..MaxStarts]
  /\ started \in [Sessions -> [Modules -> Nat]]

(* The compiles there may be: of module e[2] with the modules e[1], itself *)
(* one of them, in its stack, and whether with --ifgen.  The commands, and *)
(* what they lead to: the interface of every use, and the object of a use  *)
(* that is not being compiled above.                                       *)
Entry == (SUBSET Modules) \X Modules \X BOOLEAN

UsesOf(m, ifgen) == Range(PublicUses[m]) \cup (IF ifgen THEN {} ELSE Range(PrivateUses[m]))

Closed(P) ==
  /\ \A s \in Sessions : \A c \in Commands[s] : <<{c.mod}, c.mod, c.ifgen>> \in P
  /\ \A e \in P : \A u \in UsesOf(e[2], e[3]) :
       /\ <<e[1] \cup {u}, u, TRUE>> \in P
       /\ ~e[3] /\ u \notin e[1] => <<e[1] \cup {u}, u, FALSE>> \in P

Entered == {e \in Entry : \A P \in SUBSET Entry : Closed(P) => e \in P}

(* The interfaces are not used in a circle; the objects are not entered in *)
(* one, from wherever the compilers start.                                 *)
OrderOfInterfaces(rank) ==
  \A m \in Modules : \A u \in Range(PublicUses[m]) : rank[u] < rank[m]

OrderOfObjects(rank) ==
  \A e \in Entered : ~e[3] => \A u \in UsesOf(e[2], FALSE) \ e[1] : rank[u] < rank[e[2]]

LowerInterface(u, m) == \A rank \in [Modules -> Nat] : OrderOfInterfaces(rank) => rank[u] < rank[m]
LowerObject(u, m)    == \A rank \in [Modules -> Nat] : OrderOfObjects(rank) => rank[u] < rank[m]

-----------------------------------------------------------------------------
(* One compiler.                                                           *)
AtUse == {"interface", "object", "locked", "reinterface", "compile", "read"}
UsedBy(c) == Uses(c)[c.use]

Frame(c) ==
  /\ c.use \in 1..(Len(Uses(c)) + 1)
  /\ c.pc \in AtUse => c.use <= Len(Uses(c))
  /\ c.ifgen => c.pc \in {"lock", "opened", "use", "interface", "read", "error"}
  /\ c.pc = "lock" => DOMAIN c.holds = {}
  /\ c.pc # "lock" => Output(c) \in DOMAIN c.holds /\ c.holds[Output(c)] = "EXCLUSIVE"
  /\ \A a \in DOMAIN c.holds :
       \/ a = Output(c)
       \/ c.pc = "locked" /\ a = Object(UsedBy(c)) /\ c.holds[a] = "SHARED"
       \/ c.pc = "finish" /\ a = Interface(c.mod)
  /\ c.pc = "finish" => /\ Interface(c.mod) \in DOMAIN c.holds
                        /\ c.holds[Interface(c.mod)] = "EXCLUSIVE"
  /\ c.pc \notin {"lock", "opened"} => c.mod \in DOMAIN c.deps

(* The compilers of a session: where a compiler may call another for a     *)
(* use, the used module is not in the stack; a caller waits in the middle  *)
(* of the use its child is for; and no two compile to the same artifact.   *)
Enters(c, mods) ==
  \/ c.pc \in {"object", "locked", "reinterface", "compile"}
  \/ c.pc = "interface" /\ IsPublic(c)
  => UsedBy(c) \notin mods

Above(st, i) == {st[j].mod : j \in 1..i}

Calls(c, child) ==
  /\ c.again /\ c.pc \in {"interface", "reinterface", "object"}
  /\ child.mod = UsedBy(c) /\ child.regen
  /\ child.ifgen <=> c.pc # "object"

Over(b, c) ==
  /\ Output(b) # Output(c)
  /\ b.ifgen => c.ifgen /\ LowerInterface(c.mod, b.mod)
  /\ ~c.ifgen => LowerObject(c.mod, b.mod)

Chain(st) ==
  \A i \in DOMAIN st :
    /\ Frame(st[i]) /\ Enters(st[i], Above(st, i))
    /\ <<Above(st, i), st[i].mod, st[i].ifgen>> \in Entered
    /\ i < Len(st) => Calls(st[i], st[i + 1])
    /\ \A j \in 1..(i - 1) : Over(st[j], st[i])

IInv == Types /\ \A s \in Sessions : Chain(stack[s])

-----------------------------------------------------------------------------
LEMMA UsesFacts ==
  ASSUME NEW c \in CompilerRec
  PROVE  /\ Uses(c) \in Seq(Modules) /\ Len(Uses(c)) \in Nat
         /\ \A n \in 1..Len(Uses(c)) :
              Uses(c)[n] \in Modules /\ Uses(c)[n] \in UsesOf(c.mod, c.ifgen)
  <1>1. c.mod \in Modules /\ c.ifgen \in BOOLEAN
    BY DEF CompilerRec
  <1> DEFINE p == PublicUses[c.mod]  q == PrivateUses[c.mod]
  <1>2. p \in Seq(Modules) /\ q \in Seq(Modules)
    BY <1>1, BuildAssumption
  <1>3. \A n \in 1..Len(p) : p[n] \in Range(p)
    BY <1>2 DEF Range
  <1>4. \A n \in 1..Len(q) : q[n] \in Range(q)
    BY <1>2 DEF Range
  <1>5. CASE c.ifgen
    BY <1>2, <1>3, <1>5 DEF Uses, UsesOf
  <1>6. CASE ~c.ifgen
    <2>1. Uses(c) = p \o q /\ UsesOf(c.mod, c.ifgen) = Range(p) \cup Range(q)
      BY <1>6 DEF Uses, UsesOf
    <2> HIDE DEF p, q
    <2>2. /\ p \o q \in Seq(Modules) /\ Len(p \o q) = Len(p) + Len(q)
          /\ Len(p) \in Nat /\ Len(q) \in Nat
      BY <1>2
    <2>3. ASSUME NEW n \in 1..Len(p \o q)
          PROVE  (p \o q)[n] \in Modules /\ (p \o q)[n] \in Range(p) \cup Range(q)
      <3>1. CASE n <= Len(p)
        <4>1. n \in 1..Len(p) /\ (p \o q)[n] = p[n]
          BY <1>2, <2>2, <3>1
        <4>2. QED
          BY <1>2, <1>3, <4>1
      <3>2. CASE n > Len(p)
        <4>1. n - Len(p) \in 1..Len(q) /\ (p \o q)[n] = q[n - Len(p)]
          BY <1>2, <2>2, <3>2
        <4>2. QED
          BY <1>2, <1>4, <4>1
      <3>3. QED
        BY <2>2, <3>1, <3>2
    <2>4. QED
      BY <2>1, <2>2, <2>3
  <1>7. QED
    BY <1>1, <1>5, <1>6

LEMMA LowerTransitive ==
  ASSUME NEW l \in Modules, NEW m \in Modules, NEW n \in Modules
  PROVE  /\ LowerInterface(l, m) /\ LowerInterface(m, n) => LowerInterface(l, n)
         /\ LowerObject(l, m) /\ LowerObject(m, n) => LowerObject(l, n)
  BY DEF LowerInterface, LowerObject

LEMMA CommandsEntered ==
  ASSUME NEW s \in Sessions, NEW c \in Commands[s]
  PROVE  <<{c.mod}, c.mod, c.ifgen>> \in Entered
  <1>1. c.mod \in Modules /\ c.ifgen \in BOOLEAN
    BY BuildAssumption
  <1>2. <<{c.mod}, c.mod, c.ifgen>> \in Entry
    BY <1>1 DEF Entry
  <1>3. QED
    BY <1>2 DEF Entered, Closed

LEMMA UsesEntered ==
  ASSUME NEW A, NEW m, NEW ifgen, <<A, m, ifgen>> \in Entered, NEW u \in Modules,
         u \in UsesOf(m, ifgen)
  PROVE  /\ <<A \cup {u}, u, TRUE>> \in Entered
         /\ ~ifgen /\ u \notin A =>
              <<A \cup {u}, u, FALSE>> \in Entered /\ LowerObject(u, m)
         /\ ifgen => LowerInterface(u, m)
  <1>1. A \in SUBSET Modules /\ m \in Modules /\ ifgen \in BOOLEAN
    BY DEF Entered, Entry
  <1>2. <<A \cup {u}, u, TRUE>> \in Entry /\ <<A \cup {u}, u, FALSE>> \in Entry
    BY <1>1 DEF Entry
  <1> DEFINE e == <<A, m, ifgen>>
  <1>3. e[1] = A /\ e[2] = m /\ e[3] = ifgen /\ e \in Entered
    OBVIOUS
  <1> HIDE DEF e
  <1>4. ASSUME NEW P \in SUBSET Entry, Closed(P)
        PROVE  /\ <<A \cup {u}, u, TRUE>> \in P
               /\ ~ifgen /\ u \notin A => <<A \cup {u}, u, FALSE>> \in P
    <2>1. e \in P
      BY <1>3, <1>4 DEF Entered
    <2>2. QED
      BY <1>3, <1>4, <2>1 DEF Closed
  <1>5. ~ifgen /\ u \notin A => LowerObject(u, m)
    <2> SUFFICES ASSUME ~ifgen, u \notin A PROVE LowerObject(u, m)
      OBVIOUS
    <2>1. u \in UsesOf(e[2], FALSE) \ e[1] /\ ~e[3]
      BY <1>1, <1>3 DEF UsesOf
    <2>2. QED
      BY <1>3, <2>1 DEF LowerObject, OrderOfObjects
  <1>6. ifgen => LowerInterface(u, m)
    BY <1>1 DEF LowerInterface, OrderOfInterfaces, UsesOf
  <1>7. QED
    BY <1>2, <1>4, <1>5, <1>6 DEF Entered

(* Locks and versions.                                                     *)
LEMMA WithFacts ==
  ASSUME NEW h \in Locks, NEW a \in Artifact, NEW mode \in {"SHARED", "EXCLUSIVE"}
  PROVE  /\ With(h, a, mode) \in Locks /\ DOMAIN With(h, a, mode) = DOMAIN h \cup {a}
         /\ \A b \in DOMAIN h : With(h, a, mode)[b] = h[b]
         /\ a \notin DOMAIN h => With(h, a, mode)[a] = mode
  <1>1. PICK A \in SUBSET Artifact : h \in [A -> {"SHARED", "EXCLUSIVE"}]
    BY DEF Locks
  <1>2. /\ DOMAIN With(h, a, mode) = DOMAIN h \cup {a}
        /\ \A b \in DOMAIN h : With(h, a, mode)[b] = h[b]
        /\ a \notin DOMAIN h => With(h, a, mode)[a] = mode
    BY DEF With
  <1>3. With(h, a, mode) \in [A \cup {a} -> {"SHARED", "EXCLUSIVE"}]
    BY <1>1 DEF With
  <1>4. QED
    BY <1>1, <1>2, <1>3 DEF Locks

LEMMA UnlockedFacts ==
  ASSUME NEW h \in Locks, NEW a
  PROVE  [b \in DOMAIN h \ {a} |-> h[b]] \in Locks
  <1>1. PICK A \in SUBSET Artifact : h \in [A -> {"SHARED", "EXCLUSIVE"}]
    BY DEF Locks
  <1>2. [b \in DOMAIN h \ {a} |-> h[b]] \in [A \ {a} -> {"SHARED", "EXCLUSIVE"}]
    BY <1>1
  <1>3. QED
    BY <1>1, <1>2 DEF Locks

LEMMA NoLocks == <<>> \in Locks /\ DOMAIN <<>> = {} /\ <<>> \in Versions
  <1>1. <<>> = [x \in {} |-> 0]
    OBVIOUS
  <1>2. QED
    BY <1>1 DEF Locks, Versions

LEMMA MergedVersions ==
  ASSUME NEW d \in Versions, NEW e \in Versions
  PROVE  [m \in DOMAIN d \cup DOMAIN e |-> IF m \in DOMAIN d THEN d[m] ELSE e[m]] \in Versions
  <1>1. PICK M \in SUBSET Modules : d \in [M -> Nat]
    BY DEF Versions
  <1>2. PICK N \in SUBSET Modules : e \in [N -> Nat]
    BY DEF Versions
  <1>3. [m \in DOMAIN d \cup DOMAIN e |-> IF m \in DOMAIN d THEN d[m] ELSE e[m]] \in [M \cup N -> Nat]
    BY <1>1, <1>2
  <1>4. QED
    BY <1>1, <1>2, <1>3 DEF Versions

(* Stacks.                                                                 *)
LEMMA StackFacts ==
  ASSUME NEW st \in Seq(CompilerRec), st # <<>>
  PROVE  /\ Len(st) \in Nat /\ Len(st) \in DOMAIN st /\ Last(st) = st[Len(st)]
         /\ Last(st) \in CompilerRec
         /\ Front(st) \in Seq(CompilerRec) /\ Len(Front(st)) = Len(st) - 1
         /\ \A i \in 1..(Len(st) - 1) : Front(st)[i] = st[i]
  <1> DEFINE R == CompilerRec  q == st
  <1>1. q \in Seq(R) /\ q # <<>>
    OBVIOUS
  <1> HIDE DEF R, q
  <1>2. Len(q) \in Nat /\ Len(q) \in DOMAIN q /\ q[Len(q)] \in R
    BY <1>1
  <1>3. /\ SubSeq(q, 1, Len(q) - 1) \in Seq(R) /\ Len(SubSeq(q, 1, Len(q) - 1)) = Len(q) - 1
        /\ \A i \in 1..(Len(q) - 1) : SubSeq(q, 1, Len(q) - 1)[i] = q[i]
    <2>1. Len(q) - 1 \in Nat /\ Len(q) - 1 <= Len(q)
      BY <1>1, <1>2
    <2>2. ASSUME NEW k \in Nat, k <= Len(q)
          PROVE  /\ SubSeq(q, 1, k) \in Seq(R) /\ Len(SubSeq(q, 1, k)) = k
                 /\ \A i \in 1..k : SubSeq(q, 1, k)[i] = q[i]
      BY <1>1, <1>2, <2>2
    <2>3. QED
      BY <2>1, <2>2
  <1>4. QED
    BY <1>2, <1>3 DEF Last, Front, R, q

LEMMA AppendFacts ==
  ASSUME NEW st \in Seq(CompilerRec), NEW c \in CompilerRec
  PROVE  /\ Append(st, c) \in Seq(CompilerRec) /\ Append(st, c) # <<>>
         /\ Len(Append(st, c)) = Len(st) + 1 /\ Len(st) \in Nat
         /\ \A i \in 1..Len(st) : Append(st, c)[i] = st[i]
         /\ Append(st, c)[Len(st) + 1] = c
         /\ Last(Append(st, c)) = c /\ Front(Append(st, c)) = st
  <1> DEFINE R == CompilerRec  q == st
  <1>1. q \in Seq(R) /\ c \in R
    OBVIOUS
  <1> HIDE DEF R, q
  <1> DEFINE a == Append(q, c)
  <1>2. /\ a \in Seq(R) /\ a # <<>> /\ Len(a) = Len(q) + 1 /\ Len(q) \in Nat
        /\ \A i \in 1..Len(q) : a[i] = q[i]
        /\ a[Len(q) + 1] = c
    BY <1>1
  <1>3. Last(a) = c
    BY <1>2 DEF Last
  <1>4. Front(a) = q
    <2>1. Len(a) - 1 = Len(q)
      BY <1>2
    <2>2. SubSeq(a, 1, Len(q)) \in Seq(R) /\ Len(SubSeq(a, 1, Len(q))) = Len(q)
      BY <1>2
    <2>3. \A i \in 1..Len(q) : SubSeq(a, 1, Len(q))[i] = q[i]
      BY <1>2
    <2>4. SubSeq(a, 1, Len(q)) = q
      <3> DEFINE z == SubSeq(a, 1, Len(q))
      <3>1. z \in Seq(R) /\ Len(z) = Len(q) /\ \A i \in 1..Len(z) : z[i] = q[i]
        BY <2>2, <2>3
      <3> HIDE DEF z
      <3>2. z = q
        BY <1>1, <3>1, SeqEqual
      <3>3. QED
        BY <3>2 DEF z
    <2>5. QED
      BY <2>1, <2>4 DEF Front
  <1>5. QED
    BY <1>2, <1>3, <1>4 DEF R, q

LEMMA EmptyChain == Chain(<<>>)
  BY DEF Chain

LEMMA ChainAt ==
  ASSUME NEW st, Chain(st), NEW i \in DOMAIN st
  PROVE  /\ Frame(st[i]) /\ Enters(st[i], Above(st, i))
         /\ <<Above(st, i), st[i].mod, st[i].ifgen>> \in Entered
         /\ i < Len(st) => Calls(st[i], st[i + 1])
         /\ \A j \in 1..(i - 1) : Over(st[j], st[i])
  BY DEF Chain

LEMMA ChainPop ==
  ASSUME NEW st \in Seq(CompilerRec), st # <<>>, Chain(st)
  PROVE  Chain(Front(st))
  <1> DEFINE n == Len(st) - 1  f == Front(st)
  <1>1. /\ n \in Nat /\ f \in Seq(CompilerRec) /\ Len(f) = n /\ n < Len(st)
        /\ \A i \in 1..n : f[i] = st[i] /\ i \in DOMAIN st
    BY StackFacts
  <1> HIDE DEF n, f
  <1>2. ASSUME NEW i \in DOMAIN f
        PROVE  /\ Frame(f[i]) /\ Enters(f[i], Above(f, i))
               /\ <<Above(f, i), f[i].mod, f[i].ifgen>> \in Entered
               /\ i < Len(f) => Calls(f[i], f[i + 1])
               /\ \A j \in 1..(i - 1) : Over(f[j], f[i])
    <2>1. i \in 1..n /\ i \in DOMAIN st
      BY <1>1
    <2>2. \A j \in 1..i : f[j] = st[j]
      BY <1>1, <2>1
    <2>3. Above(f, i) = Above(st, i) /\ f[i] = st[i]
      BY <2>1, <2>2 DEF Above
    <2>4. /\ Frame(f[i]) /\ Enters(f[i], Above(f, i))
          /\ <<Above(f, i), f[i].mod, f[i].ifgen>> \in Entered
      BY <2>1, <2>3 DEF Chain
    <2>5. i < Len(f) => f[i + 1] = st[i + 1] /\ i < Len(st)
      BY <1>1, <2>1
    <2>6. i < Len(f) => Calls(f[i], f[i + 1])
      BY <2>1, <2>3, <2>5 DEF Chain
    <2>7. \A j \in 1..(i - 1) : Over(f[j], f[i])
      <3>1. \A j \in 1..(i - 1) : Over(st[j], st[i])
        BY <2>1, ChainAt
      <3>2. \A j \in 1..(i - 1) : j \in 1..i
        BY <1>1, <2>1
      <3>3. QED
        BY <2>2, <2>3, <3>1, <3>2
    <2>8. QED
      BY <2>4, <2>6, <2>7
  <1>3. Chain(f)
    BY <1>2 DEF Chain
  <1>4. QED
    BY <1>3 DEF f

(* A compiler at the end of a stack.                                       *)
LEMMA ChainPush ==
  ASSUME NEW st \in Seq(CompilerRec), NEW c \in CompilerRec, Chain(st),
         Frame(c), Enters(c, Above(st, Len(st)) \cup {c.mod}),
         <<Above(st, Len(st)) \cup {c.mod}, c.mod, c.ifgen>> \in Entered,
         st # <<>> => Calls(Last(st), c),
         \A j \in 1..Len(st) : Over(st[j], c)
  PROVE  Chain(Append(st, c))
  <1> DEFINE n == Len(st)  a == Append(st, c)
  <1>1. /\ n \in Nat /\ a \in Seq(CompilerRec) /\ Len(a) = n + 1
        /\ a[n + 1] = c /\ DOMAIN a = 1..(n + 1) /\ DOMAIN st = 1..n
        /\ \A i \in 1..n : a[i] = st[i]
    BY AppendFacts
  <1>2. st # <<>> => n \in 1..n /\ Last(st) = st[n]
    BY StackFacts
  <1>3. n \in 1..n => st # <<>>
    OBVIOUS
  <1> HIDE DEF n, a
  <1>4. ASSUME NEW i \in 1..n
        PROVE  /\ Frame(a[i]) /\ Enters(a[i], Above(a, i))
               /\ <<Above(a, i), a[i].mod, a[i].ifgen>> \in Entered
               /\ i < Len(a) => Calls(a[i], a[i + 1])
               /\ \A j \in 1..(i - 1) : Over(a[j], a[i])
    <2>1. a[i] = st[i] /\ \A j \in 1..i : a[j] = st[j]
      BY <1>1
    <2>2. Above(a, i) = Above(st, i)
      BY <2>1 DEF Above
    <2>3. /\ Frame(a[i]) /\ Enters(a[i], Above(a, i))
          /\ <<Above(a, i), a[i].mod, a[i].ifgen>> \in Entered
      BY <1>1, <2>1, <2>2 DEF Chain
    <2>4. \A j \in 1..(i - 1) : Over(a[j], a[i])
      <3>1. \A j \in 1..(i - 1) : Over(st[j], st[i])
        BY <1>1, ChainAt
      <3>2. \A j \in 1..(i - 1) : j \in 1..i
        BY <1>1
      <3>3. QED
        BY <2>1, <3>1, <3>2
    <2>5. CASE i < n
      <3>1. a[i + 1] = st[i + 1] /\ i < Len(st)
        BY <1>1, <2>5 DEF n
      <3>2. Calls(a[i], a[i + 1])
        BY <1>1, <2>1, <3>1 DEF Chain
      <3>3. QED
        BY <2>3, <2>4, <3>2
    <2>6. CASE i = n
      <3>1. st # <<>>
        BY <1>3, <2>6
      <3>2. Calls(a[i], a[i + 1])
        BY <1>1, <1>2, <2>1, <2>6, <3>1
      <3>3. QED
        BY <2>3, <2>4, <3>2
    <2>7. QED
      BY <1>1, <2>5, <2>6
  <1>5. /\ Frame(a[n + 1]) /\ Enters(a[n + 1], Above(a, n + 1))
        /\ <<Above(a, n + 1), a[n + 1].mod, a[n + 1].ifgen>> \in Entered
        /\ \A j \in 1..n : Over(a[j], a[n + 1])
    <2>1. Above(a, n + 1) = Above(st, n) \cup {c.mod}
      <3>1. \A j \in 1..(n + 1) : j \in 1..n \/ j = n + 1
        BY <1>1
      <3>2. \A j \in 1..n : j \in 1..(n + 1)
        BY <1>1
      <3>3. n + 1 \in 1..(n + 1)
        BY <1>1
      <3>4. QED
        BY <1>1, <3>1, <3>2, <3>3 DEF Above
    <2>2. \A j \in 1..n : Over(a[j], c)
      BY <1>1 DEF n
    <2>3. QED
      BY <1>1, <2>1, <2>2 DEF n
  <1>6. ASSUME NEW i \in DOMAIN a
        PROVE  /\ Frame(a[i]) /\ Enters(a[i], Above(a, i))
               /\ <<Above(a, i), a[i].mod, a[i].ifgen>> \in Entered
               /\ i < Len(a) => Calls(a[i], a[i + 1])
               /\ \A j \in 1..(i - 1) : Over(a[j], a[i])
    <2>1. CASE i \in 1..n
      BY <1>4, <2>1
    <2>2. CASE i = n + 1
      <3>1. ~(i < Len(a)) /\ 1..(i - 1) = 1..n
        BY <1>1, <2>2
      <3>2. QED
        BY <1>5, <2>2, <3>1
    <2>3. QED
      BY <1>1, <2>1, <2>2
  <1>7. Chain(a)
    BY <1>6 DEF Chain
  <1>8. QED
    BY <1>7 DEF a

(* The last compiler takes a step of its own.                              *)
LEMMA ChainStep ==
  ASSUME NEW st \in Seq(CompilerRec), st # <<>>, Chain(st), NEW c \in CompilerRec,
         c.mod = Last(st).mod, c.ifgen = Last(st).ifgen, c.regen = Last(st).regen,
         Frame(c), Enters(c, Above(st, Len(st)))
  PROVE  Chain(Append(Front(st), c)) /\ Append(Front(st), c) \in Seq(CompilerRec)
  <1> DEFINE n == Len(st)  f == Front(st)
  <1>1. /\ n \in Nat /\ n \in DOMAIN st /\ Last(st) = st[n] /\ Last(st) \in CompilerRec
        /\ f \in Seq(CompilerRec) /\ Len(f) = n - 1
        /\ \A i \in 1..(n - 1) : f[i] = st[i]
    BY StackFacts
  <1>2. Chain(f)
    BY ChainPop
  <1> HIDE DEF n, f
  <1>3. Output(c) = Output(Last(st))
    BY DEF Output
  <1>4. \A j \in 1..Len(f) : Over(f[j], c)
    <2>1. ASSUME NEW j \in 1..Len(f) PROVE Over(f[j], c)
      <3>1. j \in 1..(n - 1) /\ f[j] = st[j]
        BY <1>1
      <3>2. Over(st[j], st[n])
        BY <1>1, <3>1 DEF Chain
      <3>3. QED
        BY <1>1, <1>3, <3>1, <3>2 DEF Over
    <2>2. QED
      BY <2>1
  <1>5. f # <<>> => Calls(Last(f), c)
    <2> SUFFICES ASSUME f # <<>> PROVE Calls(Last(f), c)
      OBVIOUS
    <2>1. Last(f) = f[Len(f)] /\ Len(f) \in 1..(n - 1)
      BY <1>1, StackFacts
    <2>2. Last(f) = st[n - 1] /\ n - 1 \in DOMAIN st /\ n - 1 < n
      BY <1>1, <2>1
    <2>3. Calls(st[n - 1], st[n])
      <3>1. n - 1 < Len(st) /\ (n - 1) + 1 = n
        BY <1>1 DEF n
      <3>2. QED
        BY <2>2, <3>1 DEF Chain
    <2>4. QED
      BY <1>1, <2>2, <2>3 DEF Calls
  <1>6. Above(f, Len(f)) \cup {c.mod} = Above(st, n)
    <2>1. \A j \in 1..n : j \in 1..(n - 1) \/ j = n
      BY <1>1
    <2>2. \A j \in 1..(n - 1) : j \in 1..n
      BY <1>1
    <2>3. n \in 1..n
      BY <1>1
    <2>4. QED
      BY <1>1, <2>1, <2>2, <2>3 DEF Above
  <1>0. <<Above(f, Len(f)) \cup {c.mod}, c.mod, c.ifgen>> \in Entered
    <2>1. <<Above(st, n), st[n].mod, st[n].ifgen>> \in Entered
      BY <1>1 DEF Chain
    <2>2. QED
      BY <1>1, <1>6, <2>1
  <1>7. Chain(Append(f, c)) /\ Append(f, c) \in Seq(CompilerRec)
    BY <1>0, <1>1, <1>2, <1>4, <1>5, <1>6, ChainPush DEF n
  <1>8. QED
    BY <1>7 DEF f

-----------------------------------------------------------------------------
(* One step of one session.                                                *)
Mods(s) == Above(stack[s], Len(stack[s]))

Settled ==
  /\ src \in [Modules -> 0..MaxEdits]
  /\ intf \in [Modules -> InterfaceRec \cup {Missing}]
  /\ obj \in [Modules -> ObjectRec \cup {Missing}]
  /\ \A m \in Modules : intf[m] # Missing => m \in DOMAIN intf[m].deps
  /\ result \in [Sessions -> {"none", "ok", "failed"}]
  /\ starts \in [Sessions -> 0..MaxStarts]
  /\ started \in [Sessions -> [Modules -> Nat]]

SameCompiler(b, c) == c.mod = b.mod /\ c.ifgen = b.ifgen /\ c.regen = b.regen

LEMMA QuietSettled == ASSUME IInv, Quiet PROVE Settled'
  BY DEF IInv, Types, Settled, Quiet

LEMMA MeFacts ==
  ASSUME IInv, NEW s \in Sessions, stack[s] # <<>>
  PROVE  /\ stack[s] \in Seq(CompilerRec) /\ Chain(stack[s])
         /\ Me(s) \in CompilerRec /\ Me(s).mod \in Modules /\ Me(s).ifgen \in BOOLEAN
         /\ Frame(Me(s)) /\ Enters(Me(s), Mods(s)) /\ Me(s).mod \in Mods(s)
         /\ Mods(s) = {stack[s][i].mod : i \in DOMAIN stack[s]}
  <1> DEFINE st == stack[s]
  <1>1. st \in Seq(CompilerRec) /\ Chain(st) /\ st # <<>>
    BY DEF IInv, Types
  <1> HIDE DEF st
  <1>2. Len(st) \in DOMAIN st /\ Last(st) = st[Len(st)] /\ Last(st) \in CompilerRec
        /\ DOMAIN st = 1..Len(st)
    BY <1>1, StackFacts
  <1>3. Frame(Last(st)) /\ Enters(Last(st), Above(st, Len(st)))
    BY <1>1, <1>2 DEF Chain
  <1>4. Last(st).mod \in Modules /\ Last(st).ifgen \in BOOLEAN
    BY <1>2 DEF CompilerRec
  <1>5. Above(st, Len(st)) = {st[i].mod : i \in DOMAIN st} /\ Last(st).mod \in Above(st, Len(st))
    BY <1>2 DEF Above
  <1>6. QED
    BY <1>1, <1>2, <1>3, <1>4, <1>5 DEF Me, Mods, st

LEMMA SessionMoves ==
  ASSUME IInv, NEW s \in Sessions, NEW st \in Seq(CompilerRec), Chain(st),
         stack' = [stack EXCEPT ![s] = st], Settled'
  PROVE  IInv'
  <1>1. stack \in [Sessions -> Seq(CompilerRec)] /\ \A t \in Sessions : Chain(stack[t])
    BY DEF IInv, Types
  <1>2. stack' \in [Sessions -> Seq(CompilerRec)]
    BY <1>1
  <1>3. \A t \in Sessions : stack'[t] = IF t = s THEN st ELSE stack[t]
    BY <1>1
  <1>4. \A t \in Sessions : Chain(stack'[t])
    BY <1>1, <1>3
  <1>5. Types'
    BY <1>2 DEF Settled, Types
  <1>6. QED
    BY <1>4, <1>5 DEF IInv

LEMMA OwnStep ==
  ASSUME IInv, NEW s \in Sessions, stack[s] # <<>>, NEW c \in CompilerRec,
         SameCompiler(Me(s), c), Frame(c), Enters(c, Mods(s)), Become(s, c), Settled'
  PROVE  IInv'
  <1>1. stack[s] \in Seq(CompilerRec) /\ Chain(stack[s])
    BY MeFacts
  <1> DEFINE st == Append(Front(stack[s]), c)
  <1>2. Chain(st) /\ st \in Seq(CompilerRec)
    BY <1>1, ChainStep DEF SameCompiler, Me, Mods
  <1>3. stack' = [stack EXCEPT ![s] = st]
    BY DEF Become
  <1> HIDE DEF st
  <1>4. QED
    BY <1>2, <1>3, SessionMoves

LEMMA ExitMoves ==
  ASSUME IInv, NEW s \in Sessions, stack[s] # <<>>, NEW outcome \in {"ok", "failed"},
         Exit(s, outcome), UNCHANGED <<src, obj, started, starts>>,
         intf' \in [Modules -> InterfaceRec \cup {Missing}],
         \A m \in Modules : intf'[m] # Missing => m \in DOMAIN intf'[m].deps
  PROVE  IInv'
  <1>1. stack[s] \in Seq(CompilerRec) /\ Chain(stack[s]) /\ stack \in [Sessions -> Seq(CompilerRec)]
    BY MeFacts DEF IInv, Types
  <1> DEFINE rest == Front(stack[s])
  <1>2. rest \in Seq(CompilerRec) /\ Chain(rest)
    BY <1>1, StackFacts, ChainPop
  <1>3. Settled'
    BY DEF IInv, Types, Settled, Exit
  <1> DEFINE failed == [Last(rest) EXCEPT !.pc = "error"]
             st == IF rest = <<>> \/ outcome = "ok" THEN rest ELSE Append(Front(rest), failed)
  <1>4. stack' = [stack EXCEPT ![s] = st]
    BY DEF Exit
  <1> HIDE DEF rest
  <1>5. ASSUME rest # <<>>
        PROVE  Chain(Append(Front(rest), failed)) /\ Append(Front(rest), failed) \in Seq(CompilerRec)
    <2> DEFINE b == Last(rest)
    <2>1. b \in CompilerRec /\ Len(rest) \in DOMAIN rest /\ b = rest[Len(rest)]
      BY <1>2, <1>5, StackFacts
    <2>2. Frame(b)
      BY <1>2, <2>1 DEF Chain
    <2>3. b.pc \in {"interface", "reinterface", "object"}
      <3>1. Len(rest) = Len(stack[s]) - 1 /\ Len(stack[s]) \in Nat
            /\ \A i \in 1..Len(rest) : rest[i] = stack[s][i]
        BY <1>1, StackFacts DEF rest
      <3>2. Len(rest) \in 1..Len(rest) /\ Len(rest) \in DOMAIN stack[s] /\ Len(rest) < Len(stack[s])
        BY <1>1, <1>2, <2>1, <3>1
      <3>3. b = stack[s][Len(rest)]
        BY <2>1, <3>1, <3>2
      <3>4. Calls(b, stack[s][Len(rest) + 1])
        BY <1>1, <3>2, <3>3 DEF Chain
      <3>5. QED
        BY <3>4 DEF Calls
    <2> HIDE DEF b
    <2>4. failed = [b EXCEPT !.pc = "error"]
      BY DEF b
    <2>5. failed \in CompilerRec
      BY <2>1, <2>4 DEF CompilerRec, Places
    <2>6. /\ failed.pc = "error" /\ failed.mod = b.mod /\ failed.ifgen = b.ifgen
          /\ failed.regen = b.regen /\ failed.use = b.use /\ failed.holds = b.holds
          /\ failed.deps = b.deps
      BY <2>1, <2>4 DEF CompilerRec
    <2> HIDE DEF failed
    <2>7. Output(failed) = Output(b) /\ Uses(failed) = Uses(b)
      BY <2>6 DEF Output, Uses
    <2>8. Frame(failed)
      BY <2>2, <2>3, <2>6, <2>7 DEF Frame, AtUse
    <2>9. Enters(failed, Above(rest, Len(rest)))
      BY <2>6 DEF Enters
    <2>10. QED
      BY <1>2, <1>5, <2>5, <2>6, <2>8, <2>9, ChainStep DEF b
  <1>6. st \in Seq(CompilerRec) /\ Chain(st)
    BY <1>2, <1>5
  <1> HIDE DEF st
  <1>7. QED
    BY <1>3, <1>4, <1>6, SessionMoves

LEMMA TwoMore ==
  ASSUME NEW f \in Seq(CompilerRec), NEW b \in CompilerRec, NEW c \in CompilerRec
  PROVE  f \o <<b, c>> = Append(Append(f, b), c)
  <1> DEFINE R == CompilerRec
  <1>1. f \in Seq(R) /\ b \in R /\ c \in R
    OBVIOUS
  <1> HIDE DEF R
  <1> DEFINE l == f \o <<b, c>>  r == Append(Append(f, b), c)
  <1>2. l \in Seq(R) /\ r \in Seq(R) /\ Len(f) \in Nat /\ Len(l) = Len(f) + 2 /\ Len(r) = Len(f) + 2
    BY <1>1
  <1>3. ASSUME NEW i \in 1..Len(l) PROVE l[i] = r[i]
    <2>1. CASE i \in 1..Len(f)
      BY <1>1, <1>2, <2>1
    <2>2. CASE i = Len(f) + 1
      BY <1>1, <1>2, <2>2
    <2>3. CASE i = Len(f) + 2
      BY <1>1, <1>2, <2>3
    <2>4. QED
      BY <1>2, <2>1, <2>2, <2>3
  <1> HIDE DEF l, r
  <1>4. l = r
    BY <1>2, <1>3, SeqEqual
  <1>5. QED
    BY <1>4 DEF l, r

LEMMA ChildFacts ==
  ASSUME NEW m \in Modules, NEW ifgen \in BOOLEAN, NEW regen \in BOOLEAN
  PROVE  /\ Compiler(m, ifgen, regen) \in CompilerRec
         /\ Compiler(m, ifgen, regen).mod = m /\ Compiler(m, ifgen, regen).ifgen = ifgen
         /\ Compiler(m, ifgen, regen).regen = regen /\ Compiler(m, ifgen, regen).pc = "lock"
         /\ Frame(Compiler(m, ifgen, regen))
         /\ \A mods : Enters(Compiler(m, ifgen, regen), mods)
  <1> DEFINE c == Compiler(m, ifgen, regen)
  <1>1. /\ c.mod = m /\ c.ifgen = ifgen /\ c.regen = regen /\ c.pc = "lock" /\ c.use = 1
        /\ c.holds = <<>>
    BY DEF Compiler
  <1>2. c \in CompilerRec
    <2>1. c \in [mod : Modules, ifgen : BOOLEAN, regen : BOOLEAN, pc : {"lock"}, use : {1},
                 again : {FALSE}, holds : {<<>>}, deps : {<<>>}, from : {{}}, links : {{}}]
      BY Zenon DEF Compiler
    <2>2. "lock" \in Places /\ 1 \in Nat /\ <<>> \in Locks /\ <<>> \in Versions
      BY NoLocks DEF Places
    <2>3. QED
      BY <2>1, <2>2 DEF CompilerRec
  <1> HIDE DEF c
  <1>3. Len(Uses(c)) \in Nat
    BY <1>2, UsesFacts
  <1>4. Frame(c)
    BY <1>1, <1>3, NoLocks DEF Frame, AtUse
  <1>5. \A mods : Enters(c, mods)
    BY <1>1 DEF Enters
  <1>6. QED
    BY <1>1, <1>2, <1>4, <1>5 DEF c

(* A compiler calls a child for the use it is at.                          *)
LEMMA CallMoves ==
  ASSUME IInv, NEW s \in Sessions, stack[s] # <<>>, NEW ifgen \in BOOLEAN,
         NEW c \in CompilerRec, SameCompiler(Me(s), c), Frame(c), Enters(c, Mods(s)),
         c.use = Me(s).use, c.use <= Len(Uses(c)), c.again, c.pc \in {"interface", "reinterface", "object"},
         ifgen <=> c.pc # "object", c.pc = "object" => ~c.ifgen,
         ~ifgen => UsedBy(c) \notin Mods(s),
         stack' = [stack EXCEPT ![s] = Front(@) \o <<c, Compiler(Used(s), ifgen, TRUE)>>],
         Quiet
  PROVE  IInv'
  <1> DEFINE st == stack[s]  u == UsedBy(c)  child == Compiler(u, ifgen, TRUE)
  <1>1. st \in Seq(CompilerRec) /\ Chain(st) /\ Me(s) = Last(st) /\ st # <<>>
        /\ stack \in [Sessions -> Seq(CompilerRec)]
    BY MeFacts DEF Me, IInv, Types
  <1>2. Uses(c) = Uses(Me(s)) /\ Used(s) = u
    BY DEF SameCompiler, Uses, UsedBy, Used
  <1>3. u \in Modules /\ u \in UsesOf(c.mod, c.ifgen)
    BY UsesFacts DEF Frame, UsedBy
  <1>4. /\ child \in CompilerRec /\ child.mod = u /\ child.ifgen = ifgen /\ child.regen
        /\ Frame(child) /\ \A mods : Enters(child, mods)
    BY <1>3, ChildFacts
  <1>5. stack' = [stack EXCEPT ![s] = Front(st) \o <<c, child>>]
    BY <1>2
  <1> HIDE DEF st, u, child
  <1> DEFINE f == Front(st)  t == Append(f, c)
  <1>6. f \in Seq(CompilerRec) /\ Len(st) \in Nat /\ Len(f) = Len(st) - 1
        /\ \A i \in 1..(Len(st) - 1) : f[i] = st[i]
    BY <1>1, StackFacts
  <1>7. Chain(t) /\ t \in Seq(CompilerRec)
    BY <1>1, ChainStep DEF SameCompiler, Mods, st
  <1>8. /\ t # <<>> /\ Last(t) = c /\ Len(t) = Len(f) + 1 /\ t[Len(f) + 1] = c
        /\ \A i \in 1..Len(f) : t[i] = f[i]
    BY <1>6, AppendFacts
  <1>9. f \o <<c, child>> = Append(t, child)
    BY <1>4, <1>6, TwoMore
  <1>10. Calls(c, child)
    BY <1>4 DEF Calls, u
  <1>11. Above(t, Len(t)) \subseteq Mods(s) /\ \A j \in 1..Len(t) : t[j].mod \in Mods(s)
    <2>1. \A j \in 1..Len(t) : t[j].mod \in Mods(s)
      <3> SUFFICES ASSUME NEW j \in 1..Len(t) PROVE t[j].mod \in Mods(s)
        OBVIOUS
      <3>1. CASE j \in 1..Len(f)
        <4>1. t[j] = st[j] /\ j \in 1..Len(st)
          BY <1>6, <1>8, <3>1
        <4>2. QED
          BY <4>1 DEF Mods, Above, st
      <3>2. CASE j = Len(f) + 1
        <4>1. t[j].mod = Me(s).mod
          BY <1>8, <3>2 DEF SameCompiler
        <4>2. QED
          BY <4>1, MeFacts
      <3>3. QED
        BY <1>6, <1>8, <3>1, <3>2
    <2>2. QED
      BY <2>1 DEF Above
  <1>12. Enters(c, Mods(s)) /\ (c.ifgen => ifgen)
    <2>1. QED
      OBVIOUS
  <1>13. u \in Mods(s) => ifgen /\ ~c.ifgen
    <2>1. u \in Mods(s) => ifgen
      BY DEF u
    <2>2. c.ifgen => u \notin Mods(s)
      <3> SUFFICES ASSUME c.ifgen PROVE u \notin Mods(s)
        OBVIOUS
      <3>1. c.pc = "interface"
        BY DEF Frame
      <3>2. IsPublic(c)
        BY DEF IsPublic, Uses
      <3>3. QED
        BY <3>1, <3>2 DEF Enters, u
    <2>3. QED
      BY <2>1, <2>2
  <1>19. /\ <<Mods(s) \cup {u}, u, ifgen>> \in Entered
         /\ c.ifgen => LowerInterface(u, c.mod)
         /\ ~ifgen => LowerObject(u, c.mod)
    <2>1. <<Mods(s), c.mod, c.ifgen>> \in Entered
      <3>1. Len(st) \in DOMAIN st /\ Last(st) = st[Len(st)]
        BY <1>1, StackFacts
      <3>2. <<Above(st, Len(st)), st[Len(st)].mod, st[Len(st)].ifgen>> \in Entered
        BY <1>1, <3>1 DEF Chain
      <3>3. QED
        BY <1>1, <3>1, <3>2 DEF SameCompiler, Mods, st
    <2>2. ~ifgen => ~c.ifgen /\ u \notin Mods(s)
      BY <1>12 DEF u
    <2> DEFINE A == Mods(s)  m == c.mod  g == c.ifgen
    <2>3. <<A, m, g>> \in Entered /\ u \in Modules /\ u \in UsesOf(m, g)
      BY <1>3, <2>1
    <2> HIDE DEF A, m, g
    <2>4. /\ <<A \cup {u}, u, TRUE>> \in Entered
          /\ ~g /\ u \notin A => <<A \cup {u}, u, FALSE>> \in Entered /\ LowerObject(u, m)
          /\ g => LowerInterface(u, m)
      BY <2>3, UsesEntered
    <2>5. CASE ifgen
      <3>1. ifgen = TRUE
        BY <2>5
      <3>2. <<A \cup {u}, u, ifgen>> \in Entered
        BY <2>4, <3>1
      <3>3. QED
        BY <2>4, <2>5, <3>2 DEF A, m, g
    <2>6. CASE ~ifgen
      <3>1. ifgen = FALSE
        BY <2>6
      <3>2. ~g /\ u \notin A
        BY <2>2, <2>6 DEF g, A
      <3>3. <<A \cup {u}, u, ifgen>> \in Entered
        BY <2>4, <3>1, <3>2
      <3>4. QED
        BY <2>4, <2>6, <3>2, <3>3 DEF A, m, g
    <2>7. QED
      BY <2>5, <2>6
  <1>20. Above(t, Len(t)) = Mods(s)
    <2>1. Len(t) = Len(st) /\ Len(st) \in DOMAIN st /\ Last(st) = st[Len(st)]
      BY <1>1, <1>6, <1>8, StackFacts
    <2>2. \A j \in 1..Len(st) : t[j].mod = st[j].mod
      <3> SUFFICES ASSUME NEW j \in 1..Len(st) PROVE t[j].mod = st[j].mod
        OBVIOUS
      <3>1. CASE j \in 1..Len(f)
        BY <1>6, <1>8, <3>1
      <3>2. CASE j = Len(f) + 1
        BY <1>1, <1>6, <1>8, <2>1, <3>2 DEF SameCompiler
      <3>3. QED
        BY <1>6, <3>1, <3>2
    <2>3. QED
      BY <2>1, <2>2 DEF Above, Mods, st
  <1>14. ASSUME NEW j \in 1..Len(t) PROVE Over(t[j], child)
    <2>1. t[j] \in CompilerRec /\ t[j].mod \in Mods(s) /\ j \in DOMAIN t
      BY <1>7, <1>11
    <2>2. Len(t) \in DOMAIN t /\ t[Len(t)] = c /\ Len(t) \in Nat
      BY <1>6, <1>8, <1>7
    <2>3. t[j].ifgen => c.ifgen
      <3>1. j = Len(t) \/ j \in 1..(Len(t) - 1)
        BY <2>2
      <3>2. j \in 1..(Len(t) - 1) => Over(t[j], c)
        BY <1>7, <2>2 DEF Chain
      <3>3. QED
        BY <2>2, <3>1, <3>2 DEF Over
    <2>4. j = Len(t) \/ Over(t[j], c)
      <3>1. j = Len(t) \/ j \in 1..(Len(t) - 1)
        BY <2>2
      <3>2. j \in 1..(Len(t) - 1) => Over(t[j], c)
        BY <1>7, <2>2, ChainAt
      <3>3. QED
        BY <3>1, <3>2
    <2>5. c.mod \in Modules /\ t[j].mod \in Modules /\ u \in Modules
      BY <1>3, <2>1 DEF CompilerRec
    <2>6. /\ t[j].ifgen => LowerInterface(u, t[j].mod)
          /\ ~ifgen => LowerObject(u, t[j].mod)
      <3>1. /\ c.ifgen => LowerInterface(u, c.mod)
            /\ ~ifgen => LowerObject(u, c.mod)
        BY <1>19
      <3>2. CASE j = Len(t)
        BY <2>2, <3>1, <3>2
      <3>3. CASE Over(t[j], c)
        <4>1. t[j].ifgen => LowerInterface(u, t[j].mod)
          BY <2>5, <3>1, <3>3, LowerTransitive DEF Over
        <4>2. ~ifgen => ~c.ifgen
          BY <1>12
        <4>3. ~ifgen => LowerObject(u, t[j].mod)
          BY <2>5, <3>1, <3>3, <4>2, LowerTransitive DEF Over
        <4>4. QED
          BY <4>1, <4>3
      <3>4. QED
        BY <2>4, <3>2, <3>3
    <2>7. Output(t[j]) # Output(child)
      <3>1. CASE t[j].mod # u
        BY <1>4, <3>1 DEF Output, Interface, Object
      <3>2. CASE t[j].mod = u
        <4>1. ifgen /\ ~t[j].ifgen
          BY <1>13, <2>1, <2>3, <3>2
        <4>2. QED
          BY <1>4, <4>1 DEF Output, Interface, Object
      <3>3. QED
        BY <3>1, <3>2
    <2>8. t[j].ifgen => child.ifgen
      BY <1>4, <1>13, <2>3 DEF Frame
    <2>9. t[j].ifgen => ifgen
      BY <1>4, <2>8
    <2>10. QED
      BY <1>4, <2>6, <2>7, <2>9 DEF Over
  <1> HIDE DEF t, f
  <1>15. Chain(Append(t, child)) /\ Append(t, child) \in Seq(CompilerRec)
    <2>1. <<Above(t, Len(t)) \cup {child.mod}, child.mod, child.ifgen>> \in Entered
      BY <1>4, <1>19, <1>20
    <2>2. QED
      BY <1>4, <1>7, <1>8, <1>10, <1>14, <2>1, ChainPush, AppendFacts
  <1>16. Settled'
    BY QuietSettled
  <1>17. stack' = [stack EXCEPT ![s] = Append(t, child)]
    BY <1>5, <1>9 DEF f
  <1>18. QED
    BY <1>15, <1>16, <1>17, SessionMoves

-----------------------------------------------------------------------------
(* The steps.                                                              *)
LEMMA InitI == ASSUME Init PROVE IInv
  <1>1. stack \in [Sessions -> Seq(CompilerRec)]
    BY DEF Init
  <1>2. \A m \in Modules : 0 \in 0..MaxEdits /\ Missing \in InterfaceRec \cup {Missing}
        /\ Missing \in ObjectRec \cup {Missing}
    BY BuildAssumption
  <1>3. 0 \in 0..MaxEdits /\ 0 \in 0..MaxStarts
    BY BuildAssumption
  <1>4. Types
    BY <1>1, <1>2, <1>3 DEF Init, Types
  <1>5. \A s \in Sessions : Chain(stack[s])
    BY EmptyChain DEF Init
  <1>6. QED
    BY <1>4, <1>5 DEF IInv

LEMMA StartI == ASSUME IInv, NEW s \in Sessions, Start(s) PROVE IInv'
  <1>1. PICK c \in Commands[s] :
          stack' = [stack EXCEPT ![s] = <<Compiler(c.mod, c.ifgen, FALSE)>>]
    BY DEF Start
  <1>2. c.mod \in Modules /\ c.ifgen \in BOOLEAN
    BY BuildAssumption
  <1> DEFINE k == Compiler(c.mod, c.ifgen, FALSE)
  <1>3. k \in CompilerRec /\ Frame(k) /\ \A mods : Enters(k, mods)
    BY <1>2, ChildFacts
  <1> HIDE DEF k
  <1>4. Append(<<>>, k) = <<k>> /\ <<>> \in Seq(CompilerRec) /\ Len(<<>>) = 0
    OBVIOUS
  <1>5. Append(<<>>, k) \in Seq(CompilerRec)
    BY <1>3, <1>4, AppendFacts
  <1>6. Chain(Append(<<>>, k))
    <2> DEFINE e == <<>>
    <2>1. e = <<>> /\ e \in Seq(CompilerRec) /\ Len(e) = 0 /\ Chain(e)
      BY <1>4, EmptyChain
    <2> HIDE DEF e
    <2>2. \A j \in 1..Len(e) : Over(e[j], k)
      BY <2>1
    <2>3. Chain(Append(e, k))
      <3>1. Above(e, Len(e)) = {}
        BY <2>1 DEF Above
      <3>2. k.mod = c.mod /\ k.ifgen = c.ifgen
        BY <1>2, ChildFacts DEF k
      <3>3. <<Above(e, Len(e)) \cup {k.mod}, k.mod, k.ifgen>> \in Entered
        BY <3>1, <3>2, CommandsEntered
      <3>4. QED
        BY <1>3, <2>1, <2>2, <3>3, ChainPush
    <2>4. QED
      BY <2>3 DEF e
  <1>7. Settled'
    <2>1. starts[s] \in 0..MaxStarts /\ starts[s] + 1 \in 0..MaxStarts
      BY BuildAssumption DEF IInv, Types, Start
    <2>2. starts' \in [Sessions -> 0..MaxStarts]
      BY <2>1 DEF IInv, Types, Start
    <2>3. src \in [Modules -> Nat]
      BY BuildAssumption DEF IInv, Types
    <2>4. started' \in [Sessions -> [Modules -> Nat]]
      BY <2>3 DEF IInv, Types, Start
    <2>5. QED
      BY <2>2, <2>4 DEF IInv, Types, Start, Settled
  <1>8. stack' = [stack EXCEPT ![s] = <<k>>]
    BY <1>1 DEF k
  <1>9. QED
    BY <1>4, <1>5, <1>6, <1>7, <1>8, SessionMoves

LEMMA OutputIsArtifact == ASSUME NEW c \in CompilerRec PROVE Output(c) \in Artifact
  BY DEF CompilerRec, Output, Interface, Object, Artifact

LEMMA LockOutputI == ASSUME IInv, NEW s \in Sessions, LockOutput(s) PROVE IInv'
  <1> DEFINE b == Me(s)  h == With(<<>>, Output(b), "EXCLUSIVE")
             c == [b EXCEPT !.pc = "opened", !.holds = h]
  <1>1. stack[s] # <<>> /\ b.pc = "lock" /\ Become(s, c) /\ Quiet
    BY DEF LockOutput, At
  <1>2. b \in CompilerRec /\ Frame(b)
    BY <1>1, MeFacts
  <1> HIDE DEF b
  <1>3. h \in Locks /\ DOMAIN h = {Output(b)} /\ h[Output(b)] = "EXCLUSIVE"
    <2> DEFINE e == <<>>  a == Output(b)
    <2>1. e \in Locks /\ DOMAIN e = {} /\ a \in Artifact /\ h = With(e, a, "EXCLUSIVE")
      BY <1>2, OutputIsArtifact, NoLocks
    <2> HIDE DEF e, a, h
    <2>2. /\ With(e, a, "EXCLUSIVE") \in Locks
          /\ DOMAIN With(e, a, "EXCLUSIVE") = DOMAIN e \cup {a}
          /\ a \notin DOMAIN e => With(e, a, "EXCLUSIVE")[a] = "EXCLUSIVE"
      <3>1. "EXCLUSIVE" \in {"SHARED", "EXCLUSIVE"}
        OBVIOUS
      <3>2. QED
        BY <2>1, <3>1, WithFacts, Zenon
    <2>3. QED
      BY <2>1, <2>2 DEF a
  <1> HIDE DEF h
  <1>4. c \in CompilerRec
    BY <1>2, <1>3, Zenon DEF CompilerRec, Places
  <1>5. /\ SameCompiler(b, c) /\ c.pc = "opened" /\ c.use = b.use /\ c.holds = h
    BY <1>2 DEF CompilerRec, SameCompiler
  <1> HIDE DEF c
  <1>6. Uses(c) = Uses(b) /\ Output(c) = Output(b)
    BY <1>5 DEF SameCompiler, Uses, Output
  <1>7. Frame(c)
    BY <1>1, <1>2, <1>3, <1>5, <1>6 DEF Frame, AtUse, SameCompiler
  <1>8. Enters(c, Mods(s))
    BY <1>5 DEF Enters
  <1>9. QED
    BY <1>1, <1>4, <1>5, <1>7, <1>8, OwnStep, QuietSettled DEF b

LEMMA AlreadyFreshI == ASSUME IInv, NEW s \in Sessions, AlreadyFresh(s) PROVE IInv'
  <1>1. stack[s] # <<>> /\ Exit(s, "ok") /\ UNCHANGED <<src, intf, obj, started, starts>>
    BY DEF AlreadyFresh, At
  <1>2. /\ intf' \in [Modules -> InterfaceRec \cup {Missing}]
        /\ \A m \in Modules : intf'[m] # Missing => m \in DOMAIN intf'[m].deps
    BY <1>1 DEF IInv, Types
  <1>3. QED
    BY <1>1, <1>2, ExitMoves

LEMMA FinishI == ASSUME IInv, NEW s \in Sessions, Finish(s) PROVE IInv'
  <1>1. stack[s] # <<>> /\ Exit(s, "ok") /\ UNCHANGED <<src, intf, obj, started, starts>>
    BY DEF Finish, At
  <1>2. /\ intf' \in [Modules -> InterfaceRec \cup {Missing}]
        /\ \A m \in Modules : intf'[m] # Missing => m \in DOMAIN intf'[m].deps
    BY <1>1 DEF IInv, Types
  <1>3. QED
    BY <1>1, <1>2, ExitMoves

LEMMA FailI == ASSUME IInv, NEW s \in Sessions, Fail(s) PROVE IInv'
  <1>1. stack[s] # <<>> /\ Exit(s, "failed") /\ UNCHANGED <<src, intf, obj, started, starts>>
    BY DEF Fail, At
  <1>2. /\ intf' \in [Modules -> InterfaceRec \cup {Missing}]
        /\ \A m \in Modules : intf'[m] # Missing => m \in DOMAIN intf'[m].deps
    BY <1>1 DEF IInv, Types
  <1>3. QED
    BY <1>1, <1>2, ExitMoves

LEMMA LoadSourceI == ASSUME IInv, NEW s \in Sessions, LoadSource(s) PROVE IInv'
  <1> DEFINE b == Me(s)  d == [m \in {b.mod} |-> src[m]]  f == {<<b.mod, src[b.mod]>>}
             c == [b EXCEPT !.pc = "use", !.deps = d, !.from = f]
  <1>1. stack[s] # <<>> /\ b.pc = "opened" /\ Become(s, c) /\ Quiet
    BY DEF LoadSource, At
  <1>2. b \in CompilerRec /\ Frame(b) /\ b.mod \in Modules
    BY <1>1, MeFacts
  <1>3. src \in [Modules -> Nat]
    BY BuildAssumption DEF IInv, Types
  <1> HIDE DEF b
  <1>4. d \in Versions /\ DOMAIN d = {b.mod} /\ f \in SUBSET (Modules \X Nat)
    <2>1. d \in [{b.mod} -> Nat] /\ {b.mod} \in SUBSET Modules
      BY <1>2, <1>3
    <2>2. d \in Versions /\ DOMAIN d = {b.mod}
      BY <2>1 DEF Versions
    <2>3. src[b.mod] \in Nat
      BY <1>2, <1>3
    <2>4. <<b.mod, src[b.mod]>> \in Modules \X Nat
      BY <1>2, <2>3
    <2>5. QED
      BY <2>2, <2>4
  <1> HIDE DEF d, f
  <1>5. c \in CompilerRec
    BY <1>2, <1>4, Zenon DEF CompilerRec, Places
  <1>6. /\ SameCompiler(b, c) /\ c.pc = "use" /\ c.use = b.use /\ c.holds = b.holds /\ c.deps = d
    BY <1>2 DEF CompilerRec, SameCompiler
  <1> HIDE DEF c
  <1>7. Uses(c) = Uses(b) /\ Output(c) = Output(b)
    BY <1>6 DEF SameCompiler, Uses, Output
  <1>8. Frame(c)
    BY <1>1, <1>2, <1>4, <1>6, <1>7 DEF Frame, AtUse, SameCompiler
  <1>9. Enters(c, Mods(s))
    BY <1>6 DEF Enters
  <1>10. QED
    BY <1>1, <1>5, <1>6, <1>8, <1>9, OwnStep, QuietSettled DEF b

LEMMA InStack ==
  ASSUME IInv, NEW s \in Sessions, stack[s] # <<>>
  PROVE  IsInModuleUseStack(s) <=> UsedBy(Me(s)) \in Mods(s)
  BY MeFacts DEF IsInModuleUseStack, Used, UsedBy

(* Goto: the place changes, and again is reset.                            *)
LEMMA GotoMoves ==
  ASSUME IInv, NEW s \in Sessions, stack[s] # <<>>, NEW where \in Places, Goto(s, where), Quiet,
         Me(s).pc \notin {"lock", "opened", "locked", "finish"},
         where \notin {"lock", "opened", "locked", "finish"},
         where \in AtUse => Me(s).use <= Len(Uses(Me(s))),
         Me(s).ifgen => where \in {"use", "interface", "read", "error"},
         \/ where \in {"object", "reinterface", "compile"}
         \/ where = "interface" /\ IsPublic(Me(s))
         => UsedBy(Me(s)) \notin Mods(s)
  PROVE  IInv'
  <1> DEFINE b == Me(s)  c == [b EXCEPT !.pc = where, !.again = FALSE]
  <1>1. Become(s, c)
    BY DEF Goto
  <1>2. b \in CompilerRec /\ Frame(b)
    BY MeFacts
  <1> HIDE DEF b
  <1>3. c \in CompilerRec
    BY <1>2, Zenon DEF CompilerRec
  <1>4. /\ SameCompiler(b, c) /\ c.pc = where /\ c.use = b.use /\ c.holds = b.holds /\ c.deps = b.deps
    BY <1>2 DEF CompilerRec, SameCompiler
  <1> HIDE DEF c
  <1>5. Uses(c) = Uses(b) /\ Output(c) = Output(b) /\ (IsPublic(c) <=> IsPublic(b))
        /\ UsedBy(c) = UsedBy(b)
    BY <1>4 DEF SameCompiler, Uses, Output, IsPublic, UsedBy
  <1>6. Frame(c)
    BY <1>2, <1>4, <1>5 DEF Frame, SameCompiler, b
  <1>7. Enters(c, Mods(s))
    BY <1>4, <1>5 DEF Enters, b
  <1>8. QED
    BY <1>1, <1>3, <1>4, <1>6, <1>7, OwnStep, QuietSettled DEF b

LEMMA UseCycleI == ASSUME IInv, NEW s \in Sessions, UseCycle(s) PROVE IInv'
  <1>1. stack[s] # <<>> /\ Me(s).pc = "use" /\ Goto(s, "error") /\ Quiet
    BY DEF UseCycle, MoreUses, At
  <1>2. "error" \in Places /\ "error" \notin AtUse
    BY DEF Places, AtUse
  <1>3. QED
    BY <1>1, <1>2, GotoMoves

LEMMA BeginUseI == ASSUME IInv, NEW s \in Sessions, BeginUse(s) PROVE IInv'
  <1>1. /\ stack[s] # <<>> /\ Me(s).pc = "use" /\ Goto(s, "interface") /\ Quiet
        /\ Me(s).use <= Len(Uses(Me(s))) /\ ~(IsInModuleUseStack(s) /\ IsPublic(Me(s)))
    BY DEF BeginUse, MoreUses, At
  <1>2. "interface" \in Places
    BY DEF Places
  <1>3. IsPublic(Me(s)) => UsedBy(Me(s)) \notin Mods(s)
    BY <1>1, InStack
  <1>4. QED
    BY <1>1, <1>2, <1>3, GotoMoves

LEMMA CheckInterfaceI ==
  ASSUME IInv, NEW s \in Sessions, NEW where \in {"interface", "reinterface"}, NEW next \in Places,
         CheckInterface(s, where, Goto(s, next)),
         next \in {"object", "read", "compile"},
         Me(s).ifgen => next = "read",
         next # "read" => UsedBy(Me(s)) \notin Mods(s)
  PROVE  IInv'
  <1>1. stack[s] # <<>> /\ Me(s).pc = where /\ Quiet
    BY DEF CheckInterface, At
  <1>2. Me(s) \in CompilerRec /\ Frame(Me(s)) /\ Enters(Me(s), Mods(s))
    BY <1>1, MeFacts
  <1>3. Me(s).use <= Len(Uses(Me(s)))
    BY <1>1, <1>2 DEF Frame, AtUse
  <1>4. CASE Goto(s, next)
    BY <1>1, <1>3, <1>4, GotoMoves DEF AtUse
  <1>5. CASE Goto(s, "error")
    <2>1. "error" \in Places /\ "error" \notin AtUse
      BY DEF Places, AtUse
    <2>2. QED
      BY <1>1, <1>5, <2>1, GotoMoves
  <1>6. CASE RunChild(s, TRUE)
    <2> DEFINE b == Me(s)  c == [b EXCEPT !.again = TRUE]
    <2>1. stack' = [stack EXCEPT ![s] = Front(@) \o <<c, Compiler(Used(s), TRUE, TRUE)>>]
      BY <1>6 DEF RunChild
    <2> HIDE DEF b
    <2>2. b \in CompilerRec /\ Frame(b) /\ Enters(b, Mods(s)) /\ b.pc = where
          /\ b.use <= Len(Uses(b))
      BY <1>1, <1>2, <1>3 DEF b
    <2>3. c \in CompilerRec
      BY <2>2, Zenon DEF CompilerRec
    <2>4. /\ SameCompiler(b, c) /\ c.pc = b.pc /\ c.use = b.use /\ c.holds = b.holds /\ c.deps = b.deps
          /\ c.again
      BY <2>2 DEF CompilerRec, SameCompiler
    <2> HIDE DEF c
    <2>5. Uses(c) = Uses(b) /\ Output(c) = Output(b) /\ (IsPublic(c) <=> IsPublic(b))
          /\ UsedBy(c) = UsedBy(b)
      BY <2>4 DEF SameCompiler, Uses, Output, IsPublic, UsedBy
    <2>6. Frame(c) /\ Enters(c, Mods(s))
      BY <2>2, <2>4, <2>5 DEF Frame, Enters, SameCompiler
    <2>7. c.pc \in {"interface", "reinterface", "object"} /\ c.pc # "object"
      BY <2>2, <2>4
    <2>8. QED
      BY <1>1, <2>1, <2>2, <2>3, <2>4, <2>5, <2>6, <2>7, CallMoves DEF b
  <1>7. QED
    BY <1>4, <1>5, <1>6 DEF CheckInterface

LEMMA EnsureInterfaceI == ASSUME IInv, NEW s \in Sessions, EnsureInterface(s) PROVE IInv'
  <1> DEFINE next == IF NeedsObject(s) THEN "object" ELSE "read"
  <1>1. CheckInterface(s, "interface", Goto(s, next))
    BY DEF EnsureInterface
  <1>2. stack[s] # <<>>
    BY <1>1 DEF CheckInterface, At
  <1>3. next # "read" => ~Me(s).ifgen /\ UsedBy(Me(s)) \notin Mods(s)
    BY <1>2, InStack DEF NeedsObject
  <1>4. next \in {"object", "read", "compile"} /\ next \in Places
    BY DEF Places
  <1> HIDE DEF next
  <1>5. QED
    BY <1>1, <1>3, <1>4, CheckInterfaceI

LEMMA EnsureInterfaceAgainI == ASSUME IInv, NEW s \in Sessions, EnsureInterfaceAgain(s) PROVE IInv'
  <1>1. CheckInterface(s, "reinterface", Goto(s, "compile"))
    BY DEF EnsureInterfaceAgain
  <1>2. stack[s] # <<>> /\ Me(s).pc = "reinterface"
    BY <1>1 DEF CheckInterface, At
  <1>3. ~Me(s).ifgen /\ UsedBy(Me(s)) \notin Mods(s)
    BY <1>2, MeFacts DEF Frame, Enters
  <1>4. "compile" \in Places
    BY DEF Places
  <1>5. QED
    BY <1>1, <1>3, <1>4, CheckInterfaceI

(* What a compiler has found or written stays there for it to read.        *)
Kept(c) ==
  /\ c.pc \in {"object", "locked", "reinterface", "compile", "read"} => intf[UsedBy(c)] # Missing
  /\ c.pc \in {"publish", "finish"} => obj[c.mod] # Missing

KInv == \A s \in Sessions : \A c \in Range(stack[s]) : Kept(c)

LEMMA LockObjectI == ASSUME IInv, NEW s \in Sessions, LockObject(s) PROVE IInv'
  <1> DEFINE b == Me(s)  a == Object(Used(s))  h == With(b.holds, a, "SHARED")
             c == [b EXCEPT !.pc = "locked", !.holds = h]
  <1>1. stack[s] # <<>> /\ b.pc = "object" /\ Quiet
    BY DEF LockObject, At
  <1>2. b \in CompilerRec /\ Frame(b) /\ Enters(b, Mods(s)) /\ b.mod \in Mods(s)
    BY <1>1, MeFacts
  <1>3. Become(s, c)
    <2>1. [b EXCEPT !.pc = "locked", !.holds = With(@, a, "SHARED")] = c
      BY <1>2 DEF CompilerRec
    <2>2. QED
      BY <2>1 DEF LockObject
  <1>4. a = Object(UsedBy(b)) /\ b.use <= Len(Uses(b))
    BY <1>1, <1>2 DEF Used, UsedBy, Frame, AtUse
  <1> HIDE DEF b
  <1>5. UsedBy(b) \in Modules /\ UsedBy(b) # b.mod
    BY <1>1, <1>2, <1>4, UsesFacts DEF UsedBy, Frame, Enters
  <1>6. b.holds \in Locks /\ a \in Artifact
    BY <1>2, <1>4, <1>5 DEF CompilerRec, Object, Artifact
  <1>7. a \notin DOMAIN b.holds
    BY <1>1, <1>2, <1>4, <1>5 DEF Frame, Output, Object, Interface
  <1> HIDE DEF a
  <1>8. /\ h \in Locks /\ DOMAIN h = DOMAIN b.holds \cup {a}
        /\ \A x \in DOMAIN b.holds : h[x] = b.holds[x]
        /\ h[a] = "SHARED"
    BY <1>6, <1>7, WithFacts
  <1> HIDE DEF h
  <1>9. c \in CompilerRec
    BY <1>2, <1>8, Zenon DEF CompilerRec, Places
  <1>10. /\ SameCompiler(b, c) /\ c.pc = "locked" /\ c.use = b.use /\ c.holds = h /\ c.deps = b.deps
    BY <1>2 DEF CompilerRec, SameCompiler
  <1> HIDE DEF c
  <1>11. Uses(c) = Uses(b) /\ Output(c) = Output(b) /\ UsedBy(c) = UsedBy(b)
    BY <1>10 DEF SameCompiler, Uses, Output, UsedBy
  <1>12. Frame(c)
    BY <1>1, <1>2, <1>4, <1>7, <1>8, <1>10, <1>11 DEF Frame, AtUse, SameCompiler
  <1>13. Enters(c, Mods(s))
    BY <1>1, <1>2, <1>10, <1>11 DEF Enters
  <1>14. QED
    BY <1>1, <1>3, <1>9, <1>10, <1>12, <1>13, OwnStep, QuietSettled DEF b

LEMMA CheckObjectI == ASSUME IInv, NEW s \in Sessions, CheckObject(s) PROVE IInv'
  <1> DEFINE b == Me(s)  h == [x \in DOMAIN b.holds \ {Object(Used(s))} |-> b.holds[x]]
             next == IF ObjectArtifactIsFresh(Used(s)) THEN "read"
                     ELSE IF b.again THEN "error" ELSE "reinterface"
             c == [b EXCEPT !.pc = next, !.holds = h, !.again = FALSE]
  <1>1. stack[s] # <<>> /\ b.pc = "locked" /\ Quiet
    BY DEF CheckObject, At
  <1>2. b \in CompilerRec /\ Frame(b) /\ Enters(b, Mods(s)) /\ b.mod \in Mods(s)
    BY <1>1, MeFacts
  <1>3. Become(s, c)
    <2>1. Unlocked(b, Object(Used(s))) = [b EXCEPT !.holds = h]
      BY <1>2 DEF CompilerRec, Unlocked
    <2>2. [b EXCEPT !.holds = h] \in [mod : {b.mod}, ifgen : {b.ifgen}, regen : {b.regen},
             pc : {b.pc}, use : {b.use}, again : {b.again}, holds : {h}, deps : {b.deps},
             from : {b.from}, links : {b.links}]
      BY <1>2, Zenon DEF CompilerRec
    <2>3. /\ [b EXCEPT !.holds = h].again = b.again
      BY <2>2
    <2>4. [[b EXCEPT !.holds = h] EXCEPT !.pc = next, !.again = FALSE] = c
      BY <1>2 DEF CompilerRec
    <2>5. QED
      BY <2>1, <2>3, <2>4 DEF CheckObject
  <1>4. Used(s) = UsedBy(b) /\ b.use <= Len(Uses(b))
    BY <1>1, <1>2 DEF Used, UsedBy, Frame, AtUse
  <1>5. next \in {"read", "error", "reinterface"}
    OBVIOUS
  <1> HIDE DEF b, next
  <1>6. UsedBy(b) # b.mod /\ ~b.ifgen
    BY <1>1, <1>2 DEF Enters, Frame
  <1>7. h \in Locks
    BY <1>2, UnlockedFacts DEF CompilerRec
  <1>8. /\ DOMAIN h = DOMAIN b.holds \ {Object(UsedBy(b))}
        /\ \A x \in DOMAIN h : h[x] = b.holds[x]
    BY <1>4
  <1> HIDE DEF h
  <1>9. c \in CompilerRec
    BY <1>2, <1>5, <1>7, Zenon DEF CompilerRec, Places
  <1>10. /\ SameCompiler(b, c) /\ c.pc = next /\ c.use = b.use /\ c.holds = h /\ c.deps = b.deps
    BY <1>2 DEF CompilerRec, SameCompiler
  <1> HIDE DEF c
  <1>11. Uses(c) = Uses(b) /\ Output(c) = Output(b) /\ UsedBy(c) = UsedBy(b)
    BY <1>10 DEF SameCompiler, Uses, Output, UsedBy
  <1>12. Output(b) # Object(UsedBy(b))
    BY <1>6 DEF Output, Object
  <1>13. Frame(c)
    BY <1>1, <1>2, <1>4, <1>5, <1>6, <1>8, <1>10, <1>11, <1>12 DEF Frame, AtUse, SameCompiler
  <1>14. Enters(c, Mods(s))
    BY <1>1, <1>2, <1>10, <1>11 DEF Enters
  <1>15. QED
    BY <1>1, <1>3, <1>9, <1>10, <1>13, <1>14, OwnStep, QuietSettled DEF b

LEMMA CompileUsedI == ASSUME IInv, NEW s \in Sessions, CompileUsed(s) PROVE IInv'
  <1> DEFINE b == Me(s)  c == [b EXCEPT !.pc = "object", !.again = TRUE]
  <1>1. /\ stack[s] # <<>> /\ b.pc = "compile" /\ Quiet
        /\ stack' = [stack EXCEPT ![s] = Front(@) \o <<c, Compiler(Used(s), FALSE, TRUE)>>]
    BY DEF CompileUsed, At
  <1>2. b \in CompilerRec /\ Frame(b) /\ Enters(b, Mods(s))
    BY <1>1, MeFacts
  <1> HIDE DEF b
  <1>3. c \in CompilerRec
    BY <1>2, Zenon DEF CompilerRec, Places
  <1>4. /\ SameCompiler(b, c) /\ c.pc = "object" /\ c.use = b.use /\ c.holds = b.holds
        /\ c.deps = b.deps /\ c.again
    BY <1>2 DEF CompilerRec, SameCompiler
  <1> HIDE DEF c
  <1>5. Uses(c) = Uses(b) /\ Output(c) = Output(b) /\ UsedBy(c) = UsedBy(b)
    BY <1>4 DEF SameCompiler, Uses, Output, UsedBy
  <1>6. b.use <= Len(Uses(b)) /\ ~b.ifgen /\ UsedBy(b) \notin Mods(s)
    BY <1>1, <1>2 DEF Frame, AtUse, Enters
  <1>7. Frame(c) /\ Enters(c, Mods(s))
    BY <1>1, <1>2, <1>4, <1>5, <1>6 DEF Frame, Enters, AtUse, SameCompiler
  <1>8. ~c.ifgen /\ c.use <= Len(Uses(c)) /\ UsedBy(c) \notin Mods(s)
    BY <1>4, <1>5, <1>6 DEF SameCompiler
  <1>9. QED
    BY <1>1, <1>3, <1>4, <1>7, <1>8, CallMoves DEF b

LEMMA ReadInterfaceI == ASSUME IInv, KInv, NEW s \in Sessions, ReadInterface(s) PROVE IInv'
  <1> DEFINE b == Me(s)  u == Used(s)  e == intf[u].deps
             d == FreshnessDeps(b, u)
             f == b.from \cup {<<m, e[m]>> : m \in DOMAIN e}
             l == b.links \cup {u} \cup intf[u].links
             c == [b EXCEPT !.pc = "use", !.use = b.use + 1, !.deps = d, !.from = f, !.links = l]
  <1>1. stack[s] # <<>> /\ b.pc = "read" /\ Quiet
    BY DEF ReadInterface, At
  <1>2. b \in CompilerRec /\ Frame(b) /\ b.mod \in Modules
    BY <1>1, MeFacts
  <1>3. Become(s, c)
    <2>1. [b EXCEPT !.pc = "use", !.use = @ + 1, !.deps = FreshnessDeps(b, u),
                    !.from = @ \cup {<<m, intf[u].deps[m]>> : m \in DOMAIN intf[u].deps},
                    !.links = @ \cup {u} \cup intf[u].links] = c
      BY <1>2 DEF CompilerRec
    <2>2. QED
      BY <2>1 DEF ReadInterface
  <1>4. u = UsedBy(b) /\ b.use <= Len(Uses(b)) /\ b.use \in Nat /\ u \in Modules
    BY <1>1, <1>2, UsesFacts DEF Used, UsedBy, Frame, AtUse
  <1>5. b \in Range(stack[s])
    <2>1. stack[s] \in Seq(CompilerRec)
      BY <1>1, MeFacts
    <2>2. QED
      BY <1>1, <2>1, StackFacts DEF Range, Me
  <1>6. intf[u] # Missing
    BY <1>1, <1>4, <1>5 DEF KInv, Kept
  <1>7. intf[u] \in InterfaceRec
    BY <1>4, <1>6 DEF IInv, Types
  <1>8. e \in Versions /\ intf[u].links \in SUBSET Modules
    BY <1>7 DEF InterfaceRec
  <1> HIDE DEF b, e
  <1>9. d \in Versions /\ DOMAIN b.deps \subseteq DOMAIN d
    <2>1. b.deps \in Versions
      BY <1>2 DEF CompilerRec
    <2> DEFINE g == b.deps
               w == [m \in DOMAIN g \cup DOMAIN e |-> IF m \in DOMAIN g THEN g[m] ELSE e[m]]
    <2>2. g \in Versions
      BY <2>1
    <2> HIDE DEF g
    <2>3. w \in Versions /\ DOMAIN g \subseteq DOMAIN w
      BY <1>8, <2>2, MergedVersions
    <2>4. d = w \/ d = g
      BY DEF FreshnessDeps, e, g
    <2>5. QED
      BY <2>2, <2>3, <2>4 DEF g
  <1>10. f \in SUBSET (Modules \X Nat)
    <2>1. PICK M \in SUBSET Modules : e \in [M -> Nat]
      BY <1>8 DEF Versions
    <2>2. \A m \in DOMAIN e : <<m, e[m]>> \in Modules \X Nat
      BY <2>1
    <2>3. b.from \in SUBSET (Modules \X Nat)
      BY <1>2 DEF CompilerRec
    <2>4. QED
      BY <2>2, <2>3
  <1>11. l \in SUBSET Modules
    BY <1>2, <1>4, <1>8 DEF CompilerRec
  <1> HIDE DEF d, f, l, u
  <1>12. c \in CompilerRec
    <2>1. b.use + 1 \in Nat
      BY <1>4
    <2>2. QED
      BY <1>2, <1>9, <1>10, <1>11, <2>1, Zenon DEF CompilerRec, Places
  <1>13. /\ SameCompiler(b, c) /\ c.pc = "use" /\ c.use = b.use + 1 /\ c.holds = b.holds /\ c.deps = d
    BY <1>2 DEF CompilerRec, SameCompiler
  <1> HIDE DEF c
  <1>14. Uses(c) = Uses(b) /\ Output(c) = Output(b) /\ Len(Uses(b)) \in Nat
    BY <1>2, <1>13, UsesFacts DEF SameCompiler, Uses, Output
  <1>15. Frame(c)
    <2>1. c.use \in 1..(Len(Uses(c)) + 1)
      BY <1>4, <1>13, <1>14
    <2>2. QED
      BY <1>1, <1>2, <1>9, <1>13, <1>14, <2>1 DEF Frame, AtUse, SameCompiler
  <1>16. Enters(c, Mods(s))
    BY <1>13 DEF Enters
  <1>17. QED
    BY <1>1, <1>3, <1>12, <1>13, <1>15, <1>16, OwnStep, QuietSettled DEF b

LEMMA NewInterfaceFacts ==
  ASSUME NEW c \in CompilerRec, NEW stamp \in 0..3
  PROVE  /\ NewInterface(c, stamp) \in InterfaceRec /\ NewInterface(c, stamp) # Missing
         /\ NewInterface(c, stamp).deps = c.deps /\ NewInterface(c, stamp).stamp = stamp
  BY DEF CompilerRec, NewInterface, InterfaceRec, Missing

LEMMA NewStampFacts ==
  ASSUME IInv, NEW m \in Modules
  PROVE  /\ NewStamp(m) \in 1..3
         /\ obj[m] # Missing => obj[m].stamp # NewStamp(m)
         /\ intf[m] # Missing => intf[m].stamp # NewStamp(m)
  <1>1. \E n \in 1..3 : /\ obj[m] # Missing => obj[m].stamp # n
                        /\ intf[m] # Missing => intf[m].stamp # n
    <2> DEFINE a == obj[m].stamp  b == intf[m].stamp
    <2>1. \E n \in 1..3 : a # n /\ b # n
      <3>1. 1 \in 1..3 /\ 2 \in 1..3 /\ 3 \in 1..3
        OBVIOUS
      <3>2. (a # 1 /\ b # 1) \/ (a # 2 /\ b # 2) \/ (a # 3 /\ b # 3)
        OBVIOUS
      <3>3. QED
        BY <3>1, <3>2
    <2>2. QED
      BY <2>1
  <1>2. QED
    BY <1>1 DEF NewStamp

LEMMA PublishInterfaceI == ASSUME IInv, NEW s \in Sessions, PublishInterface(s) PROVE IInv'
  <1> DEFINE b == Me(s)  n == NewInterface(b, 0)
  <1>1. /\ stack[s] # <<>> /\ b.pc = "use" /\ Exit(s, "ok") /\ UNCHANGED <<src, obj, started, starts>>
        /\ intf' = [intf EXCEPT ![b.mod] = n]
    BY DEF PublishInterface, Parsed, At
  <1>2. b \in CompilerRec /\ Frame(b) /\ b.mod \in Modules
    BY <1>1, MeFacts
  <1>3. n \in InterfaceRec /\ n # Missing /\ b.mod \in DOMAIN n.deps
    <2>1. 0 \in 0..3
      OBVIOUS
    <2>2. QED
      BY <1>1, <1>2, <2>1, NewInterfaceFacts DEF Frame
  <1> HIDE DEF b, n
  <1>4. intf \in [Modules -> InterfaceRec \cup {Missing}]
        /\ \A m \in Modules : intf[m] # Missing => m \in DOMAIN intf[m].deps
    BY DEF IInv, Types
  <1>5. intf' \in [Modules -> InterfaceRec \cup {Missing}]
    BY <1>1, <1>2, <1>3, <1>4
  <1>6. \A m \in Modules : intf'[m] # Missing => m \in DOMAIN intf'[m].deps
    BY <1>1, <1>2, <1>3, <1>4
  <1>7. QED
    BY <1>1, <1>5, <1>6, ExitMoves DEF b

LEMMA EmitObjectI == ASSUME IInv, NEW s \in Sessions, EmitObject(s) PROVE IInv'
  <1> DEFINE b == Me(s)  n == [from |-> b.from, stamp |-> NewStamp(b.mod)]
             c == [b EXCEPT !.pc = "publish", !.again = FALSE]
  <1>1. /\ stack[s] # <<>> /\ b.pc = "use" /\ ~b.ifgen /\ Become(s, c)
        /\ UNCHANGED <<src, intf, result, started, starts>>
        /\ obj' = [obj EXCEPT ![b.mod] = n]
    BY DEF EmitObject, Parsed, At, Goto
  <1>2. b \in CompilerRec /\ Frame(b) /\ b.mod \in Modules
    BY <1>1, MeFacts
  <1> HIDE DEF b
  <1>3. n \in ObjectRec
    <2>1. NewStamp(b.mod) \in 1..3
      BY <1>2, NewStampFacts
    <2>2. QED
      BY <1>2, <2>1 DEF CompilerRec, ObjectRec
  <1> HIDE DEF n
  <1>4. Settled'
    <2>1. obj' \in [Modules -> ObjectRec \cup {Missing}]
      BY <1>1, <1>2, <1>3 DEF IInv, Types
    <2>2. QED
      BY <1>1, <2>1 DEF IInv, Types, Settled
  <1>5. c \in CompilerRec
    BY <1>2, Zenon DEF CompilerRec, Places
  <1>6. /\ SameCompiler(b, c) /\ c.pc = "publish" /\ c.use = b.use /\ c.holds = b.holds /\ c.deps = b.deps
    BY <1>2 DEF CompilerRec, SameCompiler
  <1> HIDE DEF c
  <1>7. Uses(c) = Uses(b) /\ Output(c) = Output(b)
    BY <1>6 DEF SameCompiler, Uses, Output
  <1>8. Frame(c)
    BY <1>1, <1>2, <1>6, <1>7 DEF Frame, AtUse, SameCompiler
  <1>9. Enters(c, Mods(s))
    BY <1>6 DEF Enters
  <1>10. QED
    BY <1>1, <1>4, <1>5, <1>6, <1>8, <1>9, OwnStep DEF b

LEMMA WriteInterfaceI == ASSUME IInv, KInv, NEW s \in Sessions, WriteInterface(s) PROVE IInv'
  <1> DEFINE b == Me(s)  a == Interface(b.mod)  h == With(b.holds, a, "EXCLUSIVE")
             n == NewInterface(b, obj[b.mod].stamp)
             c == [b EXCEPT !.pc = "finish", !.holds = h]
  <1>1. /\ stack[s] # <<>> /\ b.pc = "publish" /\ UNCHANGED <<src, obj, result, started, starts>>
        /\ intf' = [intf EXCEPT ![b.mod] = n]
    BY DEF WriteInterface, At
  <1>2. b \in CompilerRec /\ Frame(b) /\ b.mod \in Modules
    BY <1>1, MeFacts
  <1>3. Become(s, c)
    <2>1. [b EXCEPT !.pc = "finish", !.holds = With(@, a, "EXCLUSIVE")] = c
      BY <1>2 DEF CompilerRec
    <2>2. QED
      BY <2>1 DEF WriteInterface
  <1>4. b \in Range(stack[s])
    <2>1. stack[s] \in Seq(CompilerRec)
      BY <1>1, MeFacts
    <2>2. QED
      BY <1>1, <2>1, StackFacts DEF Range, Me
  <1>5. obj[b.mod] \in ObjectRec
    <2>1. obj[b.mod] # Missing
      BY <1>1, <1>4 DEF KInv, Kept
    <2>2. QED
      BY <1>2, <2>1 DEF IInv, Types
  <1> HIDE DEF b
  <1>6. n \in InterfaceRec /\ n # Missing /\ b.mod \in DOMAIN n.deps
    <2>1. obj[b.mod].stamp \in 0..3
      BY <1>5 DEF ObjectRec
    <2>2. QED
      BY <1>1, <1>2, <2>1, NewInterfaceFacts DEF Frame
  <1> HIDE DEF n
  <1>7. Settled'
    <2>1. intf' \in [Modules -> InterfaceRec \cup {Missing}]
      BY <1>1, <1>2, <1>6 DEF IInv, Types
    <2>2. \A m \in Modules : intf'[m] # Missing => m \in DOMAIN intf'[m].deps
      BY <1>1, <1>2, <1>6 DEF IInv, Types
    <2>3. QED
      BY <1>1, <2>1, <2>2 DEF IInv, Types, Settled
  <1>8. b.holds \in Locks /\ a \in Artifact /\ ~b.ifgen
    BY <1>1, <1>2 DEF CompilerRec, Interface, Artifact, Frame
  <1>9. a \notin DOMAIN b.holds
    BY <1>1, <1>2, <1>8 DEF Frame, Output, Object, Interface
  <1>10. a # Output(b)
    BY <1>8 DEF Output, Object, Interface
  <1> HIDE DEF a
  <1>11. /\ h \in Locks /\ DOMAIN h = DOMAIN b.holds \cup {a}
         /\ \A x \in DOMAIN b.holds : h[x] = b.holds[x]
         /\ h[a] = "EXCLUSIVE"
    BY <1>8, <1>9, WithFacts
  <1> HIDE DEF h
  <1>12. c \in CompilerRec
    BY <1>2, <1>11, Zenon DEF CompilerRec, Places
  <1>13. /\ SameCompiler(b, c) /\ c.pc = "finish" /\ c.use = b.use /\ c.holds = h /\ c.deps = b.deps
    BY <1>2 DEF CompilerRec, SameCompiler
  <1> HIDE DEF c
  <1>14. Uses(c) = Uses(b) /\ Output(c) = Output(b)
    BY <1>13 DEF SameCompiler, Uses, Output
  <1>15. Frame(c)
    BY <1>1, <1>2, <1>8, <1>11, <1>13, <1>14 DEF Frame, AtUse, SameCompiler, a
  <1>16. Enters(c, Mods(s))
    BY <1>13 DEF Enters
  <1>17. QED
    BY <1>1, <1>3, <1>7, <1>12, <1>13, <1>15, <1>16, OwnStep DEF b

LEMMA EditI == ASSUME IInv, NEW m \in Modules, Edit(m) PROVE IInv'
  <1>1. src[m] \in 0..MaxEdits /\ src[m] + 1 \in 0..MaxEdits
    BY BuildAssumption DEF IInv, Types, Edit
  <1>2. src' \in [Modules -> 0..MaxEdits]
    BY <1>1 DEF IInv, Types, Edit
  <1>3. Types'
    BY <1>2 DEF IInv, Types, Edit
  <1>4. \A s \in Sessions : Chain(stack'[s])
    BY DEF IInv, Edit
  <1>5. QED
    BY <1>3, <1>4 DEF IInv

LEMMA DieI == ASSUME IInv, NEW s \in Sessions, Die(s) PROVE IInv'
  <1>1. Settled' /\ stack' = [stack EXCEPT ![s] = <<>>]
    BY DEF IInv, Types, Die, Settled
  <1>2. <<>> \in Seq(CompilerRec)
    OBVIOUS
  <1>3. QED
    BY <1>1, <1>2, EmptyChain, SessionMoves

-----------------------------------------------------------------------------
(* The compilers there are after a step: the last of a session is replaced *)
(* by those in C, and those above it stay.                                 *)
Rest(s) == IF stack[s] = <<>> THEN {} ELSE Range(Front(stack[s]))

Replaces(s, C) ==
  \A t \in Sessions : \A d \in Range(stack'[t]) :
    IF t = s THEN d \in C \cup Rest(s) ELSE d \in Range(stack[t])

LEMMA RestFacts ==
  ASSUME IInv, NEW s \in Sessions, NEW d \in Rest(s)
  PROVE  /\ d \in Range(stack[s]) /\ d \in CompilerRec /\ Frame(d) /\ Over(d, Me(s))
         /\ d.again /\ d.pc \in {"interface", "reinterface", "object"}
  <1> DEFINE st == stack[s]
  <1>1. st \in Seq(CompilerRec) /\ st # <<>> /\ Chain(st)
    BY DEF Rest, IInv, Types
  <1> HIDE DEF st
  <1>2. /\ Len(st) \in Nat /\ Len(st) \in DOMAIN st /\ Last(st) = st[Len(st)]
        /\ Front(st) \in Seq(CompilerRec) /\ Len(Front(st)) = Len(st) - 1
        /\ \A i \in 1..(Len(st) - 1) : Front(st)[i] = st[i]
    BY <1>1, StackFacts
  <1>3. PICK i \in DOMAIN Front(st) : d = Front(st)[i]
    BY <1>1 DEF Rest, Range, st
  <1>4. i \in 1..(Len(st) - 1) /\ i \in DOMAIN st /\ d = st[i] /\ i < Len(st)
    BY <1>1, <1>2, <1>3
  <1>5. d \in Range(st) /\ d \in CompilerRec
    BY <1>1, <1>4 DEF Range
  <1>6. Frame(d) /\ Calls(d, st[i + 1])
    BY <1>4, <1>1 DEF Chain
  <1>7. Over(d, Last(st))
    BY <1>1, <1>2, <1>4 DEF Chain
  <1>8. QED
    BY <1>5, <1>6, <1>7 DEF Calls, Me, st

LEMMA RangeOfAppend ==
  ASSUME NEW st \in Seq(CompilerRec), NEW c
  PROVE  Range(Append(st, c)) = Range(st) \cup {c}
  <1> DEFINE Q == CompilerRec  R == Q \cup {c}
  <1>0. c \in R /\ st \in Seq(Q) /\ Q \subseteq R
    OBVIOUS
  <1> HIDE DEF Q, R
  <1>a. st \in Seq(R)
    BY <1>0
  <1>1. /\ Append(st, c) \in Seq(R) /\ Len(st) \in Nat /\ Len(Append(st, c)) = Len(st) + 1
        /\ \A i \in 1..Len(st) : Append(st, c)[i] = st[i]
        /\ Append(st, c)[Len(st) + 1] = c
    BY <1>0, <1>a
  <1>2. DOMAIN Append(st, c) = 1..(Len(st) + 1) /\ DOMAIN st = 1..Len(st)
    BY <1>0, <1>1
  <1> DEFINE n == Len(st)  a == Append(st, c)
  <1>3. \A i \in 1..(n + 1) : i \in 1..n \/ i = n + 1
    BY <1>1
  <1>4. n + 1 \in 1..(n + 1) /\ \A i \in 1..n : i \in 1..(n + 1)
    BY <1>1
  <1> HIDE DEF n, a
  <1>5. DOMAIN a = 1..(n + 1) /\ DOMAIN st = 1..n /\ (\A i \in 1..n : a[i] = st[i]) /\ a[n + 1] = c
    BY <1>1, <1>2 DEF n, a
  <1>6. Range(a) = Range(st) \cup {c}
    BY <1>3, <1>4, <1>5 DEF Range
  <1>7. QED
    BY <1>6 DEF a

LEMMA BecomeReplaces ==
  ASSUME IInv, NEW s \in Sessions, stack[s] # <<>>, NEW c, Become(s, c)
  PROVE  Replaces(s, {c})
  <1>1. stack \in [Sessions -> Seq(CompilerRec)]
    BY DEF IInv, Types
  <1>2. Front(stack[s]) \in Seq(CompilerRec)
    BY <1>1, StackFacts
  <1>3. Range(Append(Front(stack[s]), c)) = Rest(s) \cup {c}
    BY <1>2, RangeOfAppend DEF Rest
  <1>4. \A t \in Sessions : stack'[t] = IF t = s THEN Append(Front(stack[s]), c) ELSE stack[t]
    BY <1>1 DEF Become
  <1>5. QED
    BY <1>3, <1>4 DEF Replaces

LEMMA CallReplaces ==
  ASSUME IInv, NEW s \in Sessions, stack[s] # <<>>, NEW c \in CompilerRec, NEW child,
         stack' = [stack EXCEPT ![s] = Front(@) \o <<c, child>>]
  PROVE  Replaces(s, {c, child})
  <1>1. stack \in [Sessions -> Seq(CompilerRec)]
    BY DEF IInv, Types
  <1> DEFINE f == Front(stack[s])
  <1>2. f \in Seq(CompilerRec)
    BY <1>1, StackFacts
  <1>3. \A t \in Sessions : stack'[t] = IF t = s THEN f \o <<c, child>> ELSE stack[t]
    BY <1>1
  <1>4. Rest(s) = Range(f)
    BY DEF Rest
  <1> HIDE DEF f
  <1>5. f \o <<c, child>> = Append(Append(f, c), child) /\ Append(f, c) \in Seq(CompilerRec)
    BY <1>2, TwoMore, AppendFacts
  <1>6. Range(Append(Append(f, c), child)) = (Range(f) \cup {c}) \cup {child}
    BY <1>2, <1>5, RangeOfAppend
  <1>7. QED
    BY <1>3, <1>4, <1>5, <1>6 DEF Replaces

LEMMA ExitReplaces ==
  ASSUME IInv, NEW s \in Sessions, stack[s] # <<>>, NEW outcome, Exit(s, outcome)
  PROVE  /\ outcome = "ok" => Replaces(s, {})
         /\ \E C : Replaces(s, C) /\ \A c \in C : c.pc = "error"
  <1>1. stack \in [Sessions -> Seq(CompilerRec)]
    BY DEF IInv, Types
  <1> DEFINE rest == Front(stack[s])  b == Last(rest)  c == [b EXCEPT !.pc = "error"]
  <1>2. rest \in Seq(CompilerRec)
    BY <1>1, StackFacts
  <1>3. \A t \in Sessions :
          stack'[t] = IF t = s THEN IF rest = <<>> \/ outcome = "ok" THEN rest
                                    ELSE Append(Front(rest), c)
                      ELSE stack[t]
    BY <1>1 DEF Exit
  <1>4. Rest(s) = Range(rest)
    BY DEF Rest
  <1> HIDE DEF rest
  <1>5. CASE rest = <<>> \/ outcome = "ok"
    <2>1. Replaces(s, {})
      BY <1>3, <1>4, <1>5 DEF Replaces
    <2>2. QED
      BY <2>1
  <1>6. CASE rest # <<>> /\ outcome # "ok"
    <2>1. b \in CompilerRec /\ Front(rest) \in Seq(CompilerRec) /\ Len(rest) \in Nat
          /\ Len(Front(rest)) = Len(rest) - 1
          /\ \A i \in 1..(Len(rest) - 1) : Front(rest)[i] = rest[i]
      BY <1>2, <1>6, StackFacts
    <2> HIDE DEF b
    <2>2. c \in CompilerRec /\ c.pc = "error"
      <3>1. c \in CompilerRec
        BY <2>1, Zenon DEF CompilerRec, Places
      <3>2. c.pc = "error"
        BY <2>1 DEF CompilerRec
      <3>3. QED
        BY <3>1, <3>2
    <2> HIDE DEF c
    <2>3. Range(Append(Front(rest), c)) = Range(Front(rest)) \cup {c}
      BY <2>1, <2>2, RangeOfAppend
    <2>4. Range(Front(rest)) \subseteq Range(rest)
      <3>1. ASSUME NEW i \in DOMAIN Front(rest) PROVE Front(rest)[i] \in Range(rest)
        <4>1. i \in 1..(Len(rest) - 1) /\ i \in DOMAIN rest
          BY <1>2, <2>1
        <4>2. QED
          BY <2>1, <4>1 DEF Range
      <3>2. QED
        BY <3>1 DEF Range
    <2>5. Replaces(s, {c})
      BY <1>3, <1>4, <1>6, <2>3, <2>4 DEF Replaces
    <2>6. QED
      BY <1>6, <2>2, <2>5
  <1>7. QED
    BY <1>5, <1>6

LEMMA MeInRange ==
  ASSUME IInv, NEW s \in Sessions, stack[s] # <<>>
  PROVE  Me(s) \in Range(stack[s])
  <1>1. stack[s] \in Seq(CompilerRec)
    BY MeFacts
  <1>2. QED
    BY <1>1, StackFacts DEF Range, Me

LEMMA KeptMoves ==
  ASSUME IInv, KInv, NEW s \in Sessions, NEW C, Replaces(s, C),
         \A m \in Modules : intf[m] # Missing => intf'[m] # Missing,
         \A m \in Modules : obj[m] # Missing => obj'[m] # Missing,
         \A c \in C :
           /\ c.pc \in {"object", "locked", "reinterface", "compile", "read"}
                => intf'[UsedBy(c)] # Missing
           /\ c.pc \in {"publish", "finish"} => obj'[c.mod] # Missing
  PROVE  KInv'
  <1> SUFFICES ASSUME NEW t \in Sessions, NEW c \in Range(stack'[t])
               PROVE  /\ c.pc \in {"object", "locked", "reinterface", "compile", "read"}
                           => intf'[UsedBy(c)] # Missing
                      /\ c.pc \in {"publish", "finish"} => obj'[c.mod] # Missing
    BY DEF KInv, Kept
  <1>1. CASE t = s /\ c \in C
    BY <1>1
  <1>2. CASE ~(t = s /\ c \in C)
    <2>1. c \in Range(stack[t])
      BY <1>2, RestFacts DEF Replaces
    <2>2. Kept(c)
      BY <2>1 DEF KInv
    <2>3. stack[t] \in Seq(CompilerRec) /\ Chain(stack[t])
      BY DEF IInv, Types
    <2>4. PICK i \in DOMAIN stack[t] : c = stack[t][i]
      BY <2>1 DEF Range
    <2>5. c \in CompilerRec /\ Frame(c)
      <3>1. c \in CompilerRec
        BY <2>3, <2>4
      <3>2. Frame(c)
        BY <2>3, <2>4 DEF Chain
      <3>3. QED
        BY <3>1, <3>2
    <2>6. c.mod \in Modules
      BY <2>5 DEF CompilerRec
    <2>7. c.pc \in {"object", "locked", "reinterface", "compile", "read"} => UsedBy(c) \in Modules
      BY <2>5, UsesFacts DEF Frame, AtUse, UsedBy
    <2>8. QED
      BY <2>2, <2>6, <2>7 DEF Kept
  <1>3. QED
    BY <1>1, <1>2

LEMMA KeptQuiet ==
  ASSUME IInv, KInv, NEW s \in Sessions, NEW C, Replaces(s, C), UNCHANGED <<intf, obj>>,
         \A c \in C : Kept(c)
  PROVE  KInv'
  <1>1. QED
    BY KeptMoves DEF Kept

(* A compiler is at a place where it neither reads nor has written.        *)
LEMMA KeptAnyway ==
  ASSUME NEW c, c.pc \in {"lock", "opened", "use", "interface", "error"}
  PROVE  Kept(c)
  BY DEF Kept

LEMMA ExitKept ==
  ASSUME IInv, KInv, NEW s \in Sessions, stack[s] # <<>>, NEW outcome, Exit(s, outcome),
         \A m \in Modules : intf[m] # Missing => intf'[m] # Missing, UNCHANGED obj
  PROVE  KInv'
  <1>1. PICK C : Replaces(s, C) /\ \A c \in C : c.pc = "error"
    BY ExitReplaces
  <1>2. QED
    BY <1>1, KeptMoves

LEMMA BecomeKept ==
  ASSUME IInv, KInv, NEW s \in Sessions, stack[s] # <<>>, NEW c, Become(s, c), Quiet, Kept(c)
  PROVE  KInv'
  <1>1. Replaces(s, {c}) /\ UNCHANGED <<intf, obj>>
    BY BecomeReplaces DEF Quiet
  <1>2. \A d \in {c} : Kept(d)
    OBVIOUS
  <1>3. QED
    BY <1>1, <1>2, KeptQuiet

LEMMA GotoKept ==
  ASSUME IInv, KInv, NEW s \in Sessions, stack[s] # <<>>, NEW where, Goto(s, where), Quiet,
         where \in {"object", "locked", "reinterface", "compile", "read"}
           => intf[UsedBy(Me(s))] # Missing,
         where \notin {"publish", "finish"}
  PROVE  KInv'
  <1> DEFINE b == Me(s)  c == [b EXCEPT !.pc = where, !.again = FALSE]
  <1>1. Become(s, c)
    BY DEF Goto
  <1>2. b \in CompilerRec
    BY MeFacts
  <1> HIDE DEF b
  <1>3. /\ c.mod = b.mod /\ c.ifgen = b.ifgen /\ c.pc = where /\ c.use = b.use
    BY <1>2 DEF CompilerRec
  <1> HIDE DEF c
  <1>4. UsedBy(c) = UsedBy(b)
    BY <1>3 DEF Uses, UsedBy
  <1>5. Kept(c)
    BY <1>3, <1>4 DEF Kept, b
  <1>6. QED
    BY <1>1, <1>5, BecomeKept

LEMMA InitK == ASSUME Init PROVE KInv
  BY DEF Init, KInv, Range

LEMMA StartK == ASSUME IInv, KInv, NEW s \in Sessions, Start(s) PROVE KInv'
  <1>1. PICK c : stack' = [stack EXCEPT ![s] = <<Compiler(c.mod, c.ifgen, FALSE)>>]
    BY DEF Start
  <1> DEFINE k == Compiler(c.mod, c.ifgen, FALSE)
  <1>2. k.pc = "lock"
    BY DEF Compiler
  <1> HIDE DEF k
  <1>3. Range(<<k>>) = {k}
    BY DEF Range
  <1>4. Replaces(s, {k})
    BY <1>1, <1>3 DEF Replaces, k, IInv, Types
  <1>5. UNCHANGED <<intf, obj>> /\ \A d \in {k} : Kept(d)
    BY <1>2, KeptAnyway DEF Start
  <1>6. QED
    BY <1>4, <1>5, KeptQuiet

LEMMA DieK == ASSUME IInv, KInv, NEW s \in Sessions, Die(s) PROVE KInv'
  <1>1. Range(<<>>) = {}
    BY DEF Range
  <1>2. Replaces(s, {})
    BY <1>1 DEF Replaces, Die, IInv, Types
  <1>3. UNCHANGED <<intf, obj>> /\ \A d \in {} : Kept(d)
    BY DEF Die
  <1>4. QED
    BY <1>2, <1>3, KeptQuiet

LEMMA LockOutputK == ASSUME IInv, KInv, NEW s \in Sessions, LockOutput(s) PROVE KInv'
  <1> DEFINE b == Me(s)
             c == [b EXCEPT !.pc = "opened", !.holds = With(<<>>, Output(b), "EXCLUSIVE")]
  <1>1. stack[s] # <<>> /\ Quiet /\ Become(s, c)
    BY DEF LockOutput, At
  <1>2. b \in CompilerRec
    BY <1>1, MeFacts
  <1>3. c.pc = "opened"
    BY <1>2 DEF CompilerRec
  <1> HIDE DEF c
  <1>4. QED
    BY <1>1, <1>3, KeptAnyway, BecomeKept

LEMMA LoadSourceK == ASSUME IInv, KInv, NEW s \in Sessions, LoadSource(s) PROVE KInv'
  <1> DEFINE b == Me(s)
             c == [b EXCEPT !.pc = "use", !.deps = [m \in {b.mod} |-> src[m]],
                            !.from = {<<b.mod, src[b.mod]>>}]
  <1>1. stack[s] # <<>> /\ Quiet /\ Become(s, c)
    BY DEF LoadSource, At
  <1>2. b \in CompilerRec
    BY <1>1, MeFacts
  <1>3. c.pc = "use"
    BY <1>2 DEF CompilerRec
  <1> HIDE DEF c
  <1>4. QED
    BY <1>1, <1>3, KeptAnyway, BecomeKept

LEMMA CheckInterfaceK ==
  ASSUME IInv, KInv, NEW s \in Sessions, NEW where \in {"interface", "reinterface"}, NEW next,
         CheckInterface(s, where, Goto(s, next)), next \in {"object", "read", "compile"}
  PROVE  KInv'
  <1>1. stack[s] # <<>> /\ Me(s).pc = where /\ Quiet /\ Used(s) = UsedBy(Me(s))
    BY DEF CheckInterface, At, Used, UsedBy
  <1>2. CASE InterfaceArtifactIsFresh(Used(s)) /\ Goto(s, next)
    <2>1. intf[UsedBy(Me(s))] # Missing
      BY <1>1, <1>2 DEF InterfaceArtifactIsFresh
    <2>2. QED
      BY <1>1, <1>2, <2>1, GotoKept
  <1>3. CASE Goto(s, "error")
    BY <1>1, <1>3, GotoKept
  <1>4. CASE RunChild(s, TRUE)
    <2> DEFINE b == Me(s)  c == [b EXCEPT !.again = TRUE]  k == Compiler(Used(s), TRUE, TRUE)
    <2>1. stack' = [stack EXCEPT ![s] = Front(@) \o <<c, k>>]
      BY <1>4 DEF RunChild
    <2>2. b \in CompilerRec /\ b \in Range(stack[s])
      BY <1>1, MeFacts, MeInRange
    <2>3. Kept(b)
      BY <2>2 DEF KInv
    <2> HIDE DEF b
    <2>4. c \in CompilerRec
      BY <2>2, Zenon DEF CompilerRec
    <2>5. c.mod = b.mod /\ c.ifgen = b.ifgen /\ c.pc = b.pc /\ c.use = b.use
      BY <2>2 DEF CompilerRec
    <2> HIDE DEF c
    <2>6. Kept(c)
      BY <2>3, <2>5 DEF Kept, UsedBy, Uses
    <2>7. Kept(k)
      BY DEF Compiler, Kept
    <2> HIDE DEF k
    <2>8. \A d \in {c, k} : Kept(d)
      BY <2>6, <2>7
    <2>9. Replaces(s, {c, k}) /\ UNCHANGED <<intf, obj>>
      BY <1>1, <2>1, <2>4, CallReplaces DEF Quiet
    <2>10. QED
      BY <2>8, <2>9, KeptQuiet
  <1>5. QED
    BY <1>2, <1>3, <1>4 DEF CheckInterface

LEMMA EnsureInterfaceK == ASSUME IInv, KInv, NEW s \in Sessions, EnsureInterface(s) PROVE KInv'
  <1> DEFINE next == IF NeedsObject(s) THEN "object" ELSE "read"
  <1>1. CheckInterface(s, "interface", Goto(s, next)) /\ next \in {"object", "read", "compile"}
    BY DEF EnsureInterface
  <1> HIDE DEF next
  <1>2. QED
    BY <1>1, CheckInterfaceK

LEMMA EnsureInterfaceAgainK ==
  ASSUME IInv, KInv, NEW s \in Sessions, EnsureInterfaceAgain(s) PROVE KInv'
  BY CheckInterfaceK DEF EnsureInterfaceAgain

LEMMA LockObjectK == ASSUME IInv, KInv, NEW s \in Sessions, LockObject(s) PROVE KInv'
  <1> DEFINE b == Me(s)
             c == [b EXCEPT !.pc = "locked", !.holds = With(@, Object(Used(s)), "SHARED")]
  <1>1. stack[s] # <<>> /\ b.pc = "object" /\ Quiet /\ Become(s, c)
    BY DEF LockObject, At
  <1>2. b \in CompilerRec /\ b \in Range(stack[s])
    BY <1>1, MeFacts, MeInRange
  <1>3. Kept(b)
    BY <1>2 DEF KInv
  <1>4. c.mod = b.mod /\ c.ifgen = b.ifgen /\ c.pc = "locked" /\ c.use = b.use
    BY <1>2 DEF CompilerRec
  <1> HIDE DEF b, c
  <1>5. Kept(c)
    BY <1>1, <1>3, <1>4 DEF Kept, UsedBy, Uses
  <1>6. QED
    BY <1>1, <1>5, BecomeKept

LEMMA CheckObjectK == ASSUME IInv, KInv, NEW s \in Sessions, CheckObject(s) PROVE KInv'
  <1> DEFINE b == Me(s)  v == Unlocked(b, Object(Used(s)))
             next == IF ObjectArtifactIsFresh(Used(s)) THEN "read"
                     ELSE IF v.again THEN "error" ELSE "reinterface"
             c == [v EXCEPT !.pc = next, !.again = FALSE]
  <1>1. stack[s] # <<>> /\ b.pc = "locked" /\ Quiet /\ Become(s, c)
    BY DEF CheckObject, At
  <1>2. b \in CompilerRec /\ b \in Range(stack[s])
    BY <1>1, MeFacts, MeInRange
  <1>3. Kept(b)
    BY <1>2 DEF KInv
  <1>4. next \in {"read", "error", "reinterface"}
    OBVIOUS
  <1> HIDE DEF b, next
  <1>5. c.mod = b.mod /\ c.ifgen = b.ifgen /\ c.pc = next /\ c.use = b.use
    BY <1>2 DEF CompilerRec, Unlocked
  <1> HIDE DEF c
  <1>6. Kept(c)
    BY <1>1, <1>3, <1>4, <1>5 DEF Kept, UsedBy, Uses
  <1>7. QED
    BY <1>1, <1>6, BecomeKept DEF b

LEMMA CompileUsedK == ASSUME IInv, KInv, NEW s \in Sessions, CompileUsed(s) PROVE KInv'
  <1> DEFINE b == Me(s)  c == [b EXCEPT !.pc = "object", !.again = TRUE]
             k == Compiler(Used(s), FALSE, TRUE)
  <1>1. /\ stack[s] # <<>> /\ b.pc = "compile" /\ Quiet
        /\ stack' = [stack EXCEPT ![s] = Front(@) \o <<c, k>>]
    BY DEF CompileUsed, At
  <1>2. b \in CompilerRec /\ b \in Range(stack[s])
    BY <1>1, MeFacts, MeInRange
  <1>3. Kept(b)
    BY <1>2 DEF KInv
  <1> HIDE DEF b
  <1>4. c \in CompilerRec
    BY <1>2, Zenon DEF CompilerRec, Places
  <1>5. c.mod = b.mod /\ c.ifgen = b.ifgen /\ c.pc = "object" /\ c.use = b.use
    BY <1>2 DEF CompilerRec
  <1> HIDE DEF c
  <1>6. Kept(c)
    BY <1>1, <1>3, <1>5 DEF Kept, UsedBy, Uses
  <1>7. Kept(k)
    BY DEF Compiler, Kept
  <1> HIDE DEF k
  <1>8. \A d \in {c, k} : Kept(d)
    BY <1>6, <1>7
  <1>9. Replaces(s, {c, k}) /\ UNCHANGED <<intf, obj>>
    BY <1>1, <1>4, CallReplaces DEF Quiet
  <1>10. QED
    BY <1>8, <1>9, KeptQuiet

LEMMA ReadInterfaceK == ASSUME IInv, KInv, NEW s \in Sessions, ReadInterface(s) PROVE KInv'
  <1> DEFINE b == Me(s)  u == Used(s)
             c == [b EXCEPT !.pc = "use", !.use = @ + 1, !.deps = FreshnessDeps(b, u),
                     !.from = @ \cup {<<m, intf[u].deps[m]>> : m \in DOMAIN intf[u].deps},
                     !.links = @ \cup {u} \cup intf[u].links]
  <1>1. stack[s] # <<>> /\ Quiet /\ Become(s, c)
    BY DEF ReadInterface, At
  <1>2. b \in CompilerRec
    BY <1>1, MeFacts
  <1> HIDE DEF b
  <1>3. c.pc = "use"
    BY <1>2 DEF CompilerRec
  <1> HIDE DEF c
  <1>4. QED
    BY <1>1, <1>3, KeptAnyway, BecomeKept

LEMMA PublishInterfaceK == ASSUME IInv, KInv, NEW s \in Sessions, PublishInterface(s) PROVE KInv'
  <1>1. stack[s] # <<>> /\ Exit(s, "ok") /\ UNCHANGED obj
        /\ intf' = [intf EXCEPT ![Me(s).mod] = NewInterface(Me(s), 0)]
    BY DEF PublishInterface, Parsed, At
  <1>2. Me(s) \in CompilerRec
    BY <1>1, MeFacts
  <1>3. NewInterface(Me(s), 0) # Missing
    <2>1. 0 \in 0..3
      OBVIOUS
    <2>2. QED
      BY <1>2, <2>1, NewInterfaceFacts
  <1>4. \A m \in Modules : intf[m] # Missing => intf'[m] # Missing
    BY <1>1, <1>3 DEF IInv, Types
  <1>5. QED
    BY <1>1, <1>4, ExitKept

LEMMA EmitObjectK == ASSUME IInv, KInv, NEW s \in Sessions, EmitObject(s) PROVE KInv'
  <1> DEFINE b == Me(s)  n == [from |-> b.from, stamp |-> NewStamp(b.mod)]
             c == [b EXCEPT !.pc = "publish", !.again = FALSE]
  <1>1. /\ stack[s] # <<>> /\ Become(s, c) /\ UNCHANGED intf
        /\ obj' = [obj EXCEPT ![b.mod] = n]
    BY DEF EmitObject, Parsed, At, Goto
  <1>2. b \in CompilerRec /\ b.mod \in Modules
    BY <1>1, MeFacts
  <1>3. n # Missing
    BY DEF Missing
  <1> HIDE DEF b, n
  <1>4. c.mod = b.mod /\ c.pc = "publish"
    BY <1>2 DEF CompilerRec
  <1> HIDE DEF c
  <1>5. obj'[b.mod] # Missing /\ \A m \in Modules : obj[m] # Missing => obj'[m] # Missing
    BY <1>1, <1>2, <1>3 DEF IInv, Types
  <1>6. Replaces(s, {c})
    BY <1>1, BecomeReplaces
  <1>7. QED
    BY <1>1, <1>4, <1>5, <1>6, KeptMoves

LEMMA WriteInterfaceK == ASSUME IInv, KInv, NEW s \in Sessions, WriteInterface(s) PROVE KInv'
  <1> DEFINE b == Me(s)  n == NewInterface(b, obj[b.mod].stamp)
             c == [b EXCEPT !.pc = "finish", !.holds = With(@, Interface(b.mod), "EXCLUSIVE")]
  <1>1. /\ stack[s] # <<>> /\ b.pc = "publish" /\ Become(s, c) /\ UNCHANGED obj
        /\ intf' = [intf EXCEPT ![b.mod] = n]
    BY DEF WriteInterface, At
  <1>2. b \in CompilerRec /\ b.mod \in Modules /\ b \in Range(stack[s])
    BY <1>1, MeFacts, MeInRange
  <1>3. obj[b.mod] # Missing
    BY <1>1, <1>2 DEF KInv, Kept
  <1>4. n # Missing
    BY DEF NewInterface, Missing
  <1> HIDE DEF b, n
  <1>5. c.mod = b.mod /\ c.pc = "finish"
    BY <1>2 DEF CompilerRec
  <1> HIDE DEF c
  <1>6. \A m \in Modules : intf[m] # Missing => intf'[m] # Missing
    BY <1>1, <1>4 DEF IInv, Types
  <1>7. Replaces(s, {c})
    BY <1>1, BecomeReplaces
  <1>8. QED
    BY <1>1, <1>3, <1>5, <1>6, <1>7, KeptMoves

LEMMA EditK == ASSUME IInv, KInv, NEW m \in Modules, Edit(m) PROVE KInv'
  BY DEF Edit, KInv, Kept

Inv == IInv /\ KInv

LEMMA StepInv == ASSUME Inv, [Next]_vars PROVE Inv'
  <1>1. ASSUME NEW s \in Sessions, Start(s) PROVE Inv'
    BY <1>1, StartI, StartK DEF Inv
  <1>2. ASSUME NEW s \in Sessions, Run(s) PROVE Inv'
    <2>1. CASE LockOutput(s)
      BY <2>1, LockOutputI, LockOutputK DEF Inv
    <2>2. CASE AlreadyFresh(s)
      <3>1. stack[s] # <<>> /\ Exit(s, "ok") /\ UNCHANGED <<intf, obj>>
        BY <2>2 DEF AlreadyFresh, At
      <3>2. QED
        BY <2>2, <3>1, AlreadyFreshI, ExitKept DEF Inv
    <2>3. CASE LoadSource(s)
      BY <2>3, LoadSourceI, LoadSourceK DEF Inv
    <2>4. CASE UseCycle(s)
      <3>1. stack[s] # <<>> /\ Goto(s, "error") /\ Quiet
        BY <2>4 DEF UseCycle, MoreUses, At
      <3>2. KInv'
        BY <3>1, GotoKept DEF Inv
      <3>3. QED
        BY <2>4, <3>2, UseCycleI DEF Inv
    <2>5. CASE BeginUse(s)
      <3>1. stack[s] # <<>> /\ Goto(s, "interface") /\ Quiet
        BY <2>5 DEF BeginUse, MoreUses, At
      <3>2. KInv'
        BY <3>1, GotoKept DEF Inv
      <3>3. QED
        BY <2>5, <3>2, BeginUseI DEF Inv
    <2>6. CASE EnsureInterface(s)
      BY <2>6, EnsureInterfaceI, EnsureInterfaceK DEF Inv
    <2>7. CASE LockObject(s)
      BY <2>7, LockObjectI, LockObjectK DEF Inv
    <2>8. CASE CheckObject(s)
      BY <2>8, CheckObjectI, CheckObjectK DEF Inv
    <2>9. CASE EnsureInterfaceAgain(s)
      BY <2>9, EnsureInterfaceAgainI, EnsureInterfaceAgainK DEF Inv
    <2>10. CASE CompileUsed(s)
      BY <2>10, CompileUsedI, CompileUsedK DEF Inv
    <2>11. CASE ReadInterface(s)
      BY <2>11, ReadInterfaceI, ReadInterfaceK DEF Inv
    <2>12. CASE PublishInterface(s)
      BY <2>12, PublishInterfaceI, PublishInterfaceK DEF Inv
    <2>13. CASE EmitObject(s)
      BY <2>13, EmitObjectI, EmitObjectK DEF Inv
    <2>14. CASE WriteInterface(s)
      BY <2>14, WriteInterfaceI, WriteInterfaceK DEF Inv
    <2>15. CASE Finish(s)
      <3>1. stack[s] # <<>> /\ Exit(s, "ok") /\ UNCHANGED <<intf, obj>>
        BY <2>15 DEF Finish, At
      <3>2. QED
        BY <2>15, <3>1, FinishI, ExitKept DEF Inv
    <2>16. CASE Fail(s)
      <3>1. stack[s] # <<>> /\ Exit(s, "failed") /\ UNCHANGED <<intf, obj>>
        BY <2>16 DEF Fail, At
      <3>2. QED
        BY <2>16, <3>1, FailI, ExitKept DEF Inv
    <2>17. QED
      BY <1>2, <2>1, <2>2, <2>3, <2>4, <2>5, <2>6, <2>7, <2>8, <2>9, <2>10, <2>11, <2>12,
         <2>13, <2>14, <2>15, <2>16 DEF Run
  <1>3. ASSUME NEW s \in Sessions, Die(s) PROVE Inv'
    BY <1>3, DieI, DieK DEF Inv
  <1>4. ASSUME NEW m \in Modules, Edit(m) PROVE Inv'
    BY <1>4, EditI, EditK DEF Inv
  <1>5. CASE UNCHANGED vars
    BY <1>5 DEF Inv, IInv, Types, KInv, Kept, vars
  <1>6. QED
    BY <1>1, <1>2, <1>3, <1>4, <1>5 DEF Next, Finished

LEMMA InvCorrect == Spec => []Inv
  <1>1. Init => Inv
    BY InitI, InitK DEF Inv
  <1>2. Inv /\ [Next]_vars => Inv'
    BY StepInv
  <1>3. QED
    BY <1>1, <1>2, PTL DEF Spec

LEMMA InvTyped == ASSUME Inv PROVE TypeOK
  <1>1. Types /\ \A s \in Sessions : stack[s] \in Seq(CompilerRec) /\ Chain(stack[s])
    BY DEF Inv, IInv, Types
  <1>2. ASSUME NEW m \in Modules
        PROVE  /\ intf[m] # Missing => m \in DOMAIN intf[m].deps
               /\ obj[m] # Missing => obj[m].stamp \in 1..3
    BY <1>1 DEF Types, ObjectRec
  <1>3. ASSUME NEW s \in Sessions, NEW i \in DOMAIN stack[s]
        PROVE  LET c == stack[s][i] IN
               /\ c.mod \in Modules /\ c.links \subseteq Modules
               /\ c.use \in 1..(Len(Uses(c)) + 1)
               /\ i < Len(stack[s]) =>
                    c.again /\ c.pc \in {"interface", "reinterface", "object"}
               /\ \A j \in 1..(i - 1) : Output(stack[s][j]) # Output(c)
    <2> DEFINE st == stack[s]  c == st[i]
    <2>1. st \in Seq(CompilerRec) /\ Chain(st) /\ i \in DOMAIN st
      BY <1>1
    <2> HIDE DEF st
    <2>2. c.mod \in Modules /\ c.links \subseteq Modules
      <3>1. c \in CompilerRec
        BY <2>1
      <3>2. QED
        BY <3>1 DEF CompilerRec
    <2>3. c.use \in 1..(Len(Uses(c)) + 1)
      BY <2>1 DEF Chain, Frame
    <2>4. i < Len(st) => c.again /\ c.pc \in {"interface", "reinterface", "object"}
      BY <2>1 DEF Chain, Calls
    <2>5. \A j \in 1..(i - 1) : Output(st[j]) # Output(c)
      BY <2>1 DEF Chain, Over
    <2>6. QED
      BY <2>2, <2>3, <2>4, <2>5 DEF st
  <1>4. QED
    BY <1>1, <1>2, <1>3 DEF Types, TypeOK

(* The types of what is on disk and of the compilers: every compiler but   *)
(* the last of a session waits for a child in the middle of a use, and no  *)
(* two compilers of a session compile to the same artifact, however the    *)
(* modules use each other (ODqCompiler::Run, RunModuleChildCompile).       *)
THEOREM TypeCorrect == Spec => []TypeOK
  <1>1. Inv => TypeOK
    BY InvTyped
  <1>2. QED
    BY <1>1, InvCorrect, PTL

-----------------------------------------------------------------------------
LEMMA Least ==
  ASSUME NEW T \in SUBSET Nat, T # {}
  PROVE  \E x \in T : \A y \in T : x <= y
  <1>1. IsWellFoundedOn(OpToRel(<, Nat), Nat)
    BY NatLessThanWellFounded
  <1>2. \E x \in T : \A y \in T : <<y, x>> \notin OpToRel(<, Nat)
    BY <1>1, WFMin
  <1>3. ASSUME NEW x \in T, NEW y \in T, <<y, x>> \notin OpToRel(<, Nat)
        PROVE  x <= y
    BY <1>3 DEF OpToRel
  <1>4. QED
    BY <1>2, <1>3

(* The artifact a session waits for, if it waits for one.                  *)
Needs(s) ==
  IF Me(s).pc = "lock" THEN Output(Me(s))
  ELSE IF Me(s).pc = "publish" THEN Interface(Me(s).mod)
  ELSE IF Me(s).pc = "object" THEN Object(Used(s))
  ELSE Interface(Used(s))

Waiting == {"lock", "publish", "object", "locked", "read", "interface", "reinterface"}

LEMMA WaitPlaces ==
  ASSUME NEW s \in Sessions, NEW t \in WaitsFor(s)
  PROVE  /\ stack[s] # <<>> /\ Me(s).pc \in Waiting
         /\ t \in Holders(Needs(s), {"SHARED", "EXCLUSIVE"})
  <1> DEFINE pc == Me(s).pc
  <1>1. \A a : SharedBlockers(a) \subseteq Holders(a, {"SHARED", "EXCLUSIVE"})
    BY DEF SharedBlockers, Holders
  <1>2. \A a : ExclusiveBlockers(a) = Holders(a, {"SHARED", "EXCLUSIVE"})
    BY DEF ExclusiveBlockers
  <1>3. \A where : At(s, where) <=> stack[s] # <<>> /\ pc = where
    BY DEF At
  <1> HIDE DEF pc
  <1>4. CASE stack[s] # <<>> /\ pc = "lock"
    <2>1. WaitsFor(s) = ExclusiveBlockers(Output(Me(s)))
      BY <1>3, <1>4 DEF WaitsFor
    <2>2. QED
      BY <1>2, <1>4, <2>1 DEF Needs, Waiting, pc
  <1>5. CASE stack[s] # <<>> /\ pc = "publish"
    <2>1. WaitsFor(s) = ExclusiveBlockers(Interface(Me(s).mod))
      BY <1>3, <1>5 DEF WaitsFor
    <2>2. QED
      BY <1>2, <1>5, <2>1 DEF Needs, Waiting, pc
  <1>6. CASE stack[s] # <<>> /\ pc = "object"
    <2>1. WaitsFor(s) = SharedBlockers(Object(Used(s)))
      BY <1>3, <1>6 DEF WaitsFor
    <2>2. QED
      BY <1>1, <1>6, <2>1 DEF Needs, Waiting, pc
  <1>7. CASE stack[s] # <<>> /\ pc \in {"locked", "read", "interface", "reinterface"}
    <2>1. /\ ~At(s, "lock") /\ ~At(s, "publish") /\ ~At(s, "object")
      BY <1>3, <1>7
    <2>2. WaitsFor(s) = SharedBlockers(Interface(Used(s))) \/ WaitsFor(s) = {}
      <3> DEFINE reads == \/ At(s, "locked") \/ At(s, "read")
                          \/ (At(s, "interface") \/ At(s, "reinterface")) /\ intf[Used(s)] # Missing
      <3>1. CASE reads
        BY <2>1, <3>1 DEF WaitsFor
      <3>2. CASE ~reads
        BY <2>1, <3>2 DEF WaitsFor
      <3>3. QED
        BY <3>1, <3>2
    <2>3. Needs(s) = Interface(Used(s)) /\ pc \in Waiting
      BY <1>7 DEF Needs, Waiting, pc
    <2>4. QED
      BY <1>1, <1>7, <2>2, <2>3 DEF pc
  <1>8. CASE stack[s] = <<>> \/ pc \notin Waiting
    <2>1. /\ ~At(s, "lock") /\ ~At(s, "publish") /\ ~At(s, "object") /\ ~At(s, "locked")
          /\ ~At(s, "read") /\ ~At(s, "interface") /\ ~At(s, "reinterface")
      BY <1>3, <1>8 DEF Waiting
    <2>2. WaitsFor(s) = {}
      BY <2>1 DEF WaitsFor
    <2>3. QED
      BY <2>2
  <1>9. QED
    BY <1>4, <1>5, <1>6, <1>7, <1>8 DEF Waiting

(* What a waiting compiler needs, seen from itself: an interface of a      *)
(* module its module uses, or its own object's interface, or an object     *)
(* below its own.                                                          *)
LEMMA NeedsBelow ==
  ASSUME Inv, NEW s \in Sessions, stack[s] # <<>>, Me(s).pc \in Waiting, Me(s).pc # "lock"
  PROVE  /\ Me(s).ifgen => \E u \in Modules : /\ Needs(s) = Interface(u)
                                              /\ LowerInterface(u, Me(s).mod)
         /\ ~Me(s).ifgen => \E u \in Modules :
              \/ Needs(s) = Interface(u)
              \/ Needs(s) = Object(u) /\ LowerObject(u, Me(s).mod)
  <1> DEFINE c == Me(s)
  <1>1. c \in CompilerRec /\ Frame(c) /\ Enters(c, Mods(s)) /\ c.mod \in Modules
    BY MeFacts DEF Inv
  <1>2. c.pc # "publish" => Used(s) \in Modules /\ Used(s) \in UsesOf(c.mod, c.ifgen)
                            /\ Used(s) = UsedBy(c)
    <2>1. c.pc # "publish" => c.use \in 1..Len(Uses(c))
      BY <1>1 DEF Frame, Waiting, AtUse
    <2>2. QED
      BY <1>1, <2>1, UsesFacts DEF Used, UsedBy
  <1>3. <<Mods(s), c.mod, c.ifgen>> \in Entered
    <2> DEFINE st == stack[s]
    <2>1. st \in Seq(CompilerRec) /\ Chain(st) /\ st # <<>>
      BY MeFacts DEF Inv
    <2> HIDE DEF st
    <2>2. Len(st) \in DOMAIN st /\ Last(st) = st[Len(st)]
      BY <2>1, StackFacts
    <2>3. <<Above(st, Len(st)), Last(st).mod, Last(st).ifgen>> \in Entered
      BY <2>1, <2>2, ChainAt
    <2>4. QED
      BY <2>3 DEF Mods, Me, st
  <1>4. CASE c.ifgen
    <2>1. c.pc \in {"interface", "read"}
      BY <1>1, <1>4 DEF Frame, Waiting
    <2>2. Needs(s) = Interface(Used(s))
      BY <2>1 DEF Needs
    <2>3. LowerInterface(Used(s), c.mod)
      <3> DEFINE A == Mods(s)  m == c.mod  g == c.ifgen  u == Used(s)
      <3>1. <<A, m, g>> \in Entered /\ u \in Modules /\ u \in UsesOf(m, g) /\ g
        BY <1>2, <1>3, <1>4, <2>1
      <3> HIDE DEF A, m, g, u
      <3>2. LowerInterface(u, m)
        BY <3>1, UsesEntered
      <3>3. QED
        BY <3>2 DEF u, m
    <2>4. QED
      BY <1>2, <1>4, <2>1, <2>2, <2>3
  <1>5. CASE ~c.ifgen /\ c.pc = "object"
    <2>1. Needs(s) = Object(Used(s)) /\ Used(s) \notin Mods(s)
      BY <1>1, <1>2, <1>5 DEF Needs, Enters
    <2>2. LowerObject(Used(s), c.mod)
      <3> DEFINE A == Mods(s)  m == c.mod  g == c.ifgen  u == Used(s)
      <3>1. <<A, m, g>> \in Entered /\ u \in Modules /\ u \in UsesOf(m, g) /\ ~g /\ u \notin A
        BY <1>2, <1>3, <1>5, <2>1
      <3> HIDE DEF A, m, g, u
      <3>2. /\ <<A \cup {u}, u, TRUE>> \in Entered
            /\ ~g /\ u \notin A => <<A \cup {u}, u, FALSE>> \in Entered /\ LowerObject(u, m)
            /\ g => LowerInterface(u, m)
        BY <3>1, UsesEntered
      <3>3. QED
        BY <3>1, <3>2 DEF u, m
    <2>3. QED
      BY <1>2, <1>5, <2>1, <2>2
  <1>6. CASE ~c.ifgen /\ c.pc # "object"
    <2>1. c.pc = "publish" => Needs(s) = Interface(c.mod)
      BY DEF Needs
    <2>2. c.pc # "publish" => Needs(s) = Interface(Used(s))
      BY <1>6 DEF Needs
    <2>3. QED
      BY <1>1, <1>2, <1>6, <2>1, <2>2
  <1>7. QED
    BY <1>4, <1>5, <1>6

(* A session that holds an artifact and waits, waits for one below it.     *)
LEMMA HolderNeedsBelow ==
  ASSUME Inv, NEW t \in Sessions, NEW m \in Modules, stack[t] # <<>>, Me(t).pc \in Waiting
  PROVE  /\ t \in Holders(Interface(m), {"SHARED", "EXCLUSIVE"}) =>
              \E u \in Modules : Needs(t) = Interface(u) /\ LowerInterface(u, m)
         /\ t \in Holders(Object(m), {"SHARED", "EXCLUSIVE"}) =>
              \E u \in Modules : \/ Needs(t) = Interface(u)
                                 \/ Needs(t) = Object(u) /\ LowerObject(u, m)
  <1> DEFINE st == stack[t]  c == Me(t)
  <1>1. st \in Seq(CompilerRec) /\ Chain(st) /\ st # <<>> /\ c = Last(st)
    BY MeFacts DEF Inv, Me
  <1>2. c \in CompilerRec /\ Frame(c) /\ c.mod \in Modules /\ c.pc \in Waiting
    BY MeFacts DEF Inv
  <1>3. ASSUME NEW a, t \in Holders(a, {"SHARED", "EXCLUSIVE"})
        PROVE  \E h \in CompilerRec : /\ a \in DOMAIN h.holds /\ Frame(h)
                                      /\ \/ h = c
                                         \/ Over(h, c) /\ h.pc \in {"interface", "reinterface", "object"}
    <2>1. PICK i \in DOMAIN st : a \in DOMAIN st[i].holds
      BY <1>3 DEF Holders
    <2> HIDE DEF st, c
    <2>2. st[i] \in CompilerRec /\ Frame(st[i])
      <3>1. st[i] \in CompilerRec
        BY <1>1, <2>1
      <3>2. Frame(st[i])
        BY <1>1, <2>1, ChainAt
      <3>3. QED
        BY <3>1, <3>2
    <2>3. Len(st) \in Nat /\ Len(st) \in DOMAIN st /\ Last(st) = st[Len(st)]
      BY <1>1, StackFacts
    <2>4. i = Len(st) \/ (i < Len(st) /\ i \in 1..(Len(st) - 1))
      BY <1>1, <2>1, <2>3
    <2>5. CASE i = Len(st)
      BY <1>1, <2>1, <2>2, <2>3, <2>5
    <2>6. CASE i < Len(st) /\ i \in 1..(Len(st) - 1)
      <3>1. Over(st[i], st[Len(st)])
        BY <1>1, <2>3, <2>6, ChainAt
      <3>2. Calls(st[i], st[i + 1])
        BY <1>1, <2>1, <2>6, ChainAt
      <3>3. QED
        BY <1>1, <2>1, <2>2, <2>3, <3>1, <3>2 DEF Calls
    <2>7. QED
      BY <2>4, <2>5, <2>6
  <1>4. /\ c.pc = "lock" => Needs(t) = Output(c)
        /\ c.pc # "lock" =>
             /\ c.ifgen => \E u \in Modules : Needs(t) = Interface(u) /\ LowerInterface(u, c.mod)
             /\ ~c.ifgen => \E u \in Modules :
                  \/ Needs(t) = Interface(u)
                  \/ Needs(t) = Object(u) /\ LowerObject(u, c.mod)
    BY NeedsBelow DEF Needs
  <1> HIDE DEF st, c
  <1>5. ASSUME t \in Holders(Interface(m), {"SHARED", "EXCLUSIVE"})
        PROVE  \E u \in Modules : Needs(t) = Interface(u) /\ LowerInterface(u, m)
    <2>1. PICK h \in CompilerRec : /\ Interface(m) \in DOMAIN h.holds /\ Frame(h)
                                   /\ \/ h = c
                                      \/ Over(h, c) /\ h.pc \in {"interface", "reinterface", "object"}
      BY <1>3, <1>5
    <2>2. h.pc \notin {"lock", "finish"} /\ h.mod \in Modules
      BY <1>2, <2>1 DEF Frame, Waiting, CompilerRec
    <2>3. Interface(m) = Output(h)
      BY <2>1, <2>2 DEF Frame, Interface, Object
    <2>4. h.ifgen /\ h.mod = m
      BY <2>3 DEF Output, Interface, Object
    <2>5. CASE h = c
      BY <1>4, <2>2, <2>4, <2>5
    <2>6. CASE Over(h, c)
      <3>1. c.ifgen /\ LowerInterface(c.mod, m)
        BY <2>4, <2>6 DEF Over
      <3>2. CASE c.pc = "lock"
        <4>1. Needs(t) = Interface(c.mod)
          BY <1>4, <3>1, <3>2 DEF Output
        <4>2. QED
          BY <1>2, <3>1, <4>1
      <3>3. CASE c.pc # "lock"
        <4>1. PICK u \in Modules : Needs(t) = Interface(u) /\ LowerInterface(u, c.mod)
          BY <1>4, <3>1, <3>3
        <4>2. LowerInterface(u, m)
          BY <1>2, <3>1, <4>1, LowerTransitive
        <4>3. QED
          BY <4>1, <4>2
      <3>4. QED
        BY <3>2, <3>3
    <2>7. QED
      BY <2>1, <2>5, <2>6
  <1>6. ASSUME t \in Holders(Object(m), {"SHARED", "EXCLUSIVE"})
        PROVE  \E u \in Modules : \/ Needs(t) = Interface(u)
                                  \/ Needs(t) = Object(u) /\ LowerObject(u, m)
    <2>1. PICK h \in CompilerRec : /\ Object(m) \in DOMAIN h.holds /\ Frame(h)
                                   /\ \/ h = c
                                      \/ Over(h, c) /\ h.pc \in {"interface", "reinterface", "object"}
      BY <1>3, <1>6
    <2>2. h.pc \notin {"lock", "finish"} /\ h.mod \in Modules
      BY <1>2, <2>1 DEF Frame, Waiting, CompilerRec
    <2>3. CASE c.ifgen
      <3>1. \E u \in Modules : Needs(t) = Interface(u)
        BY <1>2, <1>4, <2>3 DEF Output
      <3>2. QED
        BY <3>1
    <2>4. CASE ~c.ifgen /\ h.pc = "locked" /\ h = c
      <3>1. Needs(t) = Interface(Used(t))
        BY <2>4 DEF Needs, c
      <3>2. c.use \in 1..Len(Uses(c))
        BY <1>2, <2>4 DEF Frame, AtUse
      <3>3. Used(t) \in Modules
        BY <1>2, <3>2, UsesFacts DEF Used, c
      <3>4. QED
        BY <3>1, <3>3
    <2>5. CASE ~c.ifgen /\ h.pc # "locked"
      <3>1. Object(m) = Output(h)
        BY <2>1, <2>2, <2>5 DEF Frame, Interface, Object
      <3>2. ~h.ifgen /\ h.mod = m
        BY <3>1 DEF Output, Interface, Object
      <3>3. CASE h = c
        BY <1>4, <2>2, <2>5, <3>2, <3>3
      <3>4. CASE Over(h, c)
        <4>1. LowerObject(c.mod, m)
          BY <2>5, <3>2, <3>4 DEF Over
        <4>2. CASE c.pc = "lock"
          <5>1. Needs(t) = Object(c.mod)
            BY <1>4, <2>5, <4>2 DEF Output
          <5>2. QED
            BY <1>2, <4>1, <5>1
        <4>3. CASE c.pc # "lock"
          <5>1. PICK u \in Modules : \/ Needs(t) = Interface(u)
                                     \/ Needs(t) = Object(u) /\ LowerObject(u, c.mod)
            BY <1>4, <2>5, <4>3
          <5>2. LowerObject(u, c.mod) => LowerObject(u, m)
            BY <1>2, <4>1, LowerTransitive
          <5>3. QED
            BY <5>1, <5>2
        <4>4. QED
          BY <4>2, <4>3
      <3>5. QED
        BY <2>1, <3>3, <3>4
    <2>6. QED
      BY <2>1, <2>3, <2>4, <2>5
  <1>7. QED
    BY <1>5, <1>6

(* Whoever waits, waits for an artifact, and each that waits in its way    *)
(* for one below it.                                                       *)
LEMMA WaitsBelow ==
  ASSUME Inv, NEW s \in Sessions, NEW t \in WaitsFor(s), t \in Sessions, WaitsFor(t) # {},
         NEW m \in Modules
  PROVE  /\ Needs(s) = Interface(m) =>
              \E u \in Modules : Needs(t) = Interface(u) /\ LowerInterface(u, m)
         /\ Needs(s) = Object(m) =>
              \E u \in Modules : \/ Needs(t) = Interface(u)
                                 \/ Needs(t) = Object(u) /\ LowerObject(u, m)
  <1>1. t \in Holders(Needs(s), {"SHARED", "EXCLUSIVE"})
    BY WaitPlaces
  <1>2. stack[t] # <<>> /\ Me(t).pc \in Waiting
    BY WaitPlaces
  <1>3. QED
    BY <1>1, <1>2, HolderNeedsBelow

LEMMA NeedsSomething ==
  ASSUME Inv, NEW s \in Sessions, WaitsFor(s) # {}
  PROVE  \E m \in Modules : Needs(s) = Interface(m) \/ Needs(s) = Object(m)
  <1>1. stack[s] # <<>> /\ Me(s).pc \in Waiting
    BY WaitPlaces
  <1>2. Me(s) \in CompilerRec /\ Me(s).mod \in Modules
    BY <1>1, MeFacts DEF Inv
  <1>3. CASE Me(s).pc = "lock"
    BY <1>2, <1>3 DEF Needs, Output
  <1>4. CASE Me(s).pc # "lock"
    <2>1. Me(s).ifgen \in BOOLEAN
      BY <1>2 DEF CompilerRec
    <2>2. QED
      BY <1>1, <1>4, <2>1, NeedsBelow
  <1>5. QED
    BY <1>3, <1>4

LEMMA InvNoCircle ==
  ASSUME Inv, NEW below \in [Modules -> Nat], OrderOfInterfaces(below),
         NEW under \in [Modules -> Nat], OrderOfObjects(under)
  PROVE  NoCircularWait
  <1> SUFFICES ASSUME NEW W \in SUBSET Sessions, W # {}
               PROVE  \E s \in W : WaitsFor(s) \cap W = {}
    BY Zenon DEF NoCircularWait
  <1> SUFFICES ASSUME \A s \in W : WaitsFor(s) \cap W # {} PROVE FALSE
    BY Zenon
  <1>1. \A s \in W : s \in Sessions /\ WaitsFor(s) # {}
    OBVIOUS
  <1> DEFINE I == {n \in Nat : \E s \in W : \E m \in Modules : Needs(s) = Interface(m) /\ n = below[m]}
             O == {n \in Nat : \E s \in W : \E m \in Modules : Needs(s) = Object(m) /\ n = under[m]}
  <1>2. I = {}
    <2> SUFFICES ASSUME I # {} PROVE FALSE
      OBVIOUS
    <2>1. I \in SUBSET Nat
      OBVIOUS
    <2>2. PICK n \in I : \A k \in I : n <= k
      <3> HIDE DEF I
      <3>1. QED
        BY <2>1, Least
    <2>3. PICK s \in W, m \in Modules : Needs(s) = Interface(m) /\ n = below[m]
      BY <2>2
    <2>4. PICK t \in W : t \in WaitsFor(s)
      OBVIOUS
    <2>5. PICK u \in Modules : Needs(t) = Interface(u) /\ LowerInterface(u, m)
      BY <1>1, <2>3, <2>4, WaitsBelow
    <2>6. below[u] < below[m] /\ below[u] \in Nat /\ below[m] \in Nat
      BY <2>5 DEF LowerInterface
    <2>7. below[u] \in I
      BY <2>4, <2>5, <2>6
    <2>8. n <= below[u]
      BY <2>2, <2>7
    <2>9. QED
      BY <2>3, <2>6, <2>8
  <1>3. ASSUME NEW s \in W, NEW m \in Modules PROVE Needs(s) # Interface(m)
    <2>1. below[m] \in Nat
      OBVIOUS
    <2>2. QED
      BY <1>2, <2>1
  <1>4. \A s \in W : \E m \in Modules : Needs(s) = Object(m)
    BY <1>1, <1>3, NeedsSomething
  <1>5. O # {}
    <2>1. PICK s \in W : TRUE
      OBVIOUS
    <2>2. PICK m \in Modules : Needs(s) = Object(m)
      BY <1>4
    <2>3. under[m] \in O
      BY <2>2
    <2>4. QED
      BY <2>3
  <1>6. PICK n \in O : \A k \in O : n <= k
    <2>1. O \in SUBSET Nat
      OBVIOUS
    <2> HIDE DEF O
    <2>2. QED
      BY <1>5, <2>1, Least
  <1>7. PICK s \in W, m \in Modules : Needs(s) = Object(m) /\ n = under[m]
    BY <1>6
  <1>8. PICK t \in W : t \in WaitsFor(s)
    OBVIOUS
  <1>9. PICK u \in Modules : Needs(t) = Object(u) /\ LowerObject(u, m)
    <2>1. PICK v \in Modules : \/ Needs(t) = Interface(v)
                               \/ Needs(t) = Object(v) /\ LowerObject(v, m)
      BY <1>1, <1>7, <1>8, WaitsBelow
    <2>2. QED
      BY <1>3, <1>8, <2>1
  <1>10. under[u] < under[m] /\ under[u] \in Nat /\ under[m] \in Nat
    BY <1>9 DEF LowerObject
  <1>11. under[u] \in O
    BY <1>8, <1>9, <1>10
  <1>12. n <= under[u]
    BY <1>6, <1>11
  <1>13. QED
    BY <1>7, <1>10, <1>12

(* Compilers do not lock each other up, provided that the interfaces are   *)
(* not used in a circle and that the objects are entered in one order from *)
(* every program: whoever waits, waits for an interface, or for an object  *)
(* below all it holds (ArtifactLock in module_intf.cpp and dqc.cpp).       *)
THEOREM NoCircle ==
  ASSUME NEW below \in [Modules -> Nat], OrderOfInterfaces(below),
         NEW under \in [Modules -> Nat], OrderOfObjects(under)
  PROVE  Spec => []NoCircularWait
  <1>1. Inv => NoCircularWait
    BY InvNoCircle
  <1>2. QED
    BY <1>1, InvCorrect, PTL

-----------------------------------------------------------------------------
(* Two sessions never hold the same artifact, unless both share it.        *)
Exclusive ==
  \A s, t \in Sessions : \A b \in Range(stack[s]), c \in Range(stack[t]) :
    s # t => \A a \in DOMAIN b.holds \cap DOMAIN c.holds :
               b.holds[a] = "SHARED" /\ c.holds[a] = "SHARED"

LEMMA LastOfAppend ==
  ASSUME NEW st \in Seq(CompilerRec), NEW c
  PROVE  Last(Append(st, c)) = c /\ Append(st, c) # <<>>
  <1> DEFINE Q == CompilerRec  R == Q \cup {c}
  <1>1. c \in R /\ st \in Seq(Q) /\ Q \subseteq R
    OBVIOUS
  <1> HIDE DEF Q, R
  <1>2. st \in Seq(R)
    BY <1>1
  <1>3. /\ Append(st, c) \in Seq(R) /\ Len(st) \in Nat /\ Len(Append(st, c)) = Len(st) + 1
        /\ Append(st, c)[Len(st) + 1] = c
    BY <1>1, <1>2
  <1>4. QED
    BY <1>3 DEF Last

LEMMA Becomes ==
  ASSUME IInv, NEW s \in Sessions, stack[s] # <<>>, NEW c, Become(s, c)
  PROVE  /\ Replaces(s, {c}) /\ stack'[s] # <<>> /\ Me(s)' = c
         /\ \A t \in Sessions \ {s} : stack'[t] = stack[t]
  <1>1. stack \in [Sessions -> Seq(CompilerRec)]
    BY DEF IInv, Types
  <1>2. Front(stack[s]) \in Seq(CompilerRec)
    BY <1>1, StackFacts
  <1>3. stack'[s] = Append(Front(stack[s]), c) /\ \A t \in Sessions \ {s} : stack'[t] = stack[t]
    BY <1>1 DEF Become
  <1>4. stack'[s] # <<>> /\ Last(stack'[s]) = c
    BY <1>2, <1>3, LastOfAppend
  <1>5. QED
    BY <1>3, <1>4, BecomeReplaces DEF Me

LEMMA ExclusiveMoves ==
  ASSUME IInv, Exclusive, NEW s \in Sessions, NEW C, Replaces(s, C),
         \A c \in C : \A a \in DOMAIN c.holds :
           \/ \E b \in Range(stack[s]) : a \in DOMAIN b.holds /\ b.holds[a] = c.holds[a]
           \/ c.holds[a] = "SHARED" /\ SharedBlockers(a) = {}
           \/ ExclusiveBlockers(a) = {}
  PROVE  Exclusive'
  <1>1. ASSUME NEW t \in Sessions, t # s, NEW b \in Range(stack'[s]), NEW d \in Range(stack'[t]),
               NEW a \in DOMAIN b.holds \cap DOMAIN d.holds
        PROVE  b.holds[a] = "SHARED" /\ d.holds[a] = "SHARED"
    <2>1. d \in Range(stack[t])
      BY <1>1 DEF Replaces
    <2>2. ASSUME NEW e \in Range(stack[s]), a \in DOMAIN e.holds, e.holds[a] = b.holds[a]
          PROVE  b.holds[a] = "SHARED" /\ d.holds[a] = "SHARED"
      BY <1>1, <2>1, <2>2 DEF Exclusive
    <2>3. CASE b \in Rest(s)
      BY <2>2, <2>3, RestFacts
    <2>4. CASE b \in C
      <3>1. PICK j \in DOMAIN stack[t] : d = stack[t][j]
        BY <2>1 DEF Range
      <3>2. stack[t] \in Seq(CompilerRec)
        BY DEF IInv, Types
      <3>3. d.holds[a] \in {"SHARED", "EXCLUSIVE"}
        <4>1. d \in CompilerRec
          BY <3>1, <3>2
        <4>2. d.holds \in Locks
          BY <4>1 DEF CompilerRec
        <4>3. QED
          BY <4>2 DEF Locks
      <3>4. ExclusiveBlockers(a) # {}
        BY <3>1, <3>3 DEF ExclusiveBlockers, Holders
      <3>5. d.holds[a] = "EXCLUSIVE" => SharedBlockers(a) # {}
        BY <3>1 DEF SharedBlockers, Holders
      <3>6. CASE b.holds[a] = "SHARED" /\ SharedBlockers(a) = {}
        BY <3>3, <3>5, <3>6
      <3>7. QED
        BY <2>2, <2>4, <3>4, <3>6
    <2>5. QED
      BY <1>1, <2>3, <2>4 DEF Replaces
  <1>2. ASSUME NEW t \in Sessions, NEW u \in Sessions, t # u, t # s, u # s,
               NEW b \in Range(stack'[t]), NEW d \in Range(stack'[u]),
               NEW a \in DOMAIN b.holds \cap DOMAIN d.holds
        PROVE  b.holds[a] = "SHARED" /\ d.holds[a] = "SHARED"
    <2>1. b \in Range(stack[t]) /\ d \in Range(stack[u])
      BY <1>2 DEF Replaces
    <2>2. QED
      BY <1>2, <2>1 DEF Exclusive
  <1>3. QED
    BY <1>1, <1>2 DEF Exclusive

(* A step that takes no lock.                                              *)
LEMMA ExclusiveKeeps ==
  ASSUME IInv, Exclusive, NEW s \in Sessions, stack[s] # <<>>, NEW C, Replaces(s, C),
         \A c \in C : c.holds = Me(s).holds \/ DOMAIN c.holds = {}
  PROVE  Exclusive'
  <1>1. Me(s) \in Range(stack[s])
    BY MeInRange
  <1>2. QED
    BY <1>1, ExclusiveMoves

(* Builds nobody disturbs: no source is edited, no compile finds itself    *)
(* above in its stack by a public use, and what is compiled by command is  *)
(* used by nobody.                                                         *)
Program(m) == \A n \in Modules : m \notin UsesOf(n, FALSE)

Undisturbed ==
  /\ MaxEdits = 0
  /\ \A e \in Entered : Range(PublicUses[e[2]]) \cap e[1] = {}
  /\ \A s \in Sessions : \A c \in Commands[s] : Program(c.mod)

Zero(d) == \A m \in DOMAIN d : d[m] = 0

(* A compiler that was called and has begun, found its artifact stale, and *)
(* it stays so until the compiler has written it.                          *)
Good(c) ==
  /\ c.pc # "error"
  /\ Zero(c.deps)
  /\ c.regen \/ Program(c.mod)
  /\ c.regen /\ c.pc \notin {"lock", "opened"} =>
       /\ c.ifgen => intf[c.mod] = Missing
       /\ ~c.ifgen /\ c.pc # "finish" => ~ObjectArtifactIsFresh(c.mod)
       /\ c.pc = "finish" => ObjectArtifactIsFresh(c.mod)

(* A compiler whose child has returned finds what the child was for.       *)
Served(c) ==
  c.again => /\ c.pc = "interface" => intf[UsedBy(c)] # Missing
             /\ c.pc \in {"object", "locked"} => ObjectArtifactIsFresh(UsedBy(c))

SInv ==
  /\ Exclusive
  /\ \A m \in Modules : intf[m] # Missing => Zero(intf[m].deps)
  /\ \A s \in Sessions : \A c \in Range(stack[s]) : Good(c)
  /\ \A s \in Sessions : stack[s] # <<>> => Served(Me(s))
  /\ \A s \in Sessions : result[s] # "failed"

LEMMA SourcesAreZero ==
  ASSUME IInv, Undisturbed
  PROVE  \A m \in Modules : src[m] = 0
  BY DEF IInv, Types, Undisturbed

LEMMA PresentIsFresh ==
  ASSUME IInv, Undisturbed, SInv, NEW m \in Modules
  PROVE  /\ InterfaceArtifactIsFresh(m) <=> intf[m] # Missing
         /\ ObjectArtifactIsFresh(m) <=>
              obj[m] # Missing /\ intf[m] # Missing /\ intf[m].stamp = obj[m].stamp
  <1>1. ASSUME intf[m] # Missing PROVE MetadataMatchesSources(intf[m].deps)
    <2>1. intf[m] \in InterfaceRec /\ Zero(intf[m].deps)
      BY <1>1 DEF IInv, Types, SInv
    <2>2. intf[m].deps \in Versions
      BY <2>1 DEF InterfaceRec
    <2>3. PICK M \in SUBSET Modules : intf[m].deps \in [M -> Nat]
      BY <2>2 DEF Versions
    <2>4. QED
      BY <2>1, <2>3, SourcesAreZero DEF Zero, MetadataMatchesSources
  <1>2. QED
    BY <1>1 DEF InterfaceArtifactIsFresh, ObjectArtifactIsFresh

(* Nothing on disk changes.                                                *)
LEMMA GoodQuiet ==
  ASSUME SInv, IInv, NEW s \in Sessions, NEW C, Replaces(s, C), UNCHANGED <<src, intf, obj>>,
         \A c \in C : Good(c)
  PROVE  /\ \A m \in Modules : intf'[m] # Missing => Zero(intf'[m].deps)
         /\ \A t \in Sessions : \A c \in Range(stack'[t]) : Good(c)'
  <1>1. ASSUME NEW t \in Sessions, NEW c \in Range(stack'[t]) PROVE Good(c)
    <2>1. CASE t = s /\ c \in C
      BY <2>1
    <2>2. CASE ~(t = s /\ c \in C)
      <3>1. c \in Range(stack[t])
        BY <2>2, RestFacts DEF Replaces
      <3>2. QED
        BY <3>1 DEF SInv
    <2>3. QED
      BY <2>1, <2>2
  <1>2. ASSUME NEW c, Good(c) PROVE Good(c)'
    BY <1>2 DEF Good, ObjectArtifactIsFresh, InterfaceArtifactIsFresh, MetadataMatchesSources
  <1>3. QED
    BY <1>1, <1>2 DEF SInv

(* A step of a compiler that stays, and changes nothing on disk.           *)
LEMMA SoundStep ==
  ASSUME SInv, IInv, NEW s \in Sessions, stack[s] # <<>>, NEW c, Become(s, c), Quiet,
         Good(c), Served(c), Exclusive'
  PROVE  SInv'
  <1>1. /\ Replaces(s, {c}) /\ stack'[s] # <<>> /\ Me(s)' = c
        /\ \A t \in Sessions \ {s} : stack'[t] = stack[t]
    BY Becomes
  <1>2. UNCHANGED <<src, intf, obj, result>>
    BY DEF Quiet
  <1>3. /\ \A m \in Modules : intf'[m] # Missing => Zero(intf'[m].deps)
        /\ \A t \in Sessions : \A d \in Range(stack'[t]) : Good(d)'
    <2>1. \A d \in {c} : Good(d)
      OBVIOUS
    <2>2. QED
      BY <1>1, <1>2, <2>1, GoodQuiet
  <1>4. ASSUME NEW d, Served(d) PROVE Served(d)'
    BY <1>2, <1>4 DEF Served, ObjectArtifactIsFresh, InterfaceArtifactIsFresh, MetadataMatchesSources
  <1>5. ASSUME NEW t \in Sessions, stack'[t] # <<>> PROVE Served(Me(t))'
    <2>1. CASE t = s
      <3>1. Served(c)'
        BY <1>4
      <3>2. QED
        BY <1>1, <2>1, <3>1 DEF Served
    <2>2. CASE t # s
      <3>1. stack'[t] = stack[t] /\ Me(t)' = Me(t)
        BY <1>1, <2>2 DEF Me
      <3>2. Served(Me(t))
        BY <1>5, <3>1 DEF SInv
      <3>3. QED
        BY <1>4, <3>1, <3>2 DEF Served
    <2>3. QED
      BY <2>1, <2>2
  <1>6. QED
    BY <1>2, <1>3, <1>5 DEF SInv

Sound == Undisturbed /\ Inv /\ SInv

LEMMA MeGood ==
  ASSUME Sound, NEW s \in Sessions, stack[s] # <<>>
  PROVE  /\ Me(s) \in CompilerRec /\ Frame(Me(s)) /\ Me(s).mod \in Modules
         /\ Good(Me(s)) /\ Served(Me(s)) /\ Kept(Me(s))
  BY MeFacts, MeInRange DEF Sound, Inv, SInv, KInv

LEMMA UsedFacts ==
  ASSUME Sound, NEW s \in Sessions, stack[s] # <<>>, Me(s).use <= Len(Uses(Me(s)))
  PROVE  /\ Used(s) \in Modules /\ Used(s) = UsedBy(Me(s)) /\ ~Program(Used(s))
         /\ Used(s) \in UsesOf(Me(s).mod, Me(s).ifgen)
  <1>1. Me(s) \in CompilerRec /\ Frame(Me(s)) /\ Me(s).mod \in Modules
    BY MeGood
  <1>2. Me(s).use \in 1..Len(Uses(Me(s)))
    BY <1>1 DEF Frame
  <1>3. Used(s) \in Modules /\ Used(s) \in UsesOf(Me(s).mod, Me(s).ifgen)
    BY <1>1, <1>2, UsesFacts DEF Used
  <1>4. Used(s) \in UsesOf(Me(s).mod, FALSE)
    BY <1>3 DEF UsesOf
  <1>5. QED
    BY <1>1, <1>3, <1>4 DEF Program, Used, UsedBy

LEMMA LockOutputS == ASSUME Sound, NEW s \in Sessions, LockOutput(s) PROVE SInv'
  <1> DEFINE b == Me(s)  h == With(<<>>, Output(b), "EXCLUSIVE")
             c == [b EXCEPT !.pc = "opened", !.holds = h]
  <1>1. stack[s] # <<>> /\ b.pc = "lock" /\ Become(s, c) /\ Quiet
        /\ ExclusiveBlockers(Output(b)) = {}
    BY DEF LockOutput, At
  <1>2. b \in CompilerRec /\ Good(b)
    BY <1>1, MeGood
  <1>3. /\ c.pc = "opened" /\ c.mod = b.mod /\ c.ifgen = b.ifgen /\ c.regen = b.regen
        /\ c.deps = b.deps /\ c.holds = h
    BY <1>2 DEF CompilerRec
  <1>4. DOMAIN h = {Output(b)}
    BY NoLocks DEF With
  <1> HIDE DEF c, h
  <1>5. Good(c) /\ Served(c)
    BY <1>1, <1>2, <1>3 DEF Good, Served
  <1>6. Exclusive'
    <2>1. Replaces(s, {c})
      BY <1>1, Becomes DEF Sound, Inv
    <2>2. \A d \in {c} : \A a \in DOMAIN d.holds : ExclusiveBlockers(a) = {}
      BY <1>1, <1>3, <1>4
    <2>3. QED
      BY <2>1, <2>2, ExclusiveMoves DEF Sound, Inv, SInv
  <1>7. QED
    BY <1>1, <1>5, <1>6, SoundStep DEF Sound, Inv

(* A step that takes no lock.                                              *)
LEMMA LocklessStep ==
  ASSUME Sound, NEW s \in Sessions, stack[s] # <<>>, NEW c, Become(s, c), Quiet,
         Good(c), Served(c), c.holds = Me(s).holds
  PROVE  SInv'
  <1>1. Replaces(s, {c})
    BY Becomes DEF Sound, Inv
  <1>2. Exclusive'
    BY <1>1, ExclusiveKeeps DEF Sound, Inv, SInv
  <1>3. QED
    BY <1>2, SoundStep DEF Sound, Inv

LEMMA LoadSourceS == ASSUME Sound, NEW s \in Sessions, LoadSource(s) PROVE SInv'
  <1> DEFINE b == Me(s)  d == [m \in {b.mod} |-> src[m]]
             c == [b EXCEPT !.pc = "use", !.deps = d, !.from = {<<b.mod, src[b.mod]>>}]
  <1>1. /\ stack[s] # <<>> /\ Become(s, c) /\ Quiet
        /\ b.regen => IF b.ifgen THEN ~InterfaceArtifactIsFresh(b.mod)
                                 ELSE ~ObjectArtifactIsFresh(b.mod)
    BY DEF LoadSource, At
  <1>2. b \in CompilerRec /\ Good(b) /\ b.mod \in Modules
    BY <1>1, MeGood
  <1>3. Zero(d)
    BY <1>2, SourcesAreZero DEF Zero, Sound, Inv
  <1> HIDE DEF b, d
  <1>4. /\ c.pc = "use" /\ c.mod = b.mod /\ c.ifgen = b.ifgen /\ c.regen = b.regen
        /\ c.deps = d /\ c.holds = b.holds
    BY <1>2 DEF CompilerRec
  <1> HIDE DEF c
  <1>5. Good(c) /\ Served(c)
    <2>1. b.ifgen /\ ~InterfaceArtifactIsFresh(b.mod) => intf[b.mod] = Missing
      BY <1>2, PresentIsFresh DEF Sound, Inv
    <2>2. QED
      BY <1>1, <1>2, <1>3, <1>4, <2>1 DEF Good, Served
  <1>6. QED
    BY <1>1, <1>4, <1>5, LocklessStep DEF b

(* Goto from one place of a use to another.                                *)
LEMMA GotoS ==
  ASSUME Sound, NEW s \in Sessions, stack[s] # <<>>, NEW where, Goto(s, where), Quiet,
         Me(s).pc \notin {"lock", "opened", "finish"}, where \notin {"lock", "opened", "finish", "error"}
  PROVE  SInv'
  <1> DEFINE b == Me(s)  c == [b EXCEPT !.pc = where, !.again = FALSE]
  <1>1. Become(s, c)
    BY DEF Goto
  <1>2. b \in CompilerRec /\ Good(b)
    BY MeGood
  <1> HIDE DEF b
  <1>3. /\ c.pc = where /\ c.mod = b.mod /\ c.ifgen = b.ifgen /\ c.regen = b.regen
        /\ c.deps = b.deps /\ c.holds = b.holds /\ c.again = FALSE
    BY <1>2 DEF CompilerRec
  <1> HIDE DEF c
  <1>4. Good(c) /\ Served(c)
    BY <1>2, <1>3 DEF Good, Served, b
  <1>5. QED
    BY <1>1, <1>3, <1>4, LocklessStep DEF b

LEMMA UseCycleS == ASSUME Sound, NEW s \in Sessions, UseCycle(s) PROVE FALSE
  <1> DEFINE c == Me(s)  st == stack[s]
  <1>1. /\ stack[s] # <<>> /\ c.use <= Len(PublicUses[c.mod]) /\ c.use <= Len(Uses(c))
        /\ IsInModuleUseStack(s)
    BY DEF UseCycle, MoreUses, At, IsPublic
  <1>2. c \in CompilerRec /\ Frame(c) /\ c.mod \in Modules /\ UsedBy(c) \in Mods(s)
    BY <1>1, MeGood, InStack DEF Sound, Inv
  <1>3. PublicUses[c.mod] \in Seq(Modules) /\ PrivateUses[c.mod] \in Seq(Modules)
    BY <1>2, BuildAssumption
  <1>4. c.use \in 1..Len(PublicUses[c.mod])
    BY <1>1, <1>2, <1>3 DEF Frame
  <1>5. UsedBy(c) = PublicUses[c.mod][c.use]
    <2> DEFINE p == PublicUses[c.mod]  q == PrivateUses[c.mod]
    <2>1. p \in Seq(Modules) /\ q \in Seq(Modules) /\ c.use \in 1..Len(p)
      BY <1>3, <1>4
    <2>2. Uses(c) = p \/ Uses(c) = p \o q
      BY DEF Uses
    <2> HIDE DEF p, q
    <2>3. (p \o q)[c.use] = p[c.use]
      BY <2>1
    <2>4. UsedBy(c) = p[c.use]
      BY <2>2, <2>3 DEF UsedBy
    <2>5. QED
      BY <2>4 DEF p
  <1>6. UsedBy(c) \in Range(PublicUses[c.mod])
    BY <1>3, <1>4, <1>5 DEF Range
  <1>7. <<Mods(s), c.mod, c.ifgen>> \in Entered
    <2>1. st \in Seq(CompilerRec) /\ Chain(st) /\ st # <<>>
      BY <1>1, MeFacts DEF Sound, Inv
    <2> HIDE DEF st
    <2>2. Len(st) \in DOMAIN st /\ Last(st) = st[Len(st)]
      BY <2>1, StackFacts
    <2>3. <<Above(st, Len(st)), Last(st).mod, Last(st).ifgen>> \in Entered
      BY <2>1, <2>2, ChainAt
    <2>4. QED
      BY <2>3 DEF Mods, Me, st
  <1> DEFINE e == <<Mods(s), c.mod, c.ifgen>>
  <1>8. e \in Entered /\ e[1] = Mods(s) /\ e[2] = c.mod
    BY <1>7
  <1> HIDE DEF e
  <1>9. Range(PublicUses[e[2]]) \cap e[1] = {}
    BY <1>8 DEF Sound, Undisturbed
  <1>10. QED
    BY <1>2, <1>6, <1>8, <1>9

LEMMA BeginUseS == ASSUME Sound, NEW s \in Sessions, BeginUse(s) PROVE SInv'
  <1>1. stack[s] # <<>> /\ Me(s).pc = "use" /\ Goto(s, "interface") /\ Quiet
    BY DEF BeginUse, MoreUses, At
  <1>2. QED
    BY <1>1, GotoS

(* A compiler calls a child.                                               *)
LEMMA SoundCall ==
  ASSUME Sound, NEW s \in Sessions, stack[s] # <<>>, NEW c \in CompilerRec, NEW ifgen \in BOOLEAN,
         stack' = [stack EXCEPT ![s] = Front(@) \o <<c, Compiler(Used(s), ifgen, TRUE)>>], Quiet,
         Used(s) \in Modules, Good(c), c.holds = Me(s).holds
  PROVE  SInv'
  <1>0. PICK k : k = Compiler(Used(s), ifgen, TRUE)
    OBVIOUS
  <1>1. /\ k \in CompilerRec /\ k.pc = "lock" /\ k.regen /\ k.again = FALSE
        /\ k.deps = <<>> /\ k.holds = <<>>
    BY <1>0, ChildFacts DEF Compiler
  <1>2. stack' = [stack EXCEPT ![s] = Front(@) \o <<c, k>>]
    BY <1>0
  <1>3. IInv /\ SInv /\ stack \in [Sessions -> Seq(CompilerRec)]
    BY DEF Sound, Inv, IInv, Types
  <1>4. Replaces(s, {c, k})
    BY <1>1, <1>2, <1>3, CallReplaces
  <1>5. Good(k) /\ Served(k)
    BY <1>1, NoLocks DEF Good, Served, Zero
  <1>6. Exclusive'
    <2>1. \A d \in {c, k} : d.holds = Me(s).holds \/ DOMAIN d.holds = {}
      BY <1>1, NoLocks
    <2>2. QED
      BY <1>3, <1>4, <2>1, ExclusiveKeeps DEF SInv
  <1>7. UNCHANGED <<src, intf, obj, result>>
    BY DEF Quiet
  <1>8. /\ \A m \in Modules : intf'[m] # Missing => Zero(intf'[m].deps)
        /\ \A t \in Sessions : \A d \in Range(stack'[t]) : Good(d)'
    <2>1. \A d \in {c, k} : Good(d)
      BY <1>5
    <2>2. QED
      BY <1>3, <1>4, <1>7, <2>1, GoodQuiet
  <1>9. Me(s)' = k /\ \A t \in Sessions \ {s} : stack'[t] = stack[t]
    <2> DEFINE f == Front(stack[s])
    <2>1. f \in Seq(CompilerRec)
      BY <1>3, StackFacts
    <2>2. stack'[s] = f \o <<c, k>> /\ \A t \in Sessions \ {s} : stack'[t] = stack[t]
      BY <1>2, <1>3
    <2> HIDE DEF f
    <2>3. f \o <<c, k>> = Append(Append(f, c), k) /\ Append(f, c) \in Seq(CompilerRec)
      BY <1>1, <2>1, TwoMore, AppendFacts
    <2>4. Last(stack'[s]) = k
      BY <2>2, <2>3, LastOfAppend
    <2>5. QED
      BY <2>2, <2>4 DEF Me
  <1>10. ASSUME NEW d, Served(d) PROVE Served(d)'
    BY <1>7, <1>10 DEF Served, ObjectArtifactIsFresh, InterfaceArtifactIsFresh, MetadataMatchesSources
  <1>11. ASSUME NEW t \in Sessions, stack'[t] # <<>> PROVE Served(Me(t))'
    <2>1. CASE t = s
      <3>1. Served(k)'
        BY <1>5, <1>10
      <3>2. QED
        BY <1>9, <2>1, <3>1 DEF Served
    <2>2. CASE t # s
      <3>1. stack'[t] = stack[t] /\ Me(t)' = Me(t)
        BY <1>9, <2>2 DEF Me
      <3>2. Served(Me(t))
        BY <1>3, <1>11, <3>1 DEF SInv
      <3>3. QED
        BY <1>10, <3>1, <3>2 DEF Served
    <2>3. QED
      BY <2>1, <2>2
  <1>12. QED
    BY <1>3, <1>6, <1>7, <1>8, <1>11 DEF SInv

LEMMA CheckInterfaceS ==
  ASSUME Sound, NEW s \in Sessions, NEW where \in {"interface", "reinterface"}, NEW next,
         CheckInterface(s, where, Goto(s, next)), next \in {"object", "read", "compile"}
  PROVE  SInv'
  <1> DEFINE b == Me(s)  c == [b EXCEPT !.again = TRUE]
  <1>1. stack[s] # <<>> /\ b.pc = where /\ Quiet
    BY DEF CheckInterface, At
  <1>2. b \in CompilerRec /\ Good(b) /\ Served(b) /\ Kept(b) /\ Frame(b)
    BY <1>1, MeGood
  <1>3. Used(s) \in Modules /\ Used(s) = UsedBy(b)
    <2>1. b.use <= Len(Uses(b))
      BY <1>1, <1>2 DEF Frame, AtUse
    <2>2. QED
      BY <1>1, <2>1, UsedFacts
  <1>4. CASE InterfaceArtifactIsFresh(Used(s)) /\ Goto(s, next)
    BY <1>1, <1>4, GotoS
  <1>5. CASE ~InterfaceArtifactIsFresh(Used(s)) /\ ~b.again /\ RunChild(s, TRUE)
    <2>1. stack' = [stack EXCEPT ![s] = Front(@) \o <<c, Compiler(Used(s), TRUE, TRUE)>>]
      BY <1>5 DEF RunChild
    <2> HIDE DEF b
    <2>2. c \in CompilerRec
      BY <1>2, Zenon DEF CompilerRec
    <2>3. /\ c.pc = b.pc /\ c.mod = b.mod /\ c.ifgen = b.ifgen /\ c.regen = b.regen
          /\ c.deps = b.deps /\ c.holds = b.holds
      BY <1>2 DEF CompilerRec
    <2> HIDE DEF c
    <2>4. Good(c)
      BY <1>2, <2>3 DEF Good
    <2>5. QED
      BY <1>1, <1>3, <2>1, <2>2, <2>3, <2>4, SoundCall DEF b
  <1>6. CASE ~InterfaceArtifactIsFresh(Used(s)) /\ b.again
    <2>1. intf[Used(s)] # Missing
      BY <1>1, <1>2, <1>3, <1>6 DEF Served, Kept
    <2>2. QED
      BY <1>3, <1>6, <2>1, PresentIsFresh DEF Sound, Inv
  <1>7. QED
    BY <1>4, <1>5, <1>6 DEF CheckInterface

LEMMA EnsureInterfaceS == ASSUME Sound, NEW s \in Sessions, EnsureInterface(s) PROVE SInv'
  <1> DEFINE next == IF NeedsObject(s) THEN "object" ELSE "read"
  <1>1. CheckInterface(s, "interface", Goto(s, next)) /\ next \in {"object", "read", "compile"}
    BY DEF EnsureInterface
  <1> HIDE DEF next
  <1>2. QED
    BY <1>1, CheckInterfaceS

LEMMA EnsureInterfaceAgainS ==
  ASSUME Sound, NEW s \in Sessions, EnsureInterfaceAgain(s) PROVE SInv'
  BY CheckInterfaceS DEF EnsureInterfaceAgain

LEMMA LockObjectS == ASSUME Sound, NEW s \in Sessions, LockObject(s) PROVE SInv'
  <1> DEFINE b == Me(s)  a == Object(Used(s))  h == With(b.holds, a, "SHARED")
             c == [b EXCEPT !.pc = "locked", !.holds = With(@, a, "SHARED")]
  <1>1. stack[s] # <<>> /\ b.pc = "object" /\ Quiet /\ Become(s, c) /\ SharedBlockers(a) = {}
    BY DEF LockObject, At
  <1>2. b \in CompilerRec /\ Good(b) /\ Served(b) /\ b \in Range(stack[s])
    BY <1>1, MeGood, MeInRange DEF Sound, Inv
  <1> HIDE DEF b, a
  <1>3. /\ c.pc = "locked" /\ c.mod = b.mod /\ c.ifgen = b.ifgen /\ c.regen = b.regen
        /\ c.use = b.use /\ c.again = b.again /\ c.deps = b.deps /\ c.holds = h
    BY <1>2 DEF CompilerRec
  <1> HIDE DEF c
  <1>4. Good(c) /\ Served(c)
    BY <1>1, <1>2, <1>3 DEF Good, Served, UsedBy, Uses
  <1>5. Exclusive'
    <2>1. Replaces(s, {c})
      BY <1>1, Becomes DEF Sound, Inv
    <2>2. \A x \in DOMAIN h : \/ x \in DOMAIN b.holds /\ b.holds[x] = h[x]
                              \/ h[x] = "SHARED" /\ SharedBlockers(x) = {}
      BY <1>1 DEF With
    <2> HIDE DEF h
    <2>3. \A d \in {c} : \A x \in DOMAIN d.holds :
             \/ \E e \in Range(stack[s]) : x \in DOMAIN e.holds /\ e.holds[x] = d.holds[x]
             \/ d.holds[x] = "SHARED" /\ SharedBlockers(x) = {}
      BY <1>2, <1>3, <2>2
    <2>4. QED
      BY <2>1, <2>3, ExclusiveMoves DEF Sound, Inv, SInv
  <1>6. QED
    BY <1>1, <1>4, <1>5, SoundStep DEF Sound, Inv

LEMMA CheckObjectS == ASSUME Sound, NEW s \in Sessions, CheckObject(s) PROVE SInv'
  <1> DEFINE b == Me(s)  v == Unlocked(b, Object(Used(s)))
             next == IF ObjectArtifactIsFresh(Used(s)) THEN "read"
                     ELSE IF v.again THEN "error" ELSE "reinterface"
             c == [v EXCEPT !.pc = next, !.again = FALSE]
  <1>1. stack[s] # <<>> /\ b.pc = "locked" /\ Quiet /\ Become(s, c)
    BY DEF CheckObject, At
  <1>2. b \in CompilerRec /\ Good(b) /\ Served(b) /\ Frame(b) /\ b \in Range(stack[s])
    BY <1>1, MeGood, MeInRange DEF Sound, Inv
  <1>3. Used(s) \in Modules /\ Used(s) = UsedBy(b)
    <2>1. b.use <= Len(Uses(b))
      BY <1>1, <1>2 DEF Frame, AtUse
    <2>2. QED
      BY <1>1, <2>1, UsedFacts
  <1>4. v.again = b.again
    BY <1>2 DEF CompilerRec, Unlocked
  <1>5. next \in {"read", "reinterface"}
    BY <1>1, <1>2, <1>3, <1>4 DEF Served
  <1> HIDE DEF b, next
  <1>6. /\ c.pc = next /\ c.mod = b.mod /\ c.ifgen = b.ifgen /\ c.regen = b.regen
        /\ c.again = FALSE /\ c.deps = b.deps
        /\ c.holds = [a \in DOMAIN b.holds \ {Object(Used(s))} |-> b.holds[a]]
    BY <1>2 DEF CompilerRec, Unlocked
  <1> HIDE DEF c
  <1>7. Good(c) /\ Served(c)
    BY <1>1, <1>2, <1>5, <1>6 DEF Good, Served
  <1>8. Exclusive'
    <2>1. Replaces(s, {c})
      BY <1>1, Becomes DEF Sound, Inv
    <2>2. \A a \in DOMAIN c.holds : a \in DOMAIN b.holds /\ b.holds[a] = c.holds[a]
      BY <1>6
    <2>3. \A d \in {c} : \A a \in DOMAIN d.holds :
            \E e \in Range(stack[s]) : a \in DOMAIN e.holds /\ e.holds[a] = d.holds[a]
      BY <1>2, <2>2
    <2>4. QED
      BY <2>1, <2>3, ExclusiveMoves DEF Sound, Inv, SInv
  <1>9. QED
    BY <1>1, <1>7, <1>8, SoundStep DEF Sound, Inv

LEMMA CompileUsedS == ASSUME Sound, NEW s \in Sessions, CompileUsed(s) PROVE SInv'
  <1> DEFINE b == Me(s)  c == [b EXCEPT !.pc = "object", !.again = TRUE]
  <1>1. /\ stack[s] # <<>> /\ b.pc = "compile" /\ Quiet
        /\ stack' = [stack EXCEPT ![s] = Front(@) \o <<c, Compiler(Used(s), FALSE, TRUE)>>]
    BY DEF CompileUsed, At
  <1>2. b \in CompilerRec /\ Good(b) /\ Frame(b)
    BY <1>1, MeGood
  <1>3. Used(s) \in Modules
    <2>1. b.use <= Len(Uses(b))
      BY <1>1, <1>2 DEF Frame, AtUse
    <2>2. QED
      BY <1>1, <2>1, UsedFacts
  <1> HIDE DEF b
  <1>4. c \in CompilerRec
    BY <1>2, Zenon DEF CompilerRec, Places
  <1>5. /\ c.pc = "object" /\ c.mod = b.mod /\ c.ifgen = b.ifgen /\ c.regen = b.regen
        /\ c.deps = b.deps /\ c.holds = b.holds
    BY <1>2 DEF CompilerRec
  <1> HIDE DEF c
  <1>6. Good(c)
    BY <1>1, <1>2, <1>5 DEF Good
  <1>7. QED
    BY <1>1, <1>3, <1>4, <1>5, <1>6, SoundCall DEF b

LEMMA ReadInterfaceS == ASSUME Sound, NEW s \in Sessions, ReadInterface(s) PROVE SInv'
  <1> DEFINE b == Me(s)  u == Used(s)
             c == [b EXCEPT !.pc = "use", !.use = @ + 1, !.deps = FreshnessDeps(b, u),
                     !.from = @ \cup {<<m, intf[u].deps[m]>> : m \in DOMAIN intf[u].deps},
                     !.links = @ \cup {u} \cup intf[u].links]
  <1>1. stack[s] # <<>> /\ b.pc = "read" /\ Quiet /\ Become(s, c)
    BY DEF ReadInterface, At
  <1>2. b \in CompilerRec /\ Good(b) /\ Kept(b) /\ Frame(b)
    BY <1>1, MeGood
  <1>3. u \in Modules /\ u = UsedBy(b)
    <2>1. b.use <= Len(Uses(b))
      BY <1>1, <1>2 DEF Frame, AtUse
    <2>2. QED
      BY <1>1, <2>1, UsedFacts
  <1>4. Zero(intf[u].deps) /\ Zero(b.deps)
    BY <1>1, <1>2, <1>3 DEF Kept, Good, Sound, SInv
  <1>5. Zero(FreshnessDeps(b, u))
    BY <1>4 DEF Zero, FreshnessDeps
  <1> HIDE DEF b, u
  <1>6. /\ c.pc = "use" /\ c.mod = b.mod /\ c.ifgen = b.ifgen /\ c.regen = b.regen
        /\ c.deps = FreshnessDeps(b, u) /\ c.holds = b.holds
    BY <1>2 DEF CompilerRec
  <1> HIDE DEF c
  <1>7. Good(c) /\ Served(c)
    BY <1>1, <1>2, <1>5, <1>6 DEF Good, Served
  <1>8. QED
    BY <1>1, <1>6, <1>7, LocklessStep DEF b

LEMMA CallerFacts ==
  ASSUME IInv, NEW s \in Sessions, stack[s] # <<>>, Front(stack[s]) # <<>>
  PROVE  Calls(Last(Front(stack[s])), Me(s))
  <1> DEFINE st == stack[s]  f == Front(st)
  <1>1. st \in Seq(CompilerRec) /\ Chain(st) /\ st # <<>> /\ f # <<>>
    BY DEF IInv, Types
  <1> HIDE DEF st
  <1>2. /\ Len(st) \in Nat /\ Last(st) = st[Len(st)] /\ f \in Seq(CompilerRec) /\ Len(f) = Len(st) - 1
        /\ \A i \in 1..(Len(st) - 1) : f[i] = st[i]
    BY <1>1, StackFacts
  <1> HIDE DEF f
  <1>3. Last(f) = f[Len(f)] /\ Len(f) \in 1..(Len(st) - 1)
    BY <1>1, <1>2, StackFacts
  <1>4. Len(f) \in DOMAIN st /\ Len(f) < Len(st) /\ Len(f) + 1 = Len(st) /\ Last(f) = st[Len(f)]
    BY <1>1, <1>2, <1>3
  <1>5. Calls(st[Len(f)], st[Len(f) + 1])
    BY <1>1, <1>4, ChainAt
  <1>6. Calls(Last(f), Last(st))
    BY <1>2, <1>4, <1>5
  <1>7. QED
    BY <1>6 DEF Me, f, st

(* A compiler is done, and its caller finds what it was for.               *)
LEMMA ExitSound ==
  ASSUME Sound, NEW s \in Sessions, stack[s] # <<>>, NEW outcome, outcome = "ok", Exit(s, outcome),
         \A m \in Modules : intf'[m] # Missing => Zero(intf'[m].deps),
         \A t \in Sessions : \A c \in Range(stack'[t]) : Good(c)',
         \A t \in Sessions \ {s} : stack[t] # <<>> =>
           /\ Me(t).again /\ Me(t).pc = "interface" => intf'[UsedBy(Me(t))] # Missing
           /\ Me(t).again /\ Me(t).pc \in {"object", "locked"} =>
                \E u \in Modules : u = UsedBy(Me(t)) /\ ObjectArtifactIsFresh(u)',
         NEW m \in Modules, m = Me(s).mod,
         Me(s).regen => IF Me(s).ifgen THEN intf'[m] # Missing ELSE ObjectArtifactIsFresh(m)'
  PROVE  SInv'
  <1>1. IInv /\ SInv /\ stack \in [Sessions -> Seq(CompilerRec)]
    BY DEF Sound, Inv, IInv, Types
  <1>2. stack'[s] = Front(stack[s]) /\ \A t \in Sessions \ {s} : stack'[t] = stack[t]
    BY <1>1 DEF Exit
  <1>3. Exclusive'
    <2>1. Replaces(s, {})
      BY <1>1, ExitReplaces
    <2>2. QED
      BY <1>1, <2>1, ExclusiveKeeps DEF SInv
  <1>4. \A t \in Sessions : result'[t] # "failed"
    BY <1>1 DEF Exit, SInv, IInv, Types
  <1>5. ASSUME NEW t \in Sessions, stack'[t] # <<>> PROVE Served(Me(t))'
    <2>1. PICK p : p = Last(stack'[t])
      OBVIOUS
    <2>2. ASSUME /\ p.again /\ p.pc = "interface" => intf'[UsedBy(p)] # Missing
                 /\ p.again /\ p.pc \in {"object", "locked"} =>
                      \E u \in Modules : u = UsedBy(p) /\ ObjectArtifactIsFresh(u)'
          PROVE  Served(Me(t))'
      <3>1. Me(t)' = p
        BY <2>1 DEF Me
      <3>2. Served(p)'
        <4>1. ASSUME NEW u \in Modules, u = UsedBy(p), ObjectArtifactIsFresh(u)'
              PROVE  ObjectArtifactIsFresh(UsedBy(p))'
          BY <4>1
        <4>2. QED
          BY <2>2, <4>1 DEF Served
      <3>3. QED
        BY <3>1, <3>2 DEF Served
    <2>3. CASE t = s
      <3>1. Calls(p, Me(s))
        BY <1>1, <1>2, <1>5, <2>1, <2>3, CallerFacts
      <3>2. /\ p.pc \in {"interface", "reinterface", "object"} /\ m = UsedBy(p) /\ Me(s).regen
            /\ Me(s).ifgen <=> p.pc # "object"
        BY <3>1 DEF Calls
      <3>3. QED
        BY <2>2, <3>2
    <2>4. CASE t # s
      <3>1. stack[t] # <<>> /\ p = Me(t)
        BY <1>2, <1>5, <2>1, <2>4 DEF Me
      <3>2. QED
        BY <2>2, <2>4, <3>1
    <2>5. QED
      BY <2>3, <2>4
  <1>6. QED
    BY <1>3, <1>4, <1>5 DEF SInv

LEMMA OthersServed ==
  ASSUME Sound, UNCHANGED <<src, intf, obj>>, NEW t \in Sessions, stack[t] # <<>>
  PROVE  /\ Me(t).again /\ Me(t).pc = "interface" => intf'[UsedBy(Me(t))] # Missing
         /\ Me(t).again /\ Me(t).pc \in {"object", "locked"} =>
              \E u \in Modules : u = UsedBy(Me(t)) /\ ObjectArtifactIsFresh(u)'
  <1>1. Me(t) \in CompilerRec /\ Frame(Me(t)) /\ Served(Me(t))
    BY MeGood
  <1>2. PICK c : c = Me(t)
    OBVIOUS
  <1>3. c.again /\ c.pc = "interface" => intf'[UsedBy(c)] # Missing
    BY <1>1, <1>2 DEF Served
  <1>4. ASSUME c.again, c.pc \in {"object", "locked"}
        PROVE  \E u \in Modules : u = UsedBy(c) /\ ObjectArtifactIsFresh(u)'
    <2>1. c.use \in 1..Len(Uses(c)) /\ ObjectArtifactIsFresh(UsedBy(c))
      BY <1>1, <1>2, <1>4 DEF Served, Frame, AtUse
    <2>2. UsedBy(c) \in Modules
      BY <1>1, <1>2, <2>1, UsesFacts DEF UsedBy
    <2>3. PICK u \in Modules : u = UsedBy(c)
      BY <2>2
    <2>4. ObjectArtifactIsFresh(u)'
      BY <2>1, <2>3 DEF ObjectArtifactIsFresh, InterfaceArtifactIsFresh, MetadataMatchesSources
    <2>5. QED
      BY <2>3, <2>4
  <1>5. QED
    BY <1>2, <1>3, <1>4

(* A compiler that exits without writing anything.                         *)
LEMMA QuietExit ==
  ASSUME Sound, NEW s \in Sessions, stack[s] # <<>>, Exit(s, "ok"), UNCHANGED <<src, intf, obj>>,
         Me(s).regen => IF Me(s).ifgen THEN InterfaceArtifactIsFresh(Me(s).mod)
                                       ELSE ObjectArtifactIsFresh(Me(s).mod)
  PROVE  SInv'
  <1>1. IInv /\ SInv
    BY DEF Sound, Inv
  <1>2. Replaces(s, {})
    BY <1>1, ExitReplaces
  <1>3. /\ \A m \in Modules : intf'[m] # Missing => Zero(intf'[m].deps)
        /\ \A t \in Sessions : \A c \in Range(stack'[t]) : Good(c)'
    <2>1. \A c \in {} : Good(c)
      OBVIOUS
    <2>2. QED
      BY <1>1, <1>2, <2>1, GoodQuiet
  <1>4. PICK m \in Modules : m = Me(s).mod
    BY MeGood
  <1>5. Me(s).regen => IF Me(s).ifgen THEN intf'[m] # Missing ELSE ObjectArtifactIsFresh(m)'
    BY <1>4 DEF ObjectArtifactIsFresh, InterfaceArtifactIsFresh, MetadataMatchesSources
  <1>6. QED
    BY <1>3, <1>4, <1>5, OthersServed, ExitSound

LEMMA AlreadyFreshS == ASSUME Sound, NEW s \in Sessions, AlreadyFresh(s) PROVE SInv'
  <1>1. /\ stack[s] # <<>> /\ Exit(s, "ok") /\ UNCHANGED <<src, intf, obj>>
        /\ IF Me(s).ifgen THEN InterfaceArtifactIsFresh(Me(s).mod)
                          ELSE ObjectArtifactIsFresh(Me(s).mod)
    BY DEF AlreadyFresh, At
  <1>2. QED
    BY <1>1, QuietExit

LEMMA FinishS == ASSUME Sound, NEW s \in Sessions, Finish(s) PROVE SInv'
  <1>1. /\ stack[s] # <<>> /\ Exit(s, "ok") /\ UNCHANGED <<src, intf, obj>> /\ Me(s).pc = "finish"
    BY DEF Finish, At
  <1>2. Good(Me(s)) /\ Frame(Me(s))
    BY <1>1, MeGood
  <1>3. QED
    BY <1>1, <1>2, QuietExit DEF Good, Frame

LEMMA FailS == ASSUME Sound, NEW s \in Sessions, Fail(s) PROVE FALSE
  <1>1. stack[s] # <<>> /\ Me(s).pc = "error"
    BY DEF Fail, At
  <1>2. QED
    BY <1>1, MeGood DEF Good

LEMMA InSession ==
  ASSUME IInv, NEW t \in Sessions, NEW d \in Range(stack[t])
  PROVE  d \in CompilerRec /\ Frame(d) /\ d.mod \in Modules
  <1>1. stack[t] \in Seq(CompilerRec) /\ Chain(stack[t])
    BY DEF IInv, Types
  <1>2. PICK i \in DOMAIN stack[t] : d = stack[t][i]
    BY DEF Range
  <1>3. d \in CompilerRec
    BY <1>1, <1>2
  <1>4. Frame(d)
    BY <1>1, <1>2 DEF Chain
  <1>5. QED
    BY <1>3, <1>4 DEF CompilerRec

(* A compiler that has begun is the only one of its artifact that has.     *)
LEMMA OnlyWriter ==
  ASSUME IInv, Exclusive, NEW s \in Sessions, stack[s] # <<>>, Me(s).pc # "lock",
         NEW t \in Sessions, NEW d \in Range(stack[t]), t = s => d \in Rest(s), d.pc # "lock"
  PROVE  Output(d) # Output(Me(s))
  <1>1. CASE t = s
    BY <1>1, RestFacts DEF Over
  <1>2. CASE t # s
    <2>1. Frame(d) /\ Frame(Me(s)) /\ Me(s) \in Range(stack[s])
      BY InSession, MeFacts, MeInRange
    <2>2. /\ Output(d) \in DOMAIN d.holds /\ d.holds[Output(d)] = "EXCLUSIVE"
          /\ Output(Me(s)) \in DOMAIN Me(s).holds
      BY <2>1 DEF Frame
    <2>3. Output(d) = Output(Me(s)) => d.holds[Output(d)] = "SHARED"
      BY <1>2, <2>1, <2>2 DEF Exclusive
    <2>4. QED
      BY <2>2, <2>3
  <1>3. QED
    BY <1>1, <1>2

(* Nobody holds an artifact that can be locked EXCLUSIVE.                  *)
LEMMA NobodyHolds ==
  ASSUME IInv, NEW a, ExclusiveBlockers(a) = {}, NEW t \in Sessions, NEW d \in Range(stack[t])
  PROVE  a \notin DOMAIN d.holds
  <1>1. PICK j \in DOMAIN stack[t] : d = stack[t][j]
    BY DEF Range
  <1>2. d.holds \in Locks
    BY InSession DEF CompilerRec
  <1>3. \A x \in DOMAIN d.holds : d.holds[x] \in {"SHARED", "EXCLUSIVE"}
    BY <1>2 DEF Locks
  <1>4. QED
    BY <1>1, <1>3 DEF ExclusiveBlockers, Holders

(* What is on disk changes for the module a compiler compiles.             *)
OnlyAt(m) ==
  /\ UNCHANGED src
  /\ \A n \in Modules \ {m} : intf'[n] = intf[n] /\ obj'[n] = obj[n]

StaysGood(d, m) ==
  d.mod = m /\ d.regen /\ d.pc \notin {"lock", "opened"} =>
    /\ d.ifgen => intf'[m] = Missing
    /\ ~d.ifgen /\ d.pc # "finish" => ~ObjectArtifactIsFresh(m)'
    /\ d.pc = "finish" => ObjectArtifactIsFresh(m)'

LEMMA FreshElsewhere ==
  ASSUME NEW m, OnlyAt(m), NEW n \in Modules, n # m
  PROVE  ObjectArtifactIsFresh(n)' <=> ObjectArtifactIsFresh(n)
  BY DEF OnlyAt, ObjectArtifactIsFresh, InterfaceArtifactIsFresh, MetadataMatchesSources

LEMMA GoodWritten ==
  ASSUME Sound, NEW s \in Sessions, NEW C, Replaces(s, C), NEW m \in Modules, OnlyAt(m),
         \A c \in C : Good(c)',
         \A t \in Sessions : \A d \in Range(stack[t]) :
           (t = s => d \in Rest(s)) => StaysGood(d, m)
  PROVE  \A t \in Sessions : \A d \in Range(stack'[t]) : Good(d)'
  <1>1. IInv /\ SInv
    BY DEF Sound, Inv
  <1>2. ASSUME NEW t \in Sessions, NEW d \in Range(stack[t]), StaysGood(d, m) PROVE Good(d)'
    <2>1. Good(d) /\ d.mod \in Modules
      BY <1>1, InSession DEF SInv
    <2>2. CASE d.mod = m
      <3>1. PICK n : n = d.mod
        OBVIOUS
      <3>2. n = m
        BY <2>2, <3>1
      <3>3. ObjectArtifactIsFresh(d.mod)' <=> ObjectArtifactIsFresh(m)'
        BY <2>2
      <3>4. QED
        BY <1>2, <2>1, <2>2, <3>3 DEF Good, StaysGood
    <2>3. CASE d.mod # m
      <3>1. /\ intf'[d.mod] = intf[d.mod]
            /\ ObjectArtifactIsFresh(d.mod)' <=> ObjectArtifactIsFresh(d.mod)
        BY <2>1, <2>3, FreshElsewhere DEF OnlyAt
      <3>2. QED
        BY <2>1, <3>1 DEF Good
    <2>4. QED
      BY <2>2, <2>3
  <1>3. ASSUME NEW t \in Sessions, NEW d \in Range(stack'[t]) PROVE Good(d)'
    <2>1. CASE t = s /\ d \in C
      BY <2>1
    <2>2. CASE ~(t = s /\ d \in C)
      <3>1. d \in Range(stack[t]) /\ (t = s => d \in Rest(s))
        BY <1>1, <2>2, RestFacts DEF Replaces
      <3>2. QED
        BY <1>2, <3>1
    <2>3. QED
      BY <2>1, <2>2
  <1>4. QED
    BY <1>3

LEMMA ServedWritten ==
  ASSUME Sound, NEW m \in Modules, OnlyAt(m), intf[m] # Missing => intf'[m] # Missing,
         ~Program(m) /\ ObjectArtifactIsFresh(m) => ObjectArtifactIsFresh(m)',
         NEW t \in Sessions, stack[t] # <<>>
  PROVE  /\ Me(t).again /\ Me(t).pc = "interface" => intf'[UsedBy(Me(t))] # Missing
         /\ Me(t).again /\ Me(t).pc \in {"object", "locked"} =>
              \E u \in Modules : u = UsedBy(Me(t)) /\ ObjectArtifactIsFresh(u)'
  <1>1. Me(t) \in CompilerRec /\ Frame(Me(t)) /\ Served(Me(t))
    BY MeGood
  <1>2. PICK c : c = Me(t)
    OBVIOUS
  <1>3. ASSUME c.pc \in AtUse PROVE UsedBy(c) \in Modules /\ ~Program(UsedBy(c))
    <2>1. c.use <= Len(Uses(c))
      BY <1>1, <1>2, <1>3 DEF Frame
    <2>2. Used(t) = UsedBy(c) /\ Used(t) \in Modules /\ ~Program(Used(t))
      BY <1>2, <2>1, UsedFacts
    <2>3. QED
      BY <2>2
  <1>4. ASSUME c.again, c.pc = "interface" PROVE intf'[UsedBy(c)] # Missing
    <2>1. intf[UsedBy(c)] # Missing /\ UsedBy(c) \in Modules
      BY <1>1, <1>2, <1>3, <1>4 DEF Served, AtUse
    <2>2. QED
      BY <2>1 DEF OnlyAt
  <1>5. ASSUME c.again, c.pc \in {"object", "locked"}
        PROVE  \E u \in Modules : u = UsedBy(c) /\ ObjectArtifactIsFresh(u)'
    <2>1. ObjectArtifactIsFresh(UsedBy(c))
      BY <1>1, <1>2, <1>5 DEF Served
    <2>2. PICK u \in Modules : u = UsedBy(c)
      BY <1>3, <1>5 DEF AtUse
    <2>3. ~Program(u) /\ ObjectArtifactIsFresh(u)
      BY <1>3, <1>5, <2>1, <2>2 DEF AtUse
    <2>4. ObjectArtifactIsFresh(u)'
      <3>1. CASE u = m
        BY <2>3, <3>1
      <3>2. CASE u # m
        BY <2>3, <3>2, FreshElsewhere
      <3>3. QED
        BY <3>1, <3>2
    <2>5. QED
      BY <2>2, <2>4
  <1>6. QED
    BY <1>2, <1>4, <1>5

(* The interface a compiler writes names sources as they are.              *)
LEMMA WrittenIsZero ==
  ASSUME Sound, NEW s \in Sessions, stack[s] # <<>>, NEW stamp \in 0..3,
         intf' = [intf EXCEPT ![Me(s).mod] = NewInterface(Me(s), stamp)]
  PROVE  /\ \A m \in Modules : intf'[m] # Missing => Zero(intf'[m].deps)
         /\ intf'[Me(s).mod] # Missing /\ intf'[Me(s).mod].stamp = stamp
         /\ \A n \in Modules \ {Me(s).mod} : intf'[n] = intf[n]
  <1>1. Me(s) \in CompilerRec /\ Zero(Me(s).deps) /\ Me(s).mod \in Modules
    BY MeGood DEF Good
  <1>2. PICK b : b = Me(s)
    OBVIOUS
  <1>3. PICK n : n = NewInterface(b, stamp)
    OBVIOUS
  <1>4. n # Missing /\ n.stamp = stamp /\ Zero(n.deps)
    <2>1. /\ NewInterface(b, stamp) # Missing
          /\ NewInterface(b, stamp).deps = b.deps /\ NewInterface(b, stamp).stamp = stamp
      BY <1>1, <1>2, NewInterfaceFacts
    <2>2. QED
      BY <1>1, <1>2, <1>3, <2>1
  <1>5. intf' = [intf EXCEPT ![b.mod] = n] /\ intf \in [Modules -> InterfaceRec \cup {Missing}]
    BY <1>2, <1>3 DEF Sound, Inv, IInv, Types
  <1>6. /\ intf'[b.mod] = n /\ \A k \in Modules \ {b.mod} : intf'[k] = intf[k]
    BY <1>1, <1>2, <1>5
  <1>7. QED
    BY <1>2, <1>4, <1>6 DEF Sound, SInv

LEMMA PublishInterfaceS == ASSUME Sound, NEW s \in Sessions, PublishInterface(s) PROVE SInv'
  <1> DEFINE b == Me(s)
  <1>1. /\ stack[s] # <<>> /\ b.pc = "use" /\ b.ifgen /\ Exit(s, "ok") /\ UNCHANGED <<src, obj>>
        /\ intf' = [intf EXCEPT ![b.mod] = NewInterface(b, 0)]
    BY DEF PublishInterface, Parsed, At
  <1>2. b.mod \in Modules /\ Good(b) /\ IInv /\ SInv
    BY <1>1, MeGood DEF Sound, Inv
  <1>3. PICK m \in Modules : m = b.mod
    BY <1>2
  <1>4. /\ \A n \in Modules : intf'[n] # Missing => Zero(intf'[n].deps)
        /\ intf'[m] # Missing /\ intf'[m].stamp = 0
        /\ \A n \in Modules \ {m} : intf'[n] = intf[n]
    <2>1. 0 \in 0..3
      OBVIOUS
    <2>2. /\ \A n \in Modules : intf'[n] # Missing => Zero(intf'[n].deps)
          /\ intf'[Me(s).mod] # Missing /\ intf'[Me(s).mod].stamp = 0
          /\ \A n \in Modules \ {Me(s).mod} : intf'[n] = intf[n]
      <3>1. intf' = [intf EXCEPT ![Me(s).mod] = NewInterface(Me(s), 0)] /\ stack[s] # <<>>
        BY <1>1
      <3>2. QED
        BY <2>1, <3>1, WrittenIsZero
    <2>3. QED
      BY <1>3, <2>2
  <1>5. OnlyAt(m)
    BY <1>1, <1>4 DEF OnlyAt
  <1>6. ~ObjectArtifactIsFresh(m)'
    <2>1. obj'[m] # Missing => obj'[m].stamp \in 1..3
      BY <1>1, <1>2 DEF IInv, Types, ObjectRec
    <2>2. obj'[m] # Missing => intf'[m].stamp # obj'[m].stamp
      BY <1>4, <2>1
    <2>3. QED
      BY <2>2 DEF ObjectArtifactIsFresh
  <1>7. Output(b) = Interface(m)
    BY <1>1, <1>3 DEF Output
  <1>8. ASSUME NEW t \in Sessions, NEW d \in Range(stack[t]), t = s => d \in Rest(s)
        PROVE  StaysGood(d, m)
    <2>1. Frame(d)
      BY <1>2, InSession
    <2>2. d.pc # "lock" => Output(d) # Interface(m)
      BY <1>1, <1>2, <1>7, <1>8, OnlyWriter DEF SInv
    <2>3. d.mod = m /\ d.pc = "finish" => FALSE
      <3> SUFFICES ASSUME d.mod = m, d.pc = "finish" PROVE FALSE
        OBVIOUS
      <3>1. CASE t = s
        BY <1>2, <1>8, <3>1, RestFacts
      <3>2. CASE t # s
        <4>1. Interface(m) \in DOMAIN d.holds /\ d.holds[Interface(m)] = "EXCLUSIVE"
          BY <2>1 DEF Frame
        <4>2. b \in Range(stack[s]) /\ Interface(m) \in DOMAIN b.holds
          <5>1. Frame(b) /\ b \in Range(stack[s])
            BY <1>1, <1>2, MeGood, MeInRange
          <5>2. QED
            BY <1>1, <1>7, <5>1 DEF Frame
        <4>3. QED
          BY <1>2, <3>2, <4>1, <4>2 DEF SInv, Exclusive
      <3>3. QED
        BY <3>1, <3>2
    <2>4. QED
      BY <1>6, <2>2, <2>3 DEF StaysGood, Output
  <1>9. \A t \in Sessions : \A d \in Range(stack'[t]) : Good(d)'
    <2>1. Replaces(s, {})
      BY <1>1, <1>2, ExitReplaces
    <2>2. \A c \in {} : Good(c)'
      OBVIOUS
    <2>3. QED
      BY <1>5, <1>8, <2>1, <2>2, GoodWritten
  <1>10. ~Program(m) /\ ObjectArtifactIsFresh(m) => ObjectArtifactIsFresh(m)'
    <2>1. ~Program(m) => intf[m] = Missing
      BY <1>1, <1>2, <1>3 DEF Good
    <2>2. QED
      BY <2>1 DEF ObjectArtifactIsFresh, InterfaceArtifactIsFresh
  <1>11. QED
    BY <1>1, <1>3, <1>4, <1>5, <1>9, <1>10, ServedWritten, ExitSound

(* A compiler that stays, and writes for its module.                       *)
LEMMA SoundWrite ==
  ASSUME Sound, NEW s \in Sessions, stack[s] # <<>>, NEW c, Become(s, c), UNCHANGED result,
         NEW m \in Modules, OnlyAt(m), c.again = FALSE \/ c.pc \notin AtUse, Exclusive',
         Good(c)', intf[m] # Missing => intf'[m] # Missing,
         ~Program(m) /\ ObjectArtifactIsFresh(m) => ObjectArtifactIsFresh(m)',
         \A n \in Modules : intf'[n] # Missing => Zero(intf'[n].deps),
         \A t \in Sessions : \A d \in Range(stack[t]) :
           (t = s => d \in Rest(s)) => StaysGood(d, m)
  PROVE  SInv'
  <1>1. /\ Replaces(s, {c}) /\ stack'[s] # <<>> /\ Me(s)' = c
        /\ \A t \in Sessions \ {s} : stack'[t] = stack[t]
    BY Becomes DEF Sound, Inv
  <1>2. \A t \in Sessions : \A d \in Range(stack'[t]) : Good(d)'
    <2>1. \A d \in {c} : Good(d)'
      OBVIOUS
    <2>2. QED
      BY <1>1, <2>1, GoodWritten
  <1>3. ASSUME NEW t \in Sessions, stack'[t] # <<>> PROVE Served(Me(t))'
    <2>1. CASE t = s
      <3>1. Served(c)'
        BY DEF Served, AtUse
      <3>2. QED
        BY <1>1, <2>1, <3>1 DEF Served
    <2>2. CASE t # s
      <3>1. stack'[t] = stack[t] /\ Me(t)' = Me(t) /\ stack[t] # <<>>
        BY <1>1, <1>3, <2>2 DEF Me
      <3>2. PICK p : p = Me(t)
        OBVIOUS
      <3>3. /\ p.again /\ p.pc = "interface" => intf'[UsedBy(p)] # Missing
            /\ p.again /\ p.pc \in {"object", "locked"} =>
                 \E u \in Modules : u = UsedBy(p) /\ ObjectArtifactIsFresh(u)'
        BY <3>1, <3>2, ServedWritten
      <3>4. Served(p)'
        <4>1. ASSUME NEW u \in Modules, u = UsedBy(p), ObjectArtifactIsFresh(u)'
              PROVE  ObjectArtifactIsFresh(UsedBy(p))'
          BY <4>1
        <4>2. QED
          BY <3>3, <4>1 DEF Served
      <3>5. QED
        BY <3>1, <3>2, <3>4 DEF Served
    <2>3. QED
      BY <2>1, <2>2
  <1>4. QED
    BY <1>2, <1>3 DEF SInv, Sound

LEMMA EmitObjectS == ASSUME Sound, NEW s \in Sessions, EmitObject(s) PROVE SInv'
  <1> DEFINE b == Me(s)  c == [b EXCEPT !.pc = "publish", !.again = FALSE]
  <1>1. /\ stack[s] # <<>> /\ b.pc = "use" /\ ~b.ifgen /\ Become(s, c) /\ UNCHANGED <<src, intf, result>>
        /\ obj' = [obj EXCEPT ![b.mod] = [from |-> b.from, stamp |-> NewStamp(b.mod)]]
    BY DEF EmitObject, Parsed, At, Goto
  <1>2. b \in CompilerRec /\ b.mod \in Modules /\ Good(b) /\ IInv /\ SInv
    BY <1>1, MeGood DEF Sound, Inv
  <1>3. PICK m \in Modules : m = b.mod
    BY <1>2
  <1>4. OnlyAt(m) /\ obj'[m].stamp = NewStamp(m)
    BY <1>1, <1>2, <1>3 DEF OnlyAt, IInv, Types
  <1>5. ~ObjectArtifactIsFresh(m)'
    <2>1. intf[m] # Missing => intf[m].stamp # NewStamp(m)
      BY <1>2, NewStampFacts
    <2>2. intf'[m] # Missing => intf'[m].stamp # obj'[m].stamp
      BY <1>1, <1>4, <2>1
    <2>3. QED
      BY <2>2 DEF ObjectArtifactIsFresh, InterfaceArtifactIsFresh
  <1>6. Output(b) = Object(m)
    BY <1>1, <1>3 DEF Output
  <1>7. ASSUME NEW t \in Sessions, NEW d \in Range(stack[t]), t = s => d \in Rest(s)
        PROVE  StaysGood(d, m)
    <2>1. Frame(d) /\ Good(d)
      BY <1>2, <1>7, InSession DEF SInv
    <2>2. d.pc # "lock" => Output(d) # Object(m)
      BY <1>1, <1>2, <1>6, <1>7, OnlyWriter DEF SInv
    <2>3. d.mod = m /\ d.pc # "lock" => d.ifgen
      BY <2>2 DEF Output
    <2>4. d.ifgen => d.pc # "finish"
      BY <2>1 DEF Frame
    <2>5. d.mod = m /\ d.regen /\ d.pc \notin {"lock", "opened"} /\ d.ifgen => intf'[m] = Missing
      BY <1>1, <2>1 DEF Good
    <2>6. QED
      BY <2>3, <2>4, <2>5 DEF StaysGood
  <1> HIDE DEF b
  <1>8. /\ c.pc = "publish" /\ c.mod = b.mod /\ c.ifgen = b.ifgen /\ c.regen = b.regen
        /\ c.again = FALSE /\ c.deps = b.deps /\ c.holds = b.holds
    BY <1>2 DEF CompilerRec
  <1>k. PICK k : k = c
    OBVIOUS
  <1> HIDE DEF c
  <1>9. Good(k)'
    <2>1. ~ObjectArtifactIsFresh(k.mod)'
      <3>1. PICK n : n = k.mod
        OBVIOUS
      <3>2. n = m
        BY <1>3, <1>8, <1>k, <3>1
      <3>3. QED
        BY <1>5, <3>1, <3>2
    <2>2. QED
      BY <1>1, <1>2, <1>8, <1>k, <2>1 DEF Good
  <1>10. Exclusive'
    <2>1. Replaces(s, {c})
      BY <1>1, <1>2, Becomes
    <2>2. \A d \in {c} : d.holds = Me(s).holds \/ DOMAIN d.holds = {}
      BY <1>8 DEF b
    <2>3. QED
      BY <1>1, <1>2, <2>1, <2>2, ExclusiveKeeps DEF SInv
  <1>11. ~Program(m) /\ ObjectArtifactIsFresh(m) => ObjectArtifactIsFresh(m)'
    BY <1>1, <1>2, <1>3 DEF Good
  <1>12. \A n \in Modules : intf'[n] # Missing => Zero(intf'[n].deps)
    BY <1>1, <1>2 DEF SInv
  <1>13. stack[s] # <<>> /\ Become(s, k) /\ k.again = FALSE /\ UNCHANGED result
    BY <1>1, <1>8, <1>k
  <1>14. intf[m] # Missing => intf'[m] # Missing
    BY <1>1
  <1>15. QED
    BY <1>4, <1>7, <1>9, <1>10, <1>11, <1>12, <1>13, <1>14, SoundWrite

LEMMA WriteInterfaceS == ASSUME Sound, NEW s \in Sessions, WriteInterface(s) PROVE SInv'
  <1> DEFINE b == Me(s)  a == Interface(b.mod)
             c == [b EXCEPT !.pc = "finish", !.holds = With(@, a, "EXCLUSIVE")]
  <1>1. /\ stack[s] # <<>> /\ b.pc = "publish" /\ Become(s, c) /\ UNCHANGED <<src, obj, result>>
        /\ ExclusiveBlockers(a) = {}
        /\ intf' = [intf EXCEPT ![b.mod] = NewInterface(b, obj[b.mod].stamp)]
    BY DEF WriteInterface, At
  <1>2. /\ b \in CompilerRec /\ b.mod \in Modules /\ Good(b) /\ Kept(b) /\ Frame(b)
        /\ b \in Range(stack[s]) /\ IInv /\ SInv
    BY <1>1, MeGood, MeInRange DEF Sound, Inv
  <1>3. PICK m \in Modules : m = b.mod
    BY <1>2
  <1>4. obj[m] # Missing /\ obj[m].stamp \in 0..3 /\ ~b.ifgen
    BY <1>1, <1>2, <1>3 DEF Kept, Frame, IInv, Types, ObjectRec
  <1>5. /\ \A n \in Modules : intf'[n] # Missing => Zero(intf'[n].deps)
        /\ intf'[m] # Missing /\ intf'[m].stamp = obj[m].stamp
        /\ \A n \in Modules \ {m} : intf'[n] = intf[n]
    <2>1. PICK stamp \in 0..3 : stamp = obj[m].stamp
      BY <1>4
    <2>2. /\ \A n \in Modules : intf'[n] # Missing => Zero(intf'[n].deps)
          /\ intf'[Me(s).mod] # Missing /\ intf'[Me(s).mod].stamp = stamp
          /\ \A n \in Modules \ {Me(s).mod} : intf'[n] = intf[n]
      <3>1. intf' = [intf EXCEPT ![Me(s).mod] = NewInterface(Me(s), stamp)] /\ stack[s] # <<>>
        BY <1>1, <1>3, <2>1
      <3>2. QED
        BY <3>1, WrittenIsZero
    <2>3. QED
      BY <1>3, <2>1, <2>2
  <1>6. OnlyAt(m)
    BY <1>1, <1>5 DEF OnlyAt
  <1>7. ObjectArtifactIsFresh(m)'
    <2>1. IInv'
      BY <1>2, WriteInterfaceI DEF Sound, Inv
    <2>2. MetadataMatchesSources(intf[m].deps)'
      <3>1. PICK d : d = intf'[m].deps
        OBVIOUS
      <3>2. Zero(d) /\ d \in Versions
        BY <1>5, <2>1, <3>1 DEF IInv, Types, InterfaceRec
      <3>3. PICK M \in SUBSET Modules : d \in [M -> Nat]
        BY <3>2 DEF Versions
      <3>4. \A n \in Modules : src'[n] = 0
        BY <1>1, <1>2, SourcesAreZero DEF Sound
      <3>5. MetadataMatchesSources(d)'
        BY <3>2, <3>3, <3>4 DEF Zero, MetadataMatchesSources
      <3>6. QED
        BY <3>1, <3>5 DEF MetadataMatchesSources
    <2>3. QED
      BY <1>1, <1>4, <1>5, <2>2 DEF ObjectArtifactIsFresh, InterfaceArtifactIsFresh
  <1>8. Output(b) = Object(m) /\ a = Interface(m)
    BY <1>3, <1>4 DEF Output
  <1>9. ASSUME NEW t \in Sessions, NEW d \in Range(stack[t]), t = s => d \in Rest(s)
        PROVE  StaysGood(d, m)
    <2>1. Frame(d) /\ d \in CompilerRec
      BY <1>2, InSession
    <2>2. d.pc # "lock" => Output(d) # Object(m)
      BY <1>1, <1>2, <1>8, <1>9, OnlyWriter DEF SInv
    <2>3. d.pc # "lock" => Output(d) # Interface(m)
      <3>1. Interface(m) \notin DOMAIN d.holds
        BY <1>1, <1>2, <1>8, NobodyHolds
      <3>2. QED
        BY <2>1, <3>1 DEF Frame
    <2>4. QED
      BY <2>2, <2>3 DEF StaysGood, Output
  <1> HIDE DEF b
  <1>10. /\ c.pc = "finish" /\ c.mod = b.mod /\ c.ifgen = b.ifgen /\ c.regen = b.regen
         /\ c.deps = b.deps /\ c.holds = With(b.holds, a, "EXCLUSIVE")
    BY <1>2 DEF CompilerRec
  <1>11. PICK k : k = c
    OBVIOUS
  <1> HIDE DEF c, a
  <1>12. Good(k)'
    <2>1. ObjectArtifactIsFresh(k.mod)'
      <3>1. PICK n : n = k.mod
        OBVIOUS
      <3>2. n = m
        BY <1>3, <1>10, <1>11, <3>1
      <3>3. QED
        BY <1>7, <3>1, <3>2
    <2>2. QED
      BY <1>1, <1>2, <1>4, <1>10, <1>11, <2>1 DEF Good
  <1>13. Exclusive'
    <2>1. Replaces(s, {k})
      BY <1>1, <1>2, <1>11, Becomes
    <2>2. \A x \in DOMAIN k.holds : \/ x \in DOMAIN b.holds /\ b.holds[x] = k.holds[x]
                                    \/ ExclusiveBlockers(x) = {}
      BY <1>1, <1>10, <1>11 DEF With
    <2>3. \A d \in {k} : \A x \in DOMAIN d.holds :
             \/ \E e \in Range(stack[s]) : x \in DOMAIN e.holds /\ e.holds[x] = d.holds[x]
             \/ ExclusiveBlockers(x) = {}
      BY <1>2, <2>2
    <2>4. QED
      BY <1>2, <2>1, <2>3, ExclusiveMoves DEF SInv
  <1>14. ~Program(m) /\ ObjectArtifactIsFresh(m) => ObjectArtifactIsFresh(m)'
    BY <1>7
  <1>15. stack[s] # <<>> /\ Become(s, k) /\ k.pc \notin AtUse /\ UNCHANGED result
    BY <1>1, <1>10, <1>11 DEF AtUse
  <1>16. intf[m] # Missing => intf'[m] # Missing
    BY <1>5
  <1>17. QED
    BY <1>5, <1>6, <1>9, <1>12, <1>13, <1>14, <1>15, <1>16, SoundWrite

-----------------------------------------------------------------------------
LEMMA StartS == ASSUME Sound, NEW s \in Sessions, Start(s) PROVE SInv'
  <1>1. IInv /\ SInv /\ stack \in [Sessions -> Seq(CompilerRec)]
    BY DEF Sound, Inv, IInv, Types
  <1>2. PICK e \in Commands[s] : stack' = [stack EXCEPT ![s] = <<Compiler(e.mod, e.ifgen, FALSE)>>]
    BY DEF Start
  <1>3. PICK k : k = Compiler(e.mod, e.ifgen, FALSE)
    OBVIOUS
  <1>4. /\ k.pc = "lock" /\ ~k.regen /\ k.again = FALSE /\ k.mod = e.mod
        /\ k.deps = <<>> /\ k.holds = <<>>
    BY <1>3 DEF Compiler
  <1>5. Program(k.mod)
    BY <1>4 DEF Sound, Undisturbed
  <1>6. Good(k) /\ Served(k)
    BY <1>4, <1>5, NoLocks DEF Good, Served, Zero
  <1>7. stack'[s] = <<k>> /\ \A t \in Sessions \ {s} : stack'[t] = stack[t]
    BY <1>1, <1>2, <1>3
  <1>8. Last(<<k>>) = k /\ Range(<<k>>) = {k}
    BY DEF Last, Range
  <1>9. Replaces(s, {k})
    BY <1>7, <1>8 DEF Replaces
  <1>10. UNCHANGED <<src, intf, obj>> /\ result' = [result EXCEPT ![s] = "none"]
    BY DEF Start
  <1>11. Exclusive'
    <2>1. \A d \in {k} : DOMAIN d.holds = {}
      BY <1>4, NoLocks
    <2>2. QED
      BY <1>1, <1>9, <2>1, ExclusiveMoves DEF SInv
  <1>12. /\ \A m \in Modules : intf'[m] # Missing => Zero(intf'[m].deps)
         /\ \A t \in Sessions : \A d \in Range(stack'[t]) : Good(d)'
    <2>1. \A d \in {k} : Good(d)
      BY <1>6
    <2>2. QED
      BY <1>1, <1>9, <1>10, <2>1, GoodQuiet
  <1>13. ASSUME NEW d, Served(d) PROVE Served(d)'
    BY <1>10, <1>13 DEF Served, ObjectArtifactIsFresh, InterfaceArtifactIsFresh, MetadataMatchesSources
  <1>14. ASSUME NEW t \in Sessions, stack'[t] # <<>> PROVE Served(Me(t))'
    <2>1. CASE t = s
      <3>1. Served(k)' /\ Me(s)' = k
        BY <1>6, <1>7, <1>8, <1>13 DEF Me
      <3>2. QED
        BY <2>1, <3>1 DEF Served
    <2>2. CASE t # s
      <3>1. stack'[t] = stack[t] /\ Me(t)' = Me(t)
        BY <1>7, <2>2 DEF Me
      <3>2. Served(Me(t))
        BY <1>1, <1>14, <3>1 DEF SInv
      <3>3. QED
        BY <1>13, <3>1, <3>2 DEF Served
    <2>3. QED
      BY <2>1, <2>2
  <1>15. \A t \in Sessions : result'[t] # "failed"
    BY <1>1, <1>10 DEF SInv, IInv, Types
  <1>16. QED
    BY <1>11, <1>12, <1>14, <1>15 DEF SInv

LEMMA DieS == ASSUME Sound, NEW s \in Sessions, Die(s) PROVE SInv'
  <1>1. IInv /\ SInv /\ stack \in [Sessions -> Seq(CompilerRec)]
    BY DEF Sound, Inv, IInv, Types
  <1>2. /\ stack[s] # <<>> /\ UNCHANGED <<src, intf, obj, result>>
        /\ stack'[s] = <<>> /\ \A t \in Sessions \ {s} : stack'[t] = stack[t]
    BY <1>1 DEF Die
  <1>3. Replaces(s, {})
    <2>1. Range(<<>>) = {}
      BY NoLocks DEF Range
    <2>2. QED
      BY <1>2, <2>1 DEF Replaces
  <1>4. Exclusive'
    BY <1>1, <1>2, <1>3, ExclusiveKeeps DEF SInv
  <1>5. /\ \A m \in Modules : intf'[m] # Missing => Zero(intf'[m].deps)
        /\ \A t \in Sessions : \A d \in Range(stack'[t]) : Good(d)'
    <2>1. \A d \in {} : Good(d)
      OBVIOUS
    <2>2. QED
      BY <1>1, <1>2, <1>3, <2>1, GoodQuiet
  <1>6. ASSUME NEW d, Served(d) PROVE Served(d)'
    BY <1>2, <1>6 DEF Served, ObjectArtifactIsFresh, InterfaceArtifactIsFresh, MetadataMatchesSources
  <1>7. ASSUME NEW t \in Sessions, stack'[t] # <<>> PROVE Served(Me(t))'
    <2>1. stack'[t] = stack[t] /\ Me(t)' = Me(t)
      BY <1>2, <1>7 DEF Me
    <2>2. Served(Me(t))
      BY <1>1, <1>7, <2>1 DEF SInv
    <2>3. QED
      BY <1>6, <2>1, <2>2 DEF Served
  <1>8. QED
    BY <1>1, <1>2, <1>4, <1>5, <1>7 DEF SInv

LEMMA InitS == Init => SInv
  <1> SUFFICES ASSUME Init PROVE SInv
    OBVIOUS
  <1>1. \A s \in Sessions : stack[s] = <<>> /\ result[s] = "none"
    BY DEF Init
  <1>2. \A m \in Modules : intf[m] = Missing
    BY DEF Init
  <1>3. \A s \in Sessions : Range(stack[s]) = {}
    BY <1>1, NoLocks DEF Range
  <1>4. QED
    BY <1>1, <1>2, <1>3 DEF SInv, Exclusive

LEMMA StepS == ASSUME Sound, [Next]_vars PROVE SInv'
  <1>1. ASSUME NEW s \in Sessions, Run(s) PROVE SInv'
    BY <1>1, LockOutputS, AlreadyFreshS, LoadSourceS, UseCycleS, BeginUseS, EnsureInterfaceS,
       LockObjectS, CheckObjectS, EnsureInterfaceAgainS, CompileUsedS, ReadInterfaceS,
       PublishInterfaceS, EmitObjectS, WriteInterfaceS, FinishS, FailS DEF Run
  <1>2. ASSUME NEW m \in Modules, Edit(m) PROVE FALSE
    <2>1. src[m] = 0 /\ MaxEdits = 0
      BY SourcesAreZero DEF Sound, Inv, Undisturbed
    <2>2. QED
      BY <1>2, <2>1 DEF Edit
  <1>3. CASE UNCHANGED vars
    BY <1>3 DEF Sound, SInv, Exclusive, Good, Served, Zero, Me, Last, ObjectArtifactIsFresh,
                InterfaceArtifactIsFresh, MetadataMatchesSources, vars
  <1>4. QED
    BY <1>1, <1>2, <1>3, StartS, DieS DEF Next, Finished

(* Builds that nobody disturbs - no source is edited, no module uses       *)
(* publicly what is being compiled above it, the modules named in the      *)
(* commands are used by nobody - never fail, whatever the number of        *)
(* compilers, the order in which they run and the compilers killed on the  *)
(* way: a child that reports success leaves its caller an artifact that is *)
(* fresh, and no other compiler of the tree makes it stale again before it *)
(* is read (module_intf.cpp, EnsureFreshCompiledArtifact).                 *)
THEOREM UndisturbedBuildsSucceed ==
  ASSUME Undisturbed PROVE Spec => []BuildsAreSound
  <1>1. Init /\ Inv => SInv
    BY InitS
  <1>2. Inv /\ SInv /\ [Next]_vars => SInv'
    BY StepS DEF Sound
  <1>3. Inv /\ SInv => BuildsAreSound
    BY InvTyped DEF SInv, BuildsAreSound, EveryBuildSucceeds
  <1>4. QED
    BY <1>1, <1>2, <1>3, InvCorrect, PTL DEF Spec
-----------------------------------------------------------------------------
(* One session at a time, and no module uses another in its                *)
(* implementation section.                                                 *)
OneAtATime ==
  /\ \A s, t \in Sessions : s = t
  /\ \A m \in Modules : PrivateUses[m] = <<>>

(* The modules that m uses, those that they use, and so on.                *)
HoldsUses(S, m) ==
  Range(PublicUses[m]) \subseteq S /\ \A u \in S : Range(PublicUses[u]) \subseteq S

Reached(m) == {u \in Modules : \A S \in SUBSET Modules : HoldsUses(S, m) => u \in S}
WithAll(m) == {m} \cup Reached(m)

(* Versions d of some sources are no newer than e; what is compiled from   *)
(* the sources in from is no older than d.                                 *)
NotNewer(d, e)  == \A m \in DOMAIN d \cap DOMAIN e : d[m] <= e[m]
Covers(d, from) == \A v \in from : v[1] \in DOMAIN d /\ d[v[1]] <= v[2]
Covered(d, M)   == \A m \in M : obj[m] # Missing /\ Covers(d, obj[m].from)

Matches(m) == obj[m] # Missing /\ intf[m] # Missing /\ intf[m].stamp = obj[m].stamp

(* On disk: an interface knows the sources of all it was made from, of a   *)
(* program without circles; and an object that goes with it, and those it  *)
(* is linked with, are compiled from sources no older.                     *)
OnDisk(m) ==
  /\ intf[m] # Missing =>
       /\ m \notin Reached(m) /\ DOMAIN intf[m].deps = WithAll(m)
       /\ intf[m].links \subseteq Reached(m)
       /\ NotNewer(intf[m].deps, src)
  /\ Matches(m) => Covered(intf[m].deps, {m} \cup intf[m].links)

(* What a compiler has collected from the uses behind it.                  *)
Collected(c) ==
  /\ DOMAIN c.deps \subseteq WithAll(c.mod) /\ c.links \subseteq Reached(c.mod)
  /\ \A k \in 1..(c.use - 1) :
       intf[Uses(c)[k]] # Missing /\ WithAll(Uses(c)[k]) \subseteq DOMAIN c.deps
  /\ \A u \in c.links : WithAll(u) \subseteq DOMAIN c.deps
  /\ Covers(c.deps, c.from) /\ NotNewer(c.deps, src)
  /\ ~c.ifgen => Covered(c.deps, c.links)
  /\ c.pc \in {"lock", "opened"} => c.use = 1 /\ c.links = {}
  /\ c.pc \in {"publish", "finish"} =>
       c.use > Len(Uses(c)) /\ obj[c.mod] # Missing /\ obj[c.mod].from = c.from

(* The versions d, in the hands of a compiler of m that the compilers in K *)
(* wait for, are no older than the sources were when the session started,  *)
(* than what those have collected and than every interface that reaches m. *)
Recent(K, m, begun, d) ==
  /\ NotNewer(begun, d)
  /\ \A b \in K : NotNewer(b.deps, d)
  /\ \A u \in Modules : intf[u] # Missing /\ m \in Reached(u) => NotNewer(intf[u].deps, d)

(* The interface of a use, once it was found fresh, stays recent.          *)
Found(K, c, begun) ==
  LET u == UsedBy(c) IN
  /\ intf[u] # Missing
  /\ Recent(K, c.mod, begun, intf[u].deps) /\ NotNewer(c.deps, intf[u].deps)
  /\ c.pc = "read" /\ ~c.ifgen => Matches(u)

Layer(K, c, begun) ==
  /\ Collected(c) /\ Recent(K, c.mod, begun, c.deps)
  /\ \A b \in K : c.mod \in Reached(b.mod)
  /\ c.pc \in AtUse \ {"interface"} => Found(K, c, begun)

Callers(st, i) == {st[j] : j \in 1..(i - 1)}

Layered(st, begun) ==
  /\ NotNewer(begun, src)
  /\ \A i \in DOMAIN st : Layer(Callers(st, i), st[i], begun)

LInv ==
  /\ \A m \in Modules : OnDisk(m)
  /\ \A s \in Sessions : Layered(stack[s], started[s])

-----------------------------------------------------------------------------
(* What modules reach.                                                     *)
LEMMA ReachesUses ==
  ASSUME NEW m \in Modules, NEW u \in Range(PublicUses[m]), u \in Modules
  PROVE  u \in Reached(m)
  BY DEF Reached, HoldsUses

LEMMA ReachedTransitive ==
  ASSUME NEW m \in Modules, NEW u \in Reached(m), NEW w \in Reached(u)
  PROVE  w \in Reached(m)
  <1>1. u \in Modules /\ w \in Modules
    BY DEF Reached
  <1>2. ASSUME NEW S \in SUBSET Modules, HoldsUses(S, m) PROVE w \in S
    <2>1. u \in S
      BY <1>2 DEF Reached
    <2>2. HoldsUses(S, u)
      BY <1>2, <2>1 DEF HoldsUses
    <2>3. QED
      BY <2>2 DEF Reached
  <1>3. QED
    BY <1>1, <1>2 DEF Reached

LEMMA ReachedLeast ==
  ASSUME NEW m \in Modules, NEW S \in SUBSET Modules, HoldsUses(S, m)
  PROVE  Reached(m) \subseteq S
  BY DEF Reached

LEMMA ReachedModules == ASSUME NEW m \in Modules PROVE WithAll(m) \subseteq Modules
  BY DEF WithAll, Reached

LEMMA WithAllReached ==
  ASSUME NEW m \in Modules, NEW u \in Reached(m)
  PROVE  u \in Modules /\ WithAll(u) \subseteq Reached(m)
  BY ReachedTransitive DEF WithAll, Reached

(* Versions of sources.                                                    *)
LEMMA VersionsFacts ==
  ASSUME NEW d \in Versions
  PROVE  DOMAIN d \subseteq Modules /\ \A m \in DOMAIN d : d[m] \in Nat
  BY DEF Versions

LEMMA NotNewerTransitive ==
  ASSUME NEW d \in Versions, NEW e \in Versions, NEW f \in Versions,
         NotNewer(d, e), NotNewer(e, f), DOMAIN d \cap DOMAIN f \subseteq DOMAIN e
  PROVE  NotNewer(d, f)
  <1>1. ASSUME NEW m \in DOMAIN d \cap DOMAIN f PROVE d[m] <= f[m]
    <2>1. d[m] \in Nat /\ e[m] \in Nat /\ f[m] \in Nat /\ d[m] <= e[m] /\ e[m] <= f[m]
      BY VersionsFacts DEF NotNewer
    <2>2. QED
      BY <2>1
  <1>2. QED
    BY <1>1 DEF NotNewer

LEMMA CoversOlder ==
  ASSUME NEW d \in Versions, NEW e \in Versions, NEW from \in SUBSET (Modules \X Nat),
         Covers(e, from), NotNewer(d, e),
         \A v \in from : v[1] \in DOMAIN d
  PROVE  Covers(d, from)
  <1>1. ASSUME NEW v \in from PROVE d[v[1]] <= v[2]
    <2>1. /\ v[1] \in DOMAIN d /\ v[1] \in DOMAIN e /\ e[v[1]] <= v[2] /\ d[v[1]] <= e[v[1]]
          /\ v[2] \in Nat
      BY DEF Covers, NotNewer
    <2>2. d[v[1]] \in Nat /\ e[v[1]] \in Nat
      BY <2>1, VersionsFacts
    <2>3. QED
      BY <2>1, <2>2
  <1>2. QED
    BY <1>1 DEF Covers

(* The callers of the compilers of a stack.                                *)
LEMMA FrontCallers ==
  ASSUME NEW st \in Seq(CompilerRec), st # <<>>
  PROVE  /\ DOMAIN Front(st) = 1..(Len(st) - 1) /\ DOMAIN st = 1..Len(st)
         /\ \A i \in DOMAIN Front(st) :
              i \in DOMAIN st /\ Front(st)[i] = st[i] /\ Callers(Front(st), i) = Callers(st, i)
         /\ Callers(st, Len(st)) = Range(Front(st))
  <1>1. /\ Len(st) \in Nat /\ Len(st) \in DOMAIN st /\ Front(st) \in Seq(CompilerRec)
        /\ Len(Front(st)) = Len(st) - 1 /\ \A i \in 1..(Len(st) - 1) : Front(st)[i] = st[i]
    BY StackFacts
  <1>2. PICK f \in Seq(CompilerRec) : f = Front(st)
    BY <1>1
  <1>3. DOMAIN f = 1..(Len(st) - 1) /\ DOMAIN st = 1..Len(st)
    BY <1>1, <1>2
  <1>4. ASSUME NEW i \in DOMAIN f
        PROVE  i \in DOMAIN st /\ f[i] = st[i] /\ Callers(f, i) = Callers(st, i)
    <2>1. i \in 1..(Len(st) - 1) /\ i \in DOMAIN st /\ f[i] = st[i]
      BY <1>1, <1>2, <1>3
    <2>2. \A j \in 1..(i - 1) : f[j] = st[j]
      BY <1>1, <1>2, <2>1
    <2>3. QED
      BY <2>1, <2>2 DEF Callers
  <1>5. Callers(st, Len(st)) = Range(f)
    BY <1>1, <1>2, <1>3 DEF Callers, Range
  <1>6. QED
    BY <1>2, <1>3, <1>4, <1>5

LEMMA AppendCallers ==
  ASSUME NEW f \in Seq(CompilerRec), NEW c \in CompilerRec
  PROVE  /\ DOMAIN Append(f, c) = DOMAIN f \cup {Len(f) + 1}
         /\ \A i \in DOMAIN f : Append(f, c)[i] = f[i] /\ Callers(Append(f, c), i) = Callers(f, i)
         /\ Append(f, c)[Len(f) + 1] = c /\ Callers(Append(f, c), Len(f) + 1) = Range(f)
  <1>1. PICK st : st = Append(f, c)
    OBVIOUS
  <1>2. /\ st \in Seq(CompilerRec) /\ st # <<>> /\ Len(st) = Len(f) + 1 /\ Len(f) \in Nat
        /\ st[Len(f) + 1] = c /\ Front(st) = f /\ \A i \in 1..Len(f) : st[i] = f[i]
    BY <1>1, AppendFacts
  <1>3. DOMAIN f = 1..Len(f) /\ DOMAIN st = 1..(Len(f) + 1)
    BY <1>2
  <1>4. Len(st) - 1 = Len(f) /\ 1..(Len(f) + 1) = 1..Len(f) \cup {Len(f) + 1}
    BY <1>2
  <1>5. /\ \A i \in DOMAIN f : Callers(st, i) = Callers(f, i)
        /\ Callers(st, Len(f) + 1) = Range(f)
    BY <1>2, <1>4, FrontCallers
  <1>6. QED
    BY <1>1, <1>2, <1>3, <1>4, <1>5

-----------------------------------------------------------------------------
(* What each step may assume.                                              *)
Links0 == OneAtATime /\ Inv /\ LInv

LEMMA PublicFacts ==
  ASSUME OneAtATime, NEW c \in CompilerRec
  PROVE  /\ Uses(c) = PublicUses[c.mod] /\ Uses(c) \in Seq(Modules) /\ Len(Uses(c)) \in Nat
         /\ \A k \in 1..Len(Uses(c)) : Uses(c)[k] \in Modules /\ Uses(c)[k] \in Reached(c.mod)
         /\ Range(PublicUses[c.mod]) = {Uses(c)[k] : k \in 1..Len(Uses(c))}
         /\ c.use <= Len(Uses(c)) => IsPublic(c)
  <1>1. c.mod \in Modules /\ PublicUses[c.mod] \in Seq(Modules) /\ PrivateUses[c.mod] = <<>>
    BY BuildAssumption DEF CompilerRec, OneAtATime
  <1>2. PICK p : p = PublicUses[c.mod]
    OBVIOUS
  <1>3. p \o <<>> = p
    <2>1. p \in Seq(Modules)
      BY <1>1, <1>2
    <2>2. QED
      BY <2>1
  <1>4. Uses(c) = p
    BY <1>1, <1>2, <1>3 DEF Uses
  <1>5. Range(p) = {p[k] : k \in 1..Len(p)} /\ Len(p) \in Nat /\ \A k \in 1..Len(p) : p[k] \in Modules
    BY <1>1, <1>2 DEF Range
  <1>6. \A k \in 1..Len(p) : p[k] \in Reached(c.mod)
    BY <1>1, <1>2, <1>5, ReachesUses
  <1>7. c.use <= Len(Uses(c)) => IsPublic(c)
    BY <1>2, <1>4 DEF IsPublic
  <1>8. QED
    BY <1>1, <1>2, <1>4, <1>5, <1>6, <1>7

(* The compilers of a session.                                             *)
LEMMA TopFacts ==
  ASSUME Links0, NEW s \in Sessions, stack[s] # <<>>
  PROVE  /\ Me(s) \in CompilerRec /\ Frame(Me(s)) /\ Kept(Me(s))
         /\ Me(s).mod \in Modules /\ Me(s).deps \in Versions /\ started[s] \in Versions
         /\ DOMAIN started[s] = Modules
         /\ src \in Versions /\ DOMAIN src = Modules
         /\ NotNewer(started[s], src) /\ Layer(Rest(s), Me(s), started[s])
         /\ Front(stack[s]) \in Seq(CompilerRec) /\ Layered(Front(stack[s]), started[s])
         /\ Rest(s) = Range(Front(stack[s]))
         /\ \A d \in Rest(s) : d \in CompilerRec /\ Collected(d)
  <1>1. PICK st : st = stack[s]
    OBVIOUS
  <1>2. PICK begun : begun = started[s]
    OBVIOUS
  <1>3. st \in Seq(CompilerRec) /\ st # <<>> /\ begun \in [Modules -> Nat] /\ src \in [Modules -> Nat]
    BY <1>1, <1>2, BuildAssumption DEF Links0, Inv, IInv, Types
  <1>4. Layered(st, begun)
    BY <1>1, <1>2 DEF Links0, LInv
  <1>5. /\ Len(st) \in DOMAIN st /\ Last(st) = st[Len(st)] /\ Front(st) \in Seq(CompilerRec)
        /\ Last(st) \in CompilerRec
    BY <1>3, StackFacts
  <1>6. Layer(Range(Front(st)), Last(st), begun) /\ NotNewer(begun, src)
    BY <1>3, <1>4, <1>5, FrontCallers DEF Layered
  <1>7. Layered(Front(st), begun)
    BY <1>3, <1>4, FrontCallers DEF Layered
  <1>8. \A d \in Range(Front(st)) : d \in CompilerRec /\ Collected(d)
    BY <1>5, <1>7 DEF Layered, Layer, Range
  <1>9. Me(s) \in CompilerRec /\ Frame(Me(s)) /\ Kept(Me(s)) /\ Me(s).mod \in Modules
    BY <1>1, <1>3, MeFacts, MeInRange DEF Links0, Inv, KInv
  <1>10. Me(s).deps \in Versions /\ begun \in Versions /\ src \in Versions
    BY <1>3, <1>9 DEF CompilerRec, Versions
  <1>11. QED
    BY <1>1, <1>2, <1>3, <1>5, <1>6, <1>7, <1>8, <1>9, <1>10 DEF Me, Rest

(* A compiler that has read all its uses is in no circle.                  *)
LEMMA NoCircleRead ==
  ASSUME Links0, NEW c \in CompilerRec, Frame(c), Collected(c), c.use > Len(Uses(c)),
         c.mod \in DOMAIN c.deps
  PROVE  c.mod \notin Reached(c.mod) /\ DOMAIN c.deps = WithAll(c.mod)
  <1>1. /\ c.mod \in Modules /\ Len(Uses(c)) \in Nat
        /\ \A k \in 1..Len(Uses(c)) : Uses(c)[k] \in Modules /\ Uses(c)[k] \in Reached(c.mod)
        /\ Range(PublicUses[c.mod]) = {Uses(c)[k] : k \in 1..Len(Uses(c))}
    BY PublicFacts DEF Links0, CompilerRec
  <1>2. \A k \in 1..Len(Uses(c)) : k \in 1..(c.use - 1)
    BY <1>1 DEF Frame
  <1> DEFINE S == UNION {WithAll(Uses(c)[k]) : k \in 1..Len(Uses(c))}
  <1>3. S \in SUBSET Modules
    BY <1>1, ReachedModules
  <1>4. HoldsUses(S, c.mod)
    <2>1. Range(PublicUses[c.mod]) \subseteq S
      BY <1>1 DEF WithAll
    <2>2. ASSUME NEW u \in S, NEW w \in Range(PublicUses[u]) PROVE w \in S
      <3>1. PICK k \in 1..Len(Uses(c)) : u \in WithAll(Uses(c)[k])
        OBVIOUS
      <3>2. u \in Modules /\ PublicUses[u] \in Seq(Modules)
        BY <1>3, BuildAssumption
      <3>3. w \in Modules
        BY <3>2 DEF Range
      <3>4. w \in Reached(u)
        BY <3>2, <3>3, ReachesUses
      <3>5. w \in Reached(Uses(c)[k])
        BY <1>1, <3>1, <3>4, ReachedTransitive DEF WithAll
      <3>6. QED
        BY <3>5 DEF WithAll
    <2>3. QED
      BY <2>1, <2>2 DEF HoldsUses
  <1>5. Reached(c.mod) \subseteq S
    BY <1>1, <1>3, <1>4, ReachedLeast
  <1>6. S \subseteq DOMAIN c.deps
    BY <1>2 DEF Collected
  <1>7. DOMAIN c.deps = WithAll(c.mod)
    BY <1>5, <1>6 DEF Collected, WithAll
  <1>8. ASSUME c.mod \in Reached(c.mod) PROVE FALSE
    <2>1. PICK k \in 1..Len(Uses(c)) : c.mod \in WithAll(Uses(c)[k])
      BY <1>5, <1>8
    <2>2. intf[Uses(c)[k]] # Missing /\ Uses(c)[k] \in Modules /\ Uses(c)[k] \in Reached(c.mod)
      BY <1>1, <1>2 DEF Collected
    <2>3. Uses(c)[k] \notin Reached(Uses(c)[k])
      BY <2>2 DEF Links0, LInv, OnDisk
    <2>4. QED
      BY <1>1, <2>1, <2>2, <2>3, ReachedTransitive DEF WithAll
  <1>9. QED
    BY <1>7, <1>8

-----------------------------------------------------------------------------
(* What a step has to show.                                                *)
LEMMA OneSession ==
  ASSUME Links0, NEW s \in Sessions, NEW st, NEW begun, stack'[s] = st, started'[s] = begun,
         \A m \in Modules : OnDisk(m)', Layered(st, begun)'
  PROVE  LInv'
  <1>1. \A t \in Sessions : t = s
    BY DEF Links0, OneAtATime
  <1>2. Layered(stack[s], started[s])'
    BY DEF Layered
  <1>3. QED
    BY <1>1, <1>2 DEF LInv

LEMMA DiskStays ==
  ASSUME LInv, UNCHANGED <<src, intf, obj>>
  PROVE  /\ \A m \in Modules : OnDisk(m)'
         /\ \A st, begun : Layered(st, begun) => Layered(st, begun)'
  <1>1. \A d, M : Covered(d, M) => Covered(d, M)'
    BY DEF Covered
  <1>2. \A m : Matches(m)' <=> Matches(m)
    BY DEF Matches
  <1>3. \A m \in Modules : OnDisk(m)'
    BY <1>1, <1>2 DEF LInv, OnDisk
  <1>4. \A c : Collected(c) => Collected(c)'
    BY <1>1 DEF Collected
  <1>5. \A K, m, begun, d : Recent(K, m, begun, d) => Recent(K, m, begun, d)'
    BY DEF Recent
  <1>6. \A K, c, begun : Found(K, c, begun) => Found(K, c, begun)'
    BY <1>2 DEF Found, Recent
  <1>7. \A K, c, begun : Layer(K, c, begun) => Layer(K, c, begun)'
    BY <1>4, <1>5, <1>6 DEF Layer
  <1>8. \A st, begun : Layered(st, begun) => Layered(st, begun)'
    BY <1>7 DEF Layered
  <1>9. QED
    BY <1>3, <1>8

LEMMA LayeredAppend ==
  ASSUME NEW f \in Seq(CompilerRec), NEW c \in CompilerRec, NEW begun,
         Layered(f, begun), Layer(Range(f), c, begun)
  PROVE  Layered(Append(f, c), begun)
  <1>1. PICK st : st = Append(f, c)
    OBVIOUS
  <1>a. /\ DOMAIN st = DOMAIN f \cup {Len(f) + 1}
        /\ \A i \in DOMAIN f : st[i] = f[i] /\ Callers(st, i) = Callers(f, i)
        /\ st[Len(f) + 1] = c /\ Callers(st, Len(f) + 1) = Range(f)
    BY <1>1, AppendCallers
  <1>2. ASSUME NEW i \in DOMAIN st PROVE Layer(Callers(st, i), st[i], begun)
    <2>1. i \in DOMAIN f \/ i = Len(f) + 1
      BY <1>a, <1>2
    <2>2. CASE i \in DOMAIN f
      <3>1. st[i] = f[i] /\ Callers(st, i) = Callers(f, i)
        BY <1>a, <2>2
      <3>2. Layer(Callers(f, i), f[i], begun)
        BY <2>2 DEF Layered
      <3>3. QED
        BY <3>1, <3>2
    <2>3. CASE i = Len(f) + 1
      <3>1. st[i] = c /\ Callers(st, i) = Range(f)
        BY <1>a, <2>3
      <3>2. QED
        BY <3>1
    <2>4. QED
      BY <2>1, <2>2, <2>3
  <1>3. QED
    BY <1>1, <1>2 DEF Layered

LEMMA LayeredAppendNext ==
  ASSUME NEW f \in Seq(CompilerRec), NEW c \in CompilerRec, NEW begun,
         Layered(f, begun)', Layer(Range(f), c, begun)'
  PROVE  Layered(Append(f, c), begun)'
  <1>1. PICK st : st = Append(f, c)
    OBVIOUS
  <1>a. /\ DOMAIN st = DOMAIN f \cup {Len(f) + 1}
        /\ \A i \in DOMAIN f : st[i] = f[i] /\ Callers(st, i) = Callers(f, i)
        /\ st[Len(f) + 1] = c /\ Callers(st, Len(f) + 1) = Range(f)
    BY <1>1, AppendCallers
  <1>2. ASSUME NEW i \in DOMAIN st PROVE Layer(Callers(st, i), st[i], begun)'
    <2>1. i \in DOMAIN f \/ i = Len(f) + 1
      BY <1>a, <1>2
    <2>2. CASE i \in DOMAIN f
      <3>1. st[i] = f[i] /\ Callers(st, i) = Callers(f, i)
        BY <1>a, <2>2
      <3>2. Layer(Callers(f, i), f[i], begun)'
        BY <2>2 DEF Layered
      <3>3. QED
        BY <3>1, <3>2
    <2>3. CASE i = Len(f) + 1
      <3>1. st[i] = c /\ Callers(st, i) = Range(f)
        BY <1>a, <2>3
      <3>2. QED
        BY <3>1
    <2>4. QED
      BY <2>1, <2>2, <2>3
  <1>3. QED
    BY <1>1, <1>2 DEF Layered

(* The last compiler of a session goes on.                                 *)
LEMMA BecomeL ==
  ASSUME Links0, NEW s \in Sessions, stack[s] # <<>>, NEW c \in CompilerRec, Become(s, c), Quiet,
         Layer(Rest(s), c, started[s])
  PROVE  LInv'
  <1>1. PICK f \in Seq(CompilerRec) : f = Front(stack[s]) /\ Rest(s) = Range(f)
    BY TopFacts
  <1>2. PICK begun : begun = started[s]
    OBVIOUS
  <1>3. stack'[s] = Append(f, c) /\ started'[s] = begun /\ UNCHANGED <<src, intf, obj>>
    BY <1>1, <1>2 DEF Become, Quiet, Links0, Inv, IInv, Types
  <1>4. Layered(f, begun) /\ Layer(Range(f), c, begun)
    BY <1>1, <1>2, TopFacts
  <1>5. Layered(Append(f, c), begun)
    BY <1>4, LayeredAppend
  <1>6. Layered(Append(f, c), begun)' /\ \A m \in Modules : OnDisk(m)'
    BY <1>3, <1>5, DiskStays DEF Links0
  <1>7. QED
    BY <1>3, <1>6, OneSession

(* A child that begins.                                                    *)
LEMMA ChildLayer ==
  ASSUME NEW m \in Modules, NEW ifgen \in BOOLEAN, NEW regen \in BOOLEAN, NEW K, NEW begun,
         \A b \in K : m \in Reached(b.mod)
  PROVE  Layer(K, Compiler(m, ifgen, regen), begun)
  <1>1. PICK c : c = Compiler(m, ifgen, regen)
    OBVIOUS
  <1>2. /\ c.mod = m /\ c.pc = "lock" /\ c.use = 1 /\ c.deps = <<>> /\ c.from = {} /\ c.links = {}
    BY <1>1 DEF Compiler
  <1>3. Collected(c)
    BY <1>2, NoLocks DEF Collected, Covers, Covered, NotNewer
  <1>4. Recent(K, m, begun, c.deps)
    BY <1>2, NoLocks DEF Recent, NotNewer
  <1>5. QED
    BY <1>1, <1>2, <1>3, <1>4 DEF Layer, AtUse

LEMMA CallL ==
  ASSUME Links0, NEW s \in Sessions, stack[s] # <<>>, NEW c \in CompilerRec, NEW ifgen \in BOOLEAN,
         stack' = [stack EXCEPT ![s] = Front(@) \o <<c, Compiler(Used(s), ifgen, TRUE)>>], Quiet,
         Layer(Rest(s), c, started[s]), c.mod = Me(s).mod, Me(s).use <= Len(Uses(Me(s)))
  PROVE  LInv'
  <1>1. PICK f \in Seq(CompilerRec) : f = Front(stack[s]) /\ Rest(s) = Range(f)
    BY TopFacts
  <1>2. PICK begun : begun = started[s]
    OBVIOUS
  <1>3. PICK u : u = Used(s)
    OBVIOUS
  <1>4. u \in Modules /\ u \in Reached(c.mod)
    <2>1. Me(s) \in CompilerRec /\ Me(s).use \in 1..Len(Uses(Me(s)))
      BY TopFacts DEF Frame
    <2>2. QED
      BY <1>3, <2>1, PublicFacts DEF Links0, Used
  <1>5. PICK k \in CompilerRec : k = Compiler(u, ifgen, TRUE)
    BY <1>4, ChildFacts
  <1>6. stack'[s] = Append(Append(f, c), k) /\ started'[s] = begun /\ UNCHANGED <<src, intf, obj>>
    <2>1. stack'[s] = f \o <<c, k>>
      BY <1>1, <1>3, <1>5 DEF Links0, Inv, IInv, Types
    <2>2. QED
      BY <1>2, <2>1, TwoMore DEF Quiet
  <1>7. Layered(f, begun) /\ Layer(Range(f), c, begun)
    BY <1>1, <1>2, TopFacts
  <1>8. Layered(Append(f, c), begun) /\ Append(f, c) \in Seq(CompilerRec)
        /\ Range(Append(f, c)) = Range(f) \cup {c}
    BY <1>7, LayeredAppend, AppendFacts, RangeOfAppend
  <1>9. \A b \in Range(f) \cup {c} : u \in Reached(b.mod)
    <2>1. ASSUME NEW b \in Range(f) PROVE u \in Reached(b.mod)
      <3>1. c.mod \in Reached(b.mod) /\ b.mod \in Modules
        BY <1>1, <1>7, TopFacts DEF Layer, CompilerRec
      <3>2. QED
        BY <1>4, <3>1, ReachedTransitive
    <2>2. QED
      BY <1>4, <2>1
  <1>10. Layer(Range(Append(f, c)), k, begun)
    BY <1>4, <1>5, <1>8, <1>9, ChildLayer
  <1>11. Layered(Append(Append(f, c), k), begun)
    BY <1>8, <1>10, LayeredAppend
  <1>12. Layered(Append(Append(f, c), k), begun)' /\ \A m \in Modules : OnDisk(m)'
    BY <1>6, <1>11, DiskStays DEF Links0
  <1>13. QED
    BY <1>6, <1>12, OneSession

(* A compiler exits.                                                       *)
LEMMA ExitL ==
  ASSUME Links0, NEW s \in Sessions, stack[s] # <<>>, NEW outcome, Exit(s, outcome),
         UNCHANGED started, \A m \in Modules : OnDisk(m)',
         NEW f \in Seq(CompilerRec), f = Front(stack[s]), NEW begun, begun = started[s],
         Layered(f, begun)'
  PROVE  LInv'
  <1>1. stack'[s] = IF f = <<>> \/ outcome = "ok" THEN f
                    ELSE Append(Front(f), [Last(f) EXCEPT !.pc = "error"])
    BY DEF Exit, Links0, Inv, IInv, Types
  <1>2. CASE f = <<>> \/ outcome = "ok"
    BY <1>1, <1>2, OneSession
  <1>3. CASE f # <<>> /\ outcome # "ok"
    <2>1. PICK b \in CompilerRec : b = Last(f)
      BY <1>3, StackFacts
    <2>2. PICK g \in Seq(CompilerRec) : g = Front(f)
      BY <1>3, StackFacts
    <2> DEFINE c == [b EXCEPT !.pc = "error"]
    <2>3. c \in CompilerRec
      BY <2>1, Zenon DEF CompilerRec, Places
    <2>4. /\ c.pc = "error" /\ c.mod = b.mod /\ c.ifgen = b.ifgen /\ c.use = b.use /\ c.deps = b.deps
          /\ c.from = b.from /\ c.links = b.links
      BY <2>1 DEF CompilerRec
    <2> HIDE DEF c
    <2>5. Layered(g, begun)' /\ Layer(Range(g), b, begun)'
      BY <1>3, <2>1, <2>2, FrontCallers, StackFacts DEF Layered
    <2>6. Layer(Range(g), c, begun)'
      <3>1. Collected(c)'
        BY <2>4, <2>5 DEF Layer, Collected, Uses
      <3>2. QED
        BY <2>4, <2>5, <3>1 DEF Layer, AtUse
    <2>7. Layered(Append(g, c), begun)'
      BY <2>3, <2>5, <2>6, LayeredAppendNext
    <2>8. stack'[s] = Append(g, c)
      BY <1>1, <1>3, <2>1, <2>2 DEF c
    <2>9. QED
      BY <2>7, <2>8, OneSession
  <1>4. QED
    BY <1>2, <1>3

LEMMA QuietExitL ==
  ASSUME Links0, NEW s \in Sessions, stack[s] # <<>>, NEW outcome, Exit(s, outcome),
         UNCHANGED <<src, intf, obj, started>>
  PROVE  LInv'
  <1>1. PICK f \in Seq(CompilerRec) : f = Front(stack[s])
    BY TopFacts
  <1>2. PICK begun : begun = started[s]
    OBVIOUS
  <1>3. Layered(f, begun)
    BY <1>1, <1>2, TopFacts
  <1>4. Layered(f, begun)' /\ \A m \in Modules : OnDisk(m)'
    BY <1>3, DiskStays DEF Links0
  <1>5. QED
    BY <1>1, <1>2, <1>4, ExitL

-----------------------------------------------------------------------------
(* A compiler that goes on with what it has collected.                     *)
SameData(b, c) ==
  /\ c.mod = b.mod /\ c.ifgen = b.ifgen /\ c.use = b.use /\ c.deps = b.deps /\ c.from = b.from
  /\ c.links = b.links
  /\ c.pc \in {"lock", "opened"} => b.pc \in {"lock", "opened"}
  /\ c.pc \in {"publish", "finish"} => b.pc \in {"publish", "finish"}

LEMMA LayerSameData ==
  ASSUME NEW K, NEW b, NEW c, NEW begun, Layer(K, b, begun), SameData(b, c),
         c.pc \in AtUse \ {"interface"} => Found(K, c, begun)
  PROVE  Layer(K, c, begun)
  <1>1. Collected(c)
    BY DEF Layer, Collected, SameData, Uses
  <1>2. QED
    BY <1>1 DEF Layer, SameData

(* Found again, at another place of the same use.                          *)
LEMMA FoundSameData ==
  ASSUME NEW K, NEW b, NEW c, NEW begun, Found(K, b, begun), SameData(b, c), c.pc # "read"
  PROVE  Found(K, c, begun)
  BY DEF Found, SameData, UsedBy, Uses

LEMMA LockOutputL == ASSUME Links0, NEW s \in Sessions, LockOutput(s) PROVE LInv'
  <1>1. PICK b : b = Me(s)
    OBVIOUS
  <1> DEFINE h == With(<<>>, Output(b), "EXCLUSIVE")
             c == [b EXCEPT !.pc = "opened", !.holds = h]
  <1>2. stack[s] # <<>> /\ b.pc = "lock" /\ Become(s, c) /\ Quiet
    BY <1>1 DEF LockOutput, At
  <1>3. b \in CompilerRec /\ Layer(Rest(s), b, started[s])
    BY <1>1, <1>2, TopFacts
  <1>4. h \in Locks
    BY <1>3, NoLocks, OutputIsArtifact, WithFacts
  <1> HIDE DEF h
  <1>5. c \in CompilerRec
    BY <1>3, <1>4, Zenon DEF CompilerRec, Places
  <1>6. SameData(b, c) /\ c.pc = "opened"
    BY <1>2, <1>3 DEF SameData, CompilerRec
  <1> HIDE DEF c
  <1>7. Layer(Rest(s), c, started[s])
    BY <1>3, <1>6, LayerSameData DEF AtUse
  <1>8. QED
    BY <1>2, <1>5, <1>7, BecomeL

LEMMA AlreadyFreshL == ASSUME Links0, NEW s \in Sessions, AlreadyFresh(s) PROVE LInv'
  BY QuietExitL DEF AlreadyFresh, At

LEMMA FinishL == ASSUME Links0, NEW s \in Sessions, Finish(s) PROVE LInv'
  BY QuietExitL DEF Finish, At

LEMMA FailL == ASSUME Links0, NEW s \in Sessions, Fail(s) PROVE LInv'
  BY QuietExitL DEF Fail, At

(* The version of a source read now is recent.                             *)
LEMMA SourcesRecent ==
  ASSUME Links0, NEW s \in Sessions, stack[s] # <<>>, NEW m \in Modules, NEW d \in Versions,
         \A x \in DOMAIN d : d[x] = src[x]
  PROVE  Recent(Rest(s), m, started[s], d)
  <1>1. ASSUME NEW e, NotNewer(e, src) PROVE NotNewer(e, d)
    <2>1. DOMAIN d \subseteq DOMAIN src
      BY TopFacts, VersionsFacts
    <2>2. QED
      BY <1>1, <2>1 DEF NotNewer
  <1>2. NotNewer(started[s], src) /\ \A b \in Rest(s) : NotNewer(b.deps, src)
    BY TopFacts DEF Collected
  <1>3. \A u \in Modules : intf[u] # Missing => NotNewer(intf[u].deps, src)
    BY DEF Links0, LInv, OnDisk
  <1>4. QED
    BY <1>1, <1>2, <1>3 DEF Recent

LEMMA LoadSourceL == ASSUME Links0, NEW s \in Sessions, LoadSource(s) PROVE LInv'
  <1>1. PICK b : b = Me(s)
    OBVIOUS
  <1> DEFINE d == [m \in {b.mod} |-> src[m]]
             from == {<<b.mod, src[b.mod]>>}
             c == [b EXCEPT !.pc = "use", !.deps = d, !.from = from]
  <1>2. stack[s] # <<>> /\ b.pc = "opened" /\ Become(s, c) /\ Quiet
    BY <1>1 DEF LoadSource, At
  <1>3. /\ b \in CompilerRec /\ Layer(Rest(s), b, started[s]) /\ b.mod \in Modules
        /\ src \in Versions /\ DOMAIN src = Modules
    BY <1>1, <1>2, TopFacts
  <1>4. src[b.mod] \in Nat
    BY <1>3, VersionsFacts
  <1>5. d \in Versions /\ DOMAIN d = {b.mod} /\ d[b.mod] = src[b.mod]
    <2>1. d \in [{b.mod} -> Nat] /\ DOMAIN d = {b.mod} /\ d[b.mod] = src[b.mod]
      BY <1>4
    <2>2. {b.mod} \in SUBSET Modules
      BY <1>3
    <2> HIDE DEF d
    <2>3. QED
      BY <2>1, <2>2 DEF Versions
  <1>6. from \in SUBSET (Modules \X Nat) /\ Covers(d, from)
    BY <1>3, <1>4, <1>5 DEF Covers
  <1> HIDE DEF d, from
  <1>7. c \in CompilerRec
    BY <1>3, <1>5, <1>6, Zenon DEF CompilerRec, Places
  <1>8. /\ c.pc = "use" /\ c.mod = b.mod /\ c.ifgen = b.ifgen /\ c.use = b.use /\ c.links = b.links
        /\ c.deps = d /\ c.from = from
    BY <1>3 DEF CompilerRec
  <1> HIDE DEF c
  <1>9. Collected(c)
    <2>1. c.use = 1 /\ c.links = {}
      BY <1>2, <1>3, <1>8 DEF Layer, Collected
    <2>2. NotNewer(d, src)
      BY <1>4, <1>5 DEF NotNewer
    <2>3. QED
      BY <1>5, <1>6, <1>8, <2>1, <2>2 DEF Collected, WithAll, Covered
  <1>10. Recent(Rest(s), c.mod, started[s], c.deps)
    BY <1>2, <1>3, <1>5, <1>8, SourcesRecent
  <1>11. Layer(Rest(s), c, started[s])
    BY <1>3, <1>8, <1>9, <1>10 DEF Layer, AtUse
  <1>12. QED
    BY <1>2, <1>7, <1>11, BecomeL

(* Goto.                                                                   *)
LEMMA GotoL ==
  ASSUME Links0, NEW s \in Sessions, stack[s] # <<>>, NEW where \in Places, Goto(s, where), Quiet,
         where \notin {"lock", "opened", "publish", "finish"},
         NEW b, b = Me(s),
         where \in AtUse \ {"interface"} =>
           Found(Rest(s), [b EXCEPT !.pc = where, !.again = FALSE], started[s])
  PROVE  LInv'
  <1> DEFINE c == [b EXCEPT !.pc = where, !.again = FALSE]
  <1>1. Become(s, c)
    BY DEF Goto
  <1>2. b \in CompilerRec /\ Layer(Rest(s), b, started[s])
    BY TopFacts
  <1>3. c \in CompilerRec
    BY <1>2, Zenon DEF CompilerRec
  <1>4. SameData(b, c) /\ c.pc = where
    BY <1>2 DEF SameData, CompilerRec
  <1>5. c.pc \in AtUse \ {"interface"} => Found(Rest(s), c, started[s])
    BY <1>4
  <1> HIDE DEF c
  <1>6. Layer(Rest(s), c, started[s])
    BY <1>2, <1>4, <1>5, LayerSameData
  <1>7. QED
    BY <1>1, <1>3, <1>6, BecomeL

LEMMA UseCycleL == ASSUME Links0, NEW s \in Sessions, UseCycle(s) PROVE LInv'
  <1>1. stack[s] # <<>> /\ Goto(s, "error") /\ Quiet
    BY DEF UseCycle, MoreUses, At
  <1>2. "error" \in Places /\ "error" \notin AtUse
    BY DEF Places, AtUse
  <1>3. QED
    BY <1>1, <1>2, GotoL

LEMMA BeginUseL == ASSUME Links0, NEW s \in Sessions, BeginUse(s) PROVE LInv'
  <1>1. stack[s] # <<>> /\ Goto(s, "interface") /\ Quiet
    BY DEF BeginUse, MoreUses, At
  <1>2. "interface" \in Places
    BY DEF Places
  <1>3. QED
    BY <1>1, <1>2, GotoL

-----------------------------------------------------------------------------
(* The module a compiler uses.                                             *)
LEMMA UsedL ==
  ASSUME Links0, NEW s \in Sessions, stack[s] # <<>>, Me(s).pc \in AtUse
  PROVE  /\ Me(s).use \in 1..Len(Uses(Me(s))) /\ Used(s) = UsedBy(Me(s))
         /\ Used(s) = Uses(Me(s))[Me(s).use]
         /\ Used(s) \in Modules /\ Used(s) \in Reached(Me(s).mod) /\ IsPublic(Me(s))
         /\ WithAll(Used(s)) \subseteq Reached(Me(s).mod)
  <1>1. Me(s) \in CompilerRec /\ Me(s).use \in 1..Len(Uses(Me(s))) /\ Me(s).mod \in Modules
    BY TopFacts DEF Frame
  <1>2. Used(s) \in Modules /\ Used(s) \in Reached(Me(s).mod) /\ IsPublic(Me(s))
    BY <1>1, PublicFacts DEF Links0, Used
  <1>3. WithAll(Used(s)) \subseteq Reached(Me(s).mod)
    BY <1>1, <1>2, WithAllReached
  <1>4. QED
    BY <1>1, <1>2, <1>3 DEF Used, UsedBy

(* A module that has an interface is not compiled above one that uses it.  *)
LEMMA NotInStack ==
  ASSUME Links0, NEW s \in Sessions, stack[s] # <<>>, Me(s).pc \in AtUse, intf[Used(s)] # Missing
  PROVE  ~IsInModuleUseStack(s)
  <1>1. PICK u \in Modules : u = Used(s) /\ u \in Reached(Me(s).mod)
    BY UsedL
  <1>2. u \notin Reached(u)
    BY <1>1 DEF Links0, LInv, OnDisk
  <1>3. PICK st \in Seq(CompilerRec) : st = stack[s] /\ st # <<>>
    BY DEF Links0, Inv, IInv, Types
  <1>4. /\ Len(st) \in Nat /\ Last(st) = st[Len(st)] /\ DOMAIN st = 1..Len(st)
        /\ \A i \in 1..(Len(st) - 1) : Front(st)[i] = st[i]
        /\ DOMAIN Front(st) = 1..(Len(st) - 1)
    BY <1>3, StackFacts, FrontCallers
  <1>5. ASSUME NEW i \in DOMAIN st, st[i].mod = u PROVE FALSE
    <2>1. CASE i = Len(st)
      <3>1. Me(s).mod = u
        BY <1>3, <1>4, <1>5, <2>1 DEF Me
      <3>2. QED
        BY <1>1, <1>2, <3>1
    <2>2. CASE i # Len(st)
      <3>1. i \in DOMAIN Front(st) /\ Front(st)[i] = st[i]
        BY <1>4, <2>2
      <3>2. st[i] \in Rest(s)
        BY <1>3, <3>1 DEF Rest, Range
      <3>3. Me(s).mod \in Reached(u)
        BY <1>5, <3>2, TopFacts DEF Layer
      <3>4. QED
        BY <1>1, <1>2, <3>3, ReachedTransitive
    <2>3. QED
      BY <2>1, <2>2
  <1>6. QED
    BY <1>1, <1>3, <1>5 DEF IsInModuleUseStack

(* An interface that is fresh now is recent.                               *)
LEMMA FreshFound ==
  ASSUME Links0, NEW s \in Sessions, stack[s] # <<>>, NEW b, b = Me(s), b.pc \in AtUse,
         InterfaceArtifactIsFresh(Used(s)), NEW c, SameData(b, c),
         c.pc = "read" => c.ifgen
  PROVE  Found(Rest(s), c, started[s])
  <1>1. PICK u \in Modules : u = Used(s) /\ u = UsedBy(b)
    BY UsedL
  <1>2. u = UsedBy(c) /\ c.mod = b.mod /\ c.deps = b.deps
    BY <1>1 DEF SameData, UsedBy, Uses
  <1>3. intf[u] # Missing /\ \A m \in DOMAIN intf[u].deps : intf[u].deps[m] = src[m]
    BY <1>1 DEF InterfaceArtifactIsFresh, MetadataMatchesSources
  <1>4. PICK d \in Versions : d = intf[u].deps
    BY <1>3 DEF Links0, Inv, IInv, Types, InterfaceRec
  <1>5. Recent(Rest(s), b.mod, started[s], d)
    BY <1>3, <1>4, TopFacts, SourcesRecent
  <1>6. NotNewer(b.deps, d)
    <2>1. NotNewer(b.deps, src) /\ DOMAIN d \subseteq DOMAIN src
      BY <1>4, TopFacts, VersionsFacts DEF Layer, Collected
    <2>2. QED
      BY <1>3, <1>4, <2>1 DEF NotNewer
  <1>7. QED
    BY <1>2, <1>3, <1>4, <1>5, <1>6 DEF Found

LEMMA CheckInterfaceL ==
  ASSUME Links0, NEW s \in Sessions, NEW where \in {"interface", "reinterface"}, NEW next,
         CheckInterface(s, where, Goto(s, next)), next \in {"object", "read", "compile"},
         InterfaceArtifactIsFresh(Used(s)) /\ next = "read" => Me(s).ifgen
  PROVE  LInv'
  <1>1. PICK b : b = Me(s)
    OBVIOUS
  <1>2. stack[s] # <<>> /\ b.pc = where /\ Quiet /\ b.pc \in AtUse
    BY <1>1 DEF CheckInterface, At, AtUse
  <1>3. b \in CompilerRec /\ Layer(Rest(s), b, started[s])
    BY <1>1, <1>2, TopFacts
  <1>4. CASE InterfaceArtifactIsFresh(Used(s)) /\ Goto(s, next)
    <2> DEFINE c == [b EXCEPT !.pc = next, !.again = FALSE]
    <2>1. SameData(b, c) /\ c.pc = next /\ c.ifgen = b.ifgen
      BY <1>3 DEF SameData, CompilerRec
    <2> HIDE DEF c
    <2>2. Found(Rest(s), c, started[s])
      BY <1>1, <1>2, <1>4, <2>1, FreshFound
    <2>3. next \in Places
      BY DEF Places
    <2>4. QED
      BY <1>1, <1>2, <1>4, <2>2, <2>3, GotoL DEF c
  <1>5. CASE RunChild(s, TRUE)
    <2> DEFINE c == [b EXCEPT !.again = TRUE]
    <2>1. stack' = [stack EXCEPT ![s] = Front(@) \o <<c, Compiler(Used(s), TRUE, TRUE)>>]
      BY <1>1, <1>5 DEF RunChild
    <2>2. c \in CompilerRec
      BY <1>3, Zenon DEF CompilerRec
    <2>3. SameData(b, c) /\ c.pc = b.pc /\ c.mod = b.mod
      BY <1>3 DEF SameData, CompilerRec
    <2> HIDE DEF c
    <2>4. c.pc \in AtUse \ {"interface"} => Found(Rest(s), c, started[s])
      BY <1>2, <1>3, <2>3, FoundSameData DEF Layer
    <2>5. Layer(Rest(s), c, started[s])
      BY <1>3, <2>3, <2>4, LayerSameData
    <2>6. Me(s).use <= Len(Uses(Me(s)))
      BY <1>1, <1>2, TopFacts DEF Frame
    <2>7. QED
      BY <1>1, <1>2, <2>1, <2>2, <2>3, <2>5, <2>6, CallL
  <1>6. CASE Goto(s, "error")
    <2>1. "error" \in Places /\ "error" \notin AtUse
      BY DEF Places, AtUse
    <2>2. QED
      BY <1>2, <1>6, <2>1, GotoL
  <1>7. QED
    BY <1>4, <1>5, <1>6 DEF CheckInterface

LEMMA EnsureInterfaceL == ASSUME Links0, NEW s \in Sessions, EnsureInterface(s) PROVE LInv'
  <1>1. PICK next : next = IF NeedsObject(s) THEN "object" ELSE "read"
    OBVIOUS
  <1>2. CheckInterface(s, "interface", Goto(s, next)) /\ next \in {"object", "read", "compile"}
    BY <1>1 DEF EnsureInterface
  <1>3. stack[s] # <<>> /\ Me(s).pc \in AtUse
    BY <1>2 DEF CheckInterface, At, AtUse
  <1>4. InterfaceArtifactIsFresh(Used(s)) /\ next = "read" => Me(s).ifgen
    BY <1>1, <1>3, NotInStack DEF NeedsObject, InterfaceArtifactIsFresh
  <1>5. QED
    BY <1>2, <1>4, CheckInterfaceL

LEMMA EnsureInterfaceAgainL ==
  ASSUME Links0, NEW s \in Sessions, EnsureInterfaceAgain(s) PROVE LInv'
  BY CheckInterfaceL DEF EnsureInterfaceAgain

LEMMA NextTyped ==
  ASSUME IInv, IInv', NEW s \in Sessions, stack[s] # <<>>, NEW c, Become(s, c)
  PROVE  c \in CompilerRec
  <1>1. stack'[s] # <<>> /\ Last(stack'[s]) = c
    BY Becomes DEF Me
  <1>2. stack'[s] \in Seq(CompilerRec)
    BY DEF IInv, Types
  <1>3. QED
    BY <1>1, <1>2, StackFacts

LEMMA LockObjectL == ASSUME Links0, NEW s \in Sessions, LockObject(s) PROVE LInv'
  <1>1. PICK b : b = Me(s)
    OBVIOUS
  <1>2. PICK h : h = With(b.holds, Object(Used(s)), "SHARED")
    OBVIOUS
  <1> DEFINE c == [b EXCEPT !.pc = "locked", !.holds = h]
  <1>3. stack[s] # <<>> /\ b.pc = "object" /\ Quiet
    BY <1>1 DEF LockObject, At
  <1>4. b \in CompilerRec /\ Layer(Rest(s), b, started[s])
    BY <1>1, <1>3, TopFacts
  <1>5. Become(s, c)
    <2>1. [b EXCEPT !.pc = "locked", !.holds = With(@, Object(Used(s)), "SHARED")] = c
      BY <1>2, <1>4 DEF CompilerRec
    <2>2. QED
      BY <1>1, <2>1 DEF LockObject
  <1>6. SameData(b, c) /\ c.pc = "locked"
    BY <1>4 DEF SameData, CompilerRec
  <1>7. c \in CompilerRec
    BY <1>3, <1>5, LockObjectI, NextTyped DEF Links0, Inv
  <1> HIDE DEF c
  <1>8. Found(Rest(s), c, started[s])
    BY <1>3, <1>4, <1>6, FoundSameData DEF Layer, AtUse
  <1>9. Layer(Rest(s), c, started[s])
    BY <1>4, <1>6, <1>8, LayerSameData
  <1>10. QED
    BY <1>3, <1>5, <1>7, <1>9, BecomeL

LEMMA CheckObjectL == ASSUME Links0, NEW s \in Sessions, CheckObject(s) PROVE LInv'
  <1>1. PICK b : b = Me(s)
    OBVIOUS
  <1>2. PICK h : h = [x \in DOMAIN b.holds \ {Object(Used(s))} |-> b.holds[x]]
    OBVIOUS
  <1>3. PICK next : next = IF ObjectArtifactIsFresh(Used(s)) THEN "read"
                           ELSE IF b.again THEN "error" ELSE "reinterface"
    OBVIOUS
  <1> DEFINE c == [b EXCEPT !.pc = next, !.holds = h, !.again = FALSE]
  <1>4. stack[s] # <<>> /\ b.pc = "locked" /\ Quiet
    BY <1>1 DEF CheckObject, At
  <1>5. b \in CompilerRec /\ Layer(Rest(s), b, started[s])
    BY <1>1, <1>4, TopFacts
  <1>6. Become(s, c)
    <2>1. Unlocked(b, Object(Used(s))) = [b EXCEPT !.holds = h]
      BY <1>2, <1>5 DEF CompilerRec, Unlocked
    <2>2. [b EXCEPT !.holds = h].again = b.again
      BY <1>5 DEF CompilerRec
    <2>3. [[b EXCEPT !.holds = h] EXCEPT !.pc = next, !.again = FALSE] = c
      BY <1>5 DEF CompilerRec
    <2>4. QED
      BY <1>1, <1>3, <2>1, <2>2, <2>3 DEF CheckObject
  <1>7. SameData(b, c) /\ c.pc = next
    BY <1>3, <1>5 DEF SameData, CompilerRec
  <1>8. c \in CompilerRec
    BY <1>4, <1>6, CheckObjectI, NextTyped DEF Links0, Inv
  <1> HIDE DEF c
  <1>9. next = "read" => Matches(UsedBy(c))
    <2>1. UsedBy(c) = Used(s)
      BY <1>1, <1>4, <1>7, UsedL DEF SameData, UsedBy, Uses, AtUse
    <2>2. QED
      BY <1>3, <2>1 DEF ObjectArtifactIsFresh, InterfaceArtifactIsFresh, Matches
  <1>10. Found(Rest(s), c, started[s])
    <2>1. Found(Rest(s), b, started[s])
      BY <1>4, <1>5 DEF Layer, AtUse
    <2>2. QED
      BY <1>7, <1>9, <2>1 DEF Found, SameData, UsedBy, Uses
  <1>11. Layer(Rest(s), c, started[s])
    BY <1>5, <1>7, <1>10, LayerSameData
  <1>12. QED
    BY <1>4, <1>6, <1>8, <1>11, BecomeL

LEMMA CompileUsedL == ASSUME Links0, NEW s \in Sessions, CompileUsed(s) PROVE LInv'
  <1>1. PICK b : b = Me(s)
    OBVIOUS
  <1> DEFINE c == [b EXCEPT !.pc = "object", !.again = TRUE]
  <1>2. /\ stack[s] # <<>> /\ b.pc = "compile" /\ Quiet
        /\ stack' = [stack EXCEPT ![s] = Front(@) \o <<c, Compiler(Used(s), FALSE, TRUE)>>]
    BY <1>1 DEF CompileUsed, At
  <1>3. b \in CompilerRec /\ Layer(Rest(s), b, started[s]) /\ b.use <= Len(Uses(b))
    BY <1>1, <1>2, TopFacts DEF Frame, AtUse
  <1>4. c \in CompilerRec
    BY <1>3, Zenon DEF CompilerRec, Places
  <1>5. SameData(b, c) /\ c.pc = "object" /\ c.mod = b.mod
    BY <1>3 DEF SameData, CompilerRec
  <1> HIDE DEF c
  <1>6. Found(Rest(s), c, started[s])
    BY <1>2, <1>3, <1>5, FoundSameData DEF Layer, AtUse
  <1>7. Layer(Rest(s), c, started[s])
    BY <1>3, <1>5, <1>6, LayerSameData
  <1>8. QED
    BY <1>1, <1>2, <1>3, <1>4, <1>5, <1>7, CallL

(* The versions merged from two.                                           *)
Merged(d, e) == [m \in DOMAIN d \cup DOMAIN e |-> IF m \in DOMAIN d THEN d[m] ELSE e[m]]

LEMMA MergedFacts ==
  ASSUME NEW d \in Versions, NEW e \in Versions, NotNewer(d, e)
  PROVE  /\ Merged(d, e) \in Versions /\ DOMAIN Merged(d, e) = DOMAIN d \cup DOMAIN e
         /\ NotNewer(Merged(d, e), d) /\ NotNewer(Merged(d, e), e)
         /\ \A x : NotNewer(x, d) /\ NotNewer(x, e) => NotNewer(x, Merged(d, e))
         /\ \A x : NotNewer(d, x) /\ NotNewer(e, x) => NotNewer(Merged(d, e), x)
  <1>1. Merged(d, e) \in Versions
    BY MergedVersions DEF Merged
  <1>2. PICK w : w = Merged(d, e)
    OBVIOUS
  <1>3. /\ DOMAIN w = DOMAIN d \cup DOMAIN e
        /\ \A m \in DOMAIN w : w[m] = IF m \in DOMAIN d THEN d[m] ELSE e[m]
    BY <1>2 DEF Merged
  <1>4. NotNewer(w, d)
    <2>1. \A m \in DOMAIN d : d[m] <= d[m]
      BY VersionsFacts
    <2>2. QED
      BY <1>3, <2>1 DEF NotNewer
  <1>5. NotNewer(w, e)
    <2>1. \A m \in DOMAIN e : e[m] <= e[m]
      BY VersionsFacts
    <2>2. QED
      BY <1>3, <2>1 DEF NotNewer
  <1>6. \A x : NotNewer(x, d) /\ NotNewer(x, e) => NotNewer(x, w)
    BY <1>3 DEF NotNewer
  <1>7. \A x : NotNewer(d, x) /\ NotNewer(e, x) => NotNewer(w, x)
    BY <1>3 DEF NotNewer
  <1>8. QED
    BY <1>1, <1>2, <1>3, <1>4, <1>5, <1>6, <1>7

(* Objects covered by versions are covered by older ones of more sources.  *)
LEMMA CoveredOlder ==
  ASSUME IInv, NEW d \in Versions, NEW e \in Versions, NEW M \in SUBSET Modules,
         Covered(e, M), NotNewer(d, e), DOMAIN e \subseteq DOMAIN d
  PROVE  Covered(d, M)
  <1>1. ASSUME NEW x \in M PROVE obj[x] # Missing /\ Covers(d, obj[x].from)
    <2>1. obj[x] # Missing /\ Covers(e, obj[x].from)
      BY DEF Covered
    <2>2. obj[x].from \in SUBSET (Modules \X Nat)
      BY <2>1 DEF IInv, Types, ObjectRec
    <2>3. \A v \in obj[x].from : v[1] \in DOMAIN d
      BY <2>1 DEF Covers
    <2>4. QED
      BY <2>1, <2>2, <2>3, CoversOlder
  <1>2. QED
    BY <1>1 DEF Covered

LEMMA ReadInterfaceL == ASSUME Links0, NEW s \in Sessions, ReadInterface(s) PROVE LInv'
  <1>1. PICK b, u : b = Me(s) /\ u = Used(s)
    OBVIOUS
  <1>2. PICK e, l : e = intf[u].deps /\ l = intf[u].links
    OBVIOUS
  <1> DEFINE d == Merged(b.deps, e)
             f == b.from \cup {<<m, e[m]>> : m \in DOMAIN e}
             c == [b EXCEPT !.pc = "use", !.use = b.use + 1, !.deps = d, !.from = f,
                            !.links = b.links \cup {u} \cup l]
  <1>3. stack[s] # <<>> /\ b.pc = "read" /\ Quiet /\ b.pc \in AtUse
    BY <1>1 DEF ReadInterface, At, AtUse
  <1>4. /\ b \in CompilerRec /\ Layer(Rest(s), b, started[s]) /\ b.mod \in Modules
        /\ b.deps \in Versions /\ b.from \in SUBSET (Modules \X Nat) /\ src \in Versions
    BY <1>1, <1>3, TopFacts DEF CompilerRec
  <1>5. /\ b.use \in 1..Len(Uses(b)) /\ u = UsedBy(b) /\ u = Uses(b)[b.use] /\ u \in Modules
        /\ u \in Reached(b.mod) /\ IsPublic(b) /\ WithAll(u) \subseteq Reached(b.mod)
    BY <1>1, <1>3, UsedL
  <1>6. Found(Rest(s), b, started[s])
    BY <1>3, <1>4 DEF Layer
  <1>7. /\ intf[u] # Missing /\ intf[u] \in InterfaceRec
        /\ DOMAIN e = WithAll(u) /\ l \subseteq Reached(u) /\ NotNewer(e, src)
        /\ Matches(u) => Covered(e, {u} \cup l)
    <2>1. intf[u] # Missing
      BY <1>5, <1>6 DEF Found
    <2>2. intf[u] \in InterfaceRec
      BY <1>5, <2>1 DEF Links0, Inv, IInv, Types
    <2>3. OnDisk(u)
      BY <1>5 DEF Links0, LInv
    <2>4. QED
      BY <1>2, <2>1, <2>2, <2>3 DEF OnDisk
  <1>8. e \in Versions /\ l \in SUBSET Modules
    BY <1>2, <1>7 DEF InterfaceRec
  <1>9. /\ NotNewer(b.deps, e) /\ Recent(Rest(s), b.mod, started[s], e)
        /\ ~b.ifgen => Matches(u)
    BY <1>2, <1>3, <1>5, <1>6 DEF Found
  <1>10. Become(s, c)
    <2>1. FreshnessDeps(b, u) = d
      BY <1>2, <1>5 DEF FreshnessDeps, Merged
    <2>2. [b EXCEPT !.pc = "use", !.use = @ + 1, !.deps = FreshnessDeps(b, u),
                    !.from = @ \cup {<<m, intf[u].deps[m]>> : m \in DOMAIN intf[u].deps},
                    !.links = @ \cup {u} \cup intf[u].links] = c
      BY <1>2, <1>4, <2>1 DEF CompilerRec
    <2>3. QED
      BY <1>1, <2>2 DEF ReadInterface
  <1>11. c \in CompilerRec
    BY <1>3, <1>10, ReadInterfaceI, NextTyped DEF Links0, Inv
  <1>12. /\ d \in Versions /\ DOMAIN d = DOMAIN b.deps \cup DOMAIN e
         /\ NotNewer(d, b.deps) /\ NotNewer(d, e)
         /\ \A x : NotNewer(x, b.deps) /\ NotNewer(x, e) => NotNewer(x, d)
         /\ \A x : NotNewer(b.deps, x) /\ NotNewer(e, x) => NotNewer(d, x)
    BY <1>4, <1>8, <1>9, MergedFacts
  <1>13. /\ c.pc = "use" /\ c.mod = b.mod /\ c.ifgen = b.ifgen /\ c.use = b.use + 1
         /\ c.deps = d /\ c.from = f /\ c.links = b.links \cup {u} \cup l
    BY <1>4 DEF CompilerRec
  <1> HIDE DEF c, d
  <1>14. Collected(b)
    BY <1>4 DEF Layer
  <1>15. DOMAIN d \subseteq WithAll(b.mod) /\ c.links \subseteq Reached(b.mod)
    BY <1>5, <1>7, <1>12, <1>13, <1>14 DEF Collected, WithAll
  <1>16. ASSUME NEW k \in 1..(c.use - 1)
         PROVE  intf[Uses(c)[k]] # Missing /\ WithAll(Uses(c)[k]) \subseteq DOMAIN d
    <2>1. Uses(c) = Uses(b)
      BY <1>13 DEF Uses
    <2>2. b.use \in Nat /\ c.use = b.use + 1
      BY <1>4, <1>13 DEF CompilerRec
    <2>3. k \in 1..(b.use - 1) \/ k = b.use
      BY <2>2
    <2>4. CASE k = b.use
      BY <1>5, <1>7, <1>12, <2>1, <2>4
    <2>5. CASE k \in 1..(b.use - 1)
      BY <1>12, <1>14, <2>1, <2>5 DEF Collected
    <2>6. QED
      BY <2>3, <2>4, <2>5
  <1>17. ASSUME NEW x \in c.links PROVE WithAll(x) \subseteq DOMAIN d
    <2>1. x \in l => WithAll(x) \subseteq WithAll(u)
      BY <1>5, <1>7, WithAllReached DEF WithAll
    <2>2. QED
      BY <1>7, <1>12, <1>13, <1>14, <2>1 DEF Collected
  <1>18. Covers(d, c.from)
    <2>1. Covers(d, b.from)
      <3>1. Covers(b.deps, b.from)
        BY <1>14 DEF Collected
      <3>2. \A v \in b.from : v[1] \in DOMAIN d
        BY <1>12, <3>1 DEF Covers
      <3>3. QED
        BY <1>4, <1>12, <3>1, <3>2, CoversOlder
    <2>2. \A m \in DOMAIN e : m \in DOMAIN d /\ d[m] <= e[m]
      BY <1>12 DEF NotNewer
    <2>3. QED
      BY <1>13, <2>1, <2>2 DEF Covers
  <1>19. ~b.ifgen => Covered(d, c.links)
    <2>1. SUFFICES ASSUME ~b.ifgen PROVE Covered(d, b.links) /\ Covered(d, {u} \cup l)
      BY <1>13 DEF Covered
    <2>2. Covered(b.deps, b.links) /\ b.links \in SUBSET Modules
      BY <1>4, <1>14, <2>1 DEF Collected, CompilerRec
    <2>3. Covered(e, {u} \cup l) /\ {u} \cup l \in SUBSET Modules
      BY <1>5, <1>7, <1>8, <1>9, <2>1
    <2>4. QED
      BY <1>4, <1>8, <1>12, <2>2, <2>3, CoveredOlder DEF Links0, Inv
  <1>20. NotNewer(d, src)
    BY <1>7, <1>12, <1>14 DEF Collected
  <1>21. Collected(c)
    BY <1>13, <1>15, <1>16, <1>17, <1>18, <1>19, <1>20 DEF Collected
  <1>22. Recent(Rest(s), c.mod, started[s], c.deps)
    BY <1>4, <1>9, <1>12, <1>13 DEF Layer, Recent
  <1>23. Layer(Rest(s), c, started[s])
    BY <1>4, <1>13, <1>21, <1>22 DEF Layer, AtUse
  <1>24. QED
    BY <1>3, <1>10, <1>11, <1>23, BecomeL

-----------------------------------------------------------------------------
(* A step that changes what is on disk: the compilers that wait, which are *)
(* in the middle of a use, and the one that runs.                          *)
LEMMA WritesL ==
  ASSUME Links0, NEW s \in Sessions, stack[s] # <<>>, NEW c \in CompilerRec, Become(s, c),
         UNCHANGED <<src, started>>, \A m \in Modules : OnDisk(m)',
         NEW f \in Seq(CompilerRec), f = Front(stack[s]), NEW begun, begun = started[s],
         Layered(f, begun)', Layer(Range(f), c, begun)'
  PROVE  LInv'
  <1>1. stack'[s] = Append(f, c) /\ started'[s] = begun
    BY DEF Become, Links0, Inv, IInv, Types
  <1>2. Layered(Append(f, c), begun)'
    BY LayeredAppendNext
  <1>3. QED
    BY <1>1, <1>2, OneSession

(* The compilers that wait.                                                *)
LEMMA WaitingL ==
  ASSUME Links0, NEW s \in Sessions, stack[s] # <<>>,
         NEW f \in Seq(CompilerRec), f = Front(stack[s]), NEW i \in DOMAIN f
  PROVE  /\ f[i] \in CompilerRec /\ Layer(Callers(f, i), f[i], started[s])
         /\ f[i] \in Rest(s) /\ f[i].pc \in {"interface", "reinterface", "object"}
         /\ Me(s).mod \in Reached(f[i].mod) /\ f[i].deps \in Versions /\ f[i].mod \in Modules
         /\ NotNewer(f[i].deps, Me(s).deps) /\ f[i].links \in SUBSET Modules
  <1>1. f[i] \in Rest(s) /\ f[i] \in CompilerRec
    BY TopFacts DEF Range
  <1>2. Layer(Callers(f, i), f[i], started[s]) /\ Layer(Rest(s), Me(s), started[s])
    BY TopFacts DEF Layered
  <1>3. f[i].pc \in {"interface", "reinterface", "object"}
    BY <1>1, RestFacts DEF Links0, Inv
  <1>4. QED
    BY <1>1, <1>2, <1>3 DEF Layer, Recent, CompilerRec

LEMMA EmitObjectL == ASSUME Links0, NEW s \in Sessions, EmitObject(s) PROVE LInv'
  <1>1. PICK b, m, begun : b = Me(s) /\ m = b.mod /\ begun = started[s]
    OBVIOUS
  <1>2. PICK n : n = [from |-> b.from, stamp |-> NewStamp(m)]
    OBVIOUS
  <1> DEFINE c == [b EXCEPT !.pc = "publish", !.again = FALSE]
  <1>3. /\ stack[s] # <<>> /\ b.pc = "use" /\ ~b.ifgen /\ Become(s, c) /\ ~MoreUses(s)
        /\ UNCHANGED <<src, intf, result, started, starts>> /\ obj' = [obj EXCEPT ![m] = n]
    BY <1>1, <1>2 DEF EmitObject, Parsed, At, Goto
  <1>4. /\ b \in CompilerRec /\ Frame(b) /\ m \in Modules /\ Layer(Rest(s), b, begun) /\ Collected(b)
        /\ b.deps \in Versions /\ b.from \in SUBSET (Modules \X Nat) /\ b.mod \in DOMAIN b.deps
    BY <1>1, <1>3, TopFacts DEF Layer, Frame, CompilerRec
  <1>5. PICK f \in Seq(CompilerRec) : f = Front(stack[s]) /\ Rest(s) = Range(f) /\ Layered(f, begun)
    BY <1>1, <1>3, TopFacts
  <1>6. b.use > Len(Uses(b))
    <2>1. Len(Uses(b)) \in Nat /\ b.use \in Nat
      BY <1>4, UsesFacts DEF CompilerRec
    <2>2. QED
      BY <1>1, <1>3, <2>1 DEF MoreUses, At
  <1>7. m \notin Reached(m) /\ DOMAIN b.deps = WithAll(m)
    BY <1>1, <1>4, <1>6, NoCircleRead
  <1>8. obj'[m] = n /\ n.from = b.from /\ n.stamp = NewStamp(m) /\ n # Missing
        /\ \A x \in Modules \ {m} : obj'[x] = obj[x]
    BY <1>2, <1>3, <1>4 DEF Links0, Inv, IInv, Types, Missing
  <1>9. ASSUME NEW d \in Versions, NEW M \in SUBSET Modules, Covered(d, M),
               m \in M => NotNewer(d, b.deps) /\ WithAll(m) \subseteq DOMAIN d
        PROVE  Covered(d, M)'
    <2>1. ASSUME NEW x \in M PROVE obj'[x] # Missing /\ Covers(d, obj'[x].from)
      <3>1. CASE x # m
        BY <1>8, <1>9, <3>1 DEF Covered
      <3>2. CASE x = m
        <4>1. Covers(b.deps, b.from)
          BY <1>4 DEF Collected
        <4>2. \A v \in b.from : v[1] \in DOMAIN d
          BY <1>7, <1>9, <3>2, <4>1 DEF Covers
        <4>3. Covers(d, b.from)
          BY <1>4, <1>9, <3>2, <4>1, <4>2, CoversOlder
        <4>4. QED
          BY <1>8, <3>2, <4>3
      <3>3. QED
        BY <3>1, <3>2
    <2>2. QED
      BY <2>1 DEF Covered, Covers
  <1>10. ASSUME NEW x \in Modules PROVE OnDisk(x)'
    <2>1. OnDisk(x)
      BY DEF Links0, LInv
    <2>2. ASSUME Matches(x)' PROVE Covered(intf[x].deps, {x} \cup intf[x].links)'
      <3>1. x # m /\ Matches(x)
        BY <1>3, <1>4, <1>8, <2>2, NewStampFacts DEF Matches, Links0, Inv
      <3>2. PICK e, l : e = intf[x].deps /\ l = intf[x].links
        OBVIOUS
      <3>3. e \in Versions /\ {x} \cup l \in SUBSET Modules
        BY <3>1, <3>2 DEF Matches, Links0, Inv, IInv, Types, InterfaceRec
      <3>4. Covered(e, {x} \cup l) /\ DOMAIN e = WithAll(x) /\ l \subseteq Reached(x)
        BY <2>1, <3>1, <3>2 DEF OnDisk, Matches
      <3>5. m \in l => NotNewer(e, b.deps) /\ WithAll(m) \subseteq DOMAIN e
        <4>1. SUFFICES ASSUME m \in l PROVE NotNewer(e, b.deps) /\ WithAll(m) \subseteq DOMAIN e
          OBVIOUS
        <4>2. m \in Reached(x) /\ WithAll(m) \subseteq Reached(x)
          BY <3>4, <4>1, WithAllReached
        <4>3. NotNewer(e, b.deps)
          BY <1>1, <1>4, <3>1, <3>2, <4>2 DEF Layer, Recent, Matches
        <4>4. QED
          BY <3>4, <4>2, <4>3 DEF WithAll
      <3>6. Covered(e, {x} \cup l)'
        BY <1>9, <3>1, <3>3, <3>4, <3>5
      <3>7. QED
        BY <1>3, <3>2, <3>6 DEF Covered
    <2>3. QED
      BY <1>3, <2>1, <2>2 DEF OnDisk
  <1>11. ASSUME NEW i \in DOMAIN f PROVE Layer(Callers(f, i), f[i], begun)'
    <2>1. PICK w, K : w = f[i] /\ K = Callers(f, i)
      OBVIOUS
    <2>2. /\ w \in CompilerRec /\ Layer(K, w, begun) /\ w.pc \in {"interface", "reinterface", "object"}
          /\ w.deps \in Versions /\ NotNewer(w.deps, b.deps) /\ w.links \in SUBSET Modules
      BY <1>1, <1>3, <1>5, <2>1, WaitingL
    <2>3. ~w.ifgen => Covered(w.deps, w.links)'
      BY <1>9, <2>2 DEF Layer, Collected
    <2>4. Collected(w)'
      BY <1>3, <2>2, <2>3 DEF Layer, Collected
    <2>5. Layer(K, w, begun)'
      BY <1>3, <2>2, <2>4 DEF Layer, Recent, Found
    <2>6. QED
      BY <2>1, <2>5
  <1>12. Layered(f, begun)'
    BY <1>3, <1>5, <1>11 DEF Layered
  <1>13. c \in CompilerRec
    BY <1>4, Zenon DEF CompilerRec, Places
  <1>14. /\ c.pc = "publish" /\ c.mod = m /\ c.ifgen = b.ifgen /\ c.use = b.use /\ c.deps = b.deps
         /\ c.from = b.from /\ c.links = b.links
    BY <1>1, <1>4 DEF CompilerRec
  <1> HIDE DEF c
  <1>15. Layer(Range(f), c, begun)'
    <2>1. Covered(b.deps, b.links)'
      <3>1. m \notin b.links /\ Covered(b.deps, b.links) /\ b.links \in SUBSET Modules
        BY <1>1, <1>3, <1>4, <1>7 DEF Collected, CompilerRec
      <3>2. QED
        BY <1>4, <1>9, <3>1
    <2>2. Collected(c)'
      <3>1. Uses(c) = Uses(b) /\ c.use > Len(Uses(c)) /\ obj'[c.mod] # Missing
            /\ obj'[c.mod].from = c.from
        BY <1>1, <1>6, <1>8, <1>14 DEF Uses
      <3>2. \A k \in 1..(c.use - 1) : intf'[Uses(c)[k]] # Missing
                                     /\ WithAll(Uses(c)[k]) \subseteq DOMAIN c.deps
        BY <1>3, <1>4, <1>14, <3>1 DEF Collected
      <3>3. Covers(c.deps, c.from) /\ NotNewer(c.deps, src)'
        BY <1>3, <1>4, <1>14 DEF Collected
      <3>4. QED
        BY <1>1, <1>4, <1>14, <2>1, <3>1, <3>2, <3>3 DEF Collected
    <2>3. QED
      BY <1>1, <1>3, <1>4, <1>5, <1>14, <2>2 DEF Layer, Recent, AtUse
  <1>16. QED
    BY <1>1, <1>3, <1>5, <1>10, <1>12, <1>13, <1>15, WritesL

(* A compiler that writes its interface.  Those that wait for it are       *)
(* compilers of modules that use it, which it does not reach.              *)
LEMMA InterfaceL ==
  ASSUME Links0, NEW s \in Sessions, stack[s] # <<>>, NEW b, b = Me(s), NEW begun, begun = started[s],
         NEW stamp \in 0..3, b.mod \in DOMAIN b.deps, b.use > Len(Uses(b)),
         intf' = [intf EXCEPT ![b.mod] = NewInterface(b, stamp)], UNCHANGED <<src, obj>>,
         stamp = 0 \/ (~b.ifgen /\ obj[b.mod] # Missing /\ obj[b.mod].from = b.from),
         NEW f \in Seq(CompilerRec), f = Front(stack[s])
  PROVE  /\ \A x \in Modules : OnDisk(x)'
         /\ Layered(f, begun)'
         /\ \A x \in Modules : intf[x] # Missing => intf'[x] # Missing
         /\ \A x \in Modules : b.mod \in Reached(x) => intf'[x] = intf[x]
  <1>1. PICK m, n : m = b.mod /\ n = NewInterface(b, stamp)
    OBVIOUS
  <1>2. /\ b \in CompilerRec /\ Frame(b) /\ m \in Modules /\ Layer(Rest(s), b, begun) /\ Collected(b)
        /\ b.deps \in Versions /\ NotNewer(begun, src) /\ Layered(f, begun) /\ Rest(s) = Range(f)
    BY <1>1, TopFacts DEF Layer
  <1>3. m \notin Reached(m) /\ DOMAIN b.deps = WithAll(m)
    BY <1>1, <1>2, NoCircleRead
  <1>4. n # Missing /\ n.deps = b.deps /\ n.stamp = stamp /\ n.links = b.links
    <2>1. n # Missing /\ n.deps = b.deps /\ n.stamp = stamp
      BY <1>1, <1>2, NewInterfaceFacts
    <2>2. m \notin b.links
      BY <1>1, <1>2, <1>3 DEF Collected
    <2>3. QED
      BY <1>1, <2>1, <2>2 DEF NewInterface
  <1>5. intf'[m] = n /\ \A x \in Modules \ {m} : intf'[x] = intf[x]
    BY <1>1, <1>2 DEF Links0, Inv, IInv, Types
  <1>6. \A d, M : Covered(d, M) => Covered(d, M)'
    BY DEF Covered
  <1>7. OnDisk(m)'
    <2>1. NotNewer(b.deps, src) /\ b.links \subseteq Reached(m)
      BY <1>1, <1>2 DEF Collected
    <2>2. ASSUME Matches(m)' PROVE Covered(b.deps, {m} \cup b.links)'
      <3>1. obj[m] # Missing /\ stamp = obj[m].stamp
        BY <1>4, <1>5, <2>2 DEF Matches
      <3>2. stamp # 0
        <4>1. obj[m] \in ObjectRec
          BY <1>2, <3>1 DEF Links0, Inv, IInv, Types
        <4>2. obj[m].stamp \in 1..3
          BY <4>1 DEF ObjectRec
        <4>3. QED
          BY <3>1, <4>2
      <3>3. Covered(b.deps, b.links) /\ Covers(b.deps, obj[m].from)
        BY <1>1, <1>2, <3>2 DEF Collected
      <3>4. Covered(b.deps, {m} \cup b.links)
        BY <3>1, <3>3 DEF Covered
      <3>5. QED
        BY <1>6, <3>4
    <2>3. Matches(m)' => Covered(intf[m].deps, {m} \cup intf[m].links)'
      BY <1>4, <1>5, <2>2 DEF Covered
    <2>4. QED
      BY <1>3, <1>4, <1>5, <2>1, <2>3 DEF OnDisk
  <1>8. ASSUME NEW x \in Modules PROVE OnDisk(x)'
    <2>1. CASE x = m
      BY <1>7, <2>1
    <2>2. CASE x # m
      <3>1. OnDisk(x) /\ intf'[x] = intf[x]
        BY <1>5, <2>2 DEF Links0, LInv
      <3>2. Matches(x)' <=> Matches(x)
        BY <3>1 DEF Matches
      <3>3. QED
        BY <1>6, <3>1, <3>2 DEF OnDisk
    <2>3. QED
      BY <2>1, <2>2
  <1>9. \A x \in Modules : intf[x] # Missing => intf'[x] # Missing
    BY <1>4, <1>5
  <1>10. ASSUME NEW i \in DOMAIN f PROVE Layer(Callers(f, i), f[i], begun)'
    <2>1. PICK w, K : w = f[i] /\ K = Callers(f, i)
      OBVIOUS
    <2>2. /\ w \in CompilerRec /\ Layer(K, w, begun) /\ w.pc \in {"interface", "reinterface", "object"}
          /\ m \in Reached(w.mod) /\ NotNewer(w.deps, b.deps) /\ w.mod \in Modules /\ w \in Rest(s)
      BY <1>1, <2>1, WaitingL
    <2>3. /\ w.use \in 1..Len(Uses(w)) /\ UsedBy(w) \in Modules /\ Len(Uses(w)) \in Nat
          /\ \A k \in 1..Len(Uses(w)) : Uses(w)[k] \in Modules
      <3>1. Frame(w)
        BY <2>2, RestFacts DEF Links0, Inv
      <3>2. QED
        BY <2>2, <3>1, PublicFacts DEF Links0, Frame, AtUse, UsedBy
    <2>4. Collected(w)'
      <3>1. \A k \in 1..(w.use - 1) : k \in 1..Len(Uses(w))
        BY <2>3
      <3>2. \A k \in 1..(w.use - 1) : intf'[Uses(w)[k]] # Missing
        BY <1>9, <2>2, <2>3, <3>1 DEF Layer, Collected
      <3>3. QED
        BY <1>6, <2>2, <3>2 DEF Layer, Collected
    <2>5. w.mod \notin Reached(m)
      BY <1>2, <1>3, <2>2, ReachedTransitive
    <2>6. \A d : Recent(K, w.mod, begun, d) => Recent(K, w.mod, begun, d)'
      BY <1>5, <2>5 DEF Recent
    <2>7. Recent(K, w.mod, begun, b.deps)
      <3>1. NotNewer(begun, b.deps) /\ \A k \in Rest(s) : NotNewer(k.deps, b.deps)
        BY <1>2 DEF Layer, Recent
      <3>2. K \subseteq Rest(s)
        <4>1. ASSUME NEW j \in 1..(i - 1) PROVE f[j] \in Range(f)
          <5>1. j \in DOMAIN f
            OBVIOUS
          <5>2. QED
            BY <5>1 DEF Range
        <4>2. QED
          BY <1>2, <2>1, <4>1 DEF Callers
      <3>3. \A u \in Modules : w.mod \in Reached(u) => m \in Reached(u)
        BY <2>2, ReachedTransitive
      <3>4. QED
        BY <1>1, <1>2, <3>1, <3>2, <3>3 DEF Layer, Recent
    <2>8. ASSUME w.pc \in AtUse \ {"interface"} PROVE Found(K, w, begun)'
      <3>1. Found(K, w, begun) /\ w.pc # "read"
        BY <2>2, <2>8 DEF Layer
      <3>2. CASE UsedBy(w) = m
        BY <1>4, <1>5, <2>2, <2>6, <2>7, <3>1, <3>2 DEF Found
      <3>3. CASE UsedBy(w) # m
        BY <1>5, <2>3, <2>6, <3>1, <3>3 DEF Found
      <3>4. QED
        BY <3>2, <3>3
    <2>9. Layer(K, w, begun)'
      BY <2>2, <2>4, <2>6, <2>8 DEF Layer
    <2>10. QED
      BY <2>1, <2>9
  <1>11. Layered(f, begun)'
    BY <1>2, <1>10 DEF Layered
  <1>12. \A x \in Modules : b.mod \in Reached(x) => intf'[x] = intf[x]
    BY <1>1, <1>3, <1>5
  <1>13. QED
    BY <1>8, <1>9, <1>11, <1>12

LEMMA PublishInterfaceL == ASSUME Links0, NEW s \in Sessions, PublishInterface(s) PROVE LInv'
  <1>1. PICK b, begun : b = Me(s) /\ begun = started[s]
    OBVIOUS
  <1>2. /\ stack[s] # <<>> /\ b.pc = "use" /\ ~MoreUses(s) /\ Exit(s, "ok")
        /\ intf' = [intf EXCEPT ![b.mod] = NewInterface(b, 0)] /\ UNCHANGED <<src, obj, started>>
    BY <1>1 DEF PublishInterface, Parsed, At
  <1>3. PICK f \in Seq(CompilerRec) : f = Front(stack[s])
    BY <1>2, TopFacts
  <1>4. b.use > Len(Uses(b)) /\ b.mod \in DOMAIN b.deps
    <2>1. b \in CompilerRec /\ Frame(b)
      BY <1>1, <1>2, TopFacts
    <2>2. Len(Uses(b)) \in Nat /\ b.use \in Nat
      BY <2>1, UsesFacts DEF CompilerRec
    <2>3. QED
      BY <1>1, <1>2, <2>1, <2>2 DEF MoreUses, At, Frame
  <1>5. (\A x \in Modules : OnDisk(x)') /\ Layered(f, begun)'
    <2>1. PICK stamp \in 0..3 : stamp = 0
      OBVIOUS
    <2>2. intf' = [intf EXCEPT ![b.mod] = NewInterface(b, stamp)] /\ UNCHANGED <<src, obj>>
      BY <1>2, <2>1
    <2>3. stamp = 0 \/ (~b.ifgen /\ obj[b.mod] # Missing /\ obj[b.mod].from = b.from)
      BY <2>1
    <2>4. stack[s] # <<>>
      BY <1>2
    <2>5. QED
      BY <1>1, <1>3, <1>4, <2>2, <2>3, <2>4, InterfaceL
  <1>6. QED
    BY <1>1, <1>2, <1>3, <1>5, ExitL

LEMMA WriteInterfaceL == ASSUME Links0, NEW s \in Sessions, WriteInterface(s) PROVE LInv'
  <1>1. PICK b, begun : b = Me(s) /\ begun = started[s]
    OBVIOUS
  <1>2. PICK h, stamp : h = With(b.holds, Interface(b.mod), "EXCLUSIVE") /\ stamp = obj[b.mod].stamp
    OBVIOUS
  <1> DEFINE c == [b EXCEPT !.pc = "finish", !.holds = h]
  <1>3. /\ stack[s] # <<>> /\ b.pc = "publish" /\ UNCHANGED <<src, obj, result, started, starts>>
        /\ intf' = [intf EXCEPT ![b.mod] = NewInterface(b, stamp)]
    BY <1>1, <1>2 DEF WriteInterface, At
  <1>4. /\ b \in CompilerRec /\ Frame(b) /\ b.mod \in Modules /\ Layer(Rest(s), b, begun)
        /\ Collected(b) /\ b.mod \in DOMAIN b.deps /\ ~b.ifgen
    BY <1>1, <1>3, TopFacts DEF Layer, Frame
  <1>5. PICK f \in Seq(CompilerRec) : f = Front(stack[s]) /\ Rest(s) = Range(f)
    BY <1>3, TopFacts
  <1>6. b.use > Len(Uses(b)) /\ obj[b.mod] # Missing /\ obj[b.mod].from = b.from
    BY <1>3, <1>4 DEF Collected
  <1>7. stamp \in 0..3
    <2>1. obj[b.mod] \in ObjectRec
      BY <1>4, <1>6 DEF Links0, Inv, IInv, Types
    <2>2. stamp \in 1..3
      BY <1>2, <2>1 DEF ObjectRec
    <2>3. QED
      BY <2>2
  <1>8. /\ \A x \in Modules : OnDisk(x)'
        /\ Layered(f, begun)'
        /\ \A x \in Modules : intf[x] # Missing => intf'[x] # Missing
        /\ \A x \in Modules : b.mod \in Reached(x) => intf'[x] = intf[x]
    BY <1>1, <1>3, <1>4, <1>5, <1>6, <1>7, InterfaceL
  <1>9. Become(s, c)
    <2>1. [b EXCEPT !.pc = "finish", !.holds = With(@, Interface(b.mod), "EXCLUSIVE")] = c
      BY <1>2, <1>4 DEF CompilerRec
    <2>2. QED
      BY <1>1, <2>1 DEF WriteInterface
  <1>10. c \in CompilerRec
    BY <1>3, <1>9, WriteInterfaceI, NextTyped DEF Links0, Inv
  <1>11. SameData(b, c) /\ c.pc = "finish"
    BY <1>3, <1>4 DEF SameData, CompilerRec
  <1> HIDE DEF c
  <1>12. Collected(c)'
    <2>1. Len(Uses(b)) \in Nat /\ \A k \in 1..Len(Uses(b)) : Uses(b)[k] \in Modules
      BY <1>4, UsesFacts
    <2>2. \A k \in 1..(b.use - 1) : k \in 1..Len(Uses(b))
      BY <1>4, <2>1 DEF Frame
    <2>3. \A k \in 1..(b.use - 1) : intf'[Uses(b)[k]] # Missing
      BY <1>4, <1>8, <2>1, <2>2 DEF Collected
    <2>4. \A d, M : Covered(d, M) => Covered(d, M)'
      BY <1>3 DEF Covered
    <2>5. QED
      BY <1>3, <1>4, <1>6, <1>11, <2>3, <2>4 DEF Collected, SameData, Uses
  <1>13. Recent(Rest(s), b.mod, begun, b.deps)
    BY <1>4 DEF Layer
  <1>14. Layer(Range(f), c, begun)'
    <2>1. Recent(Range(f), c.mod, begun, c.deps)'
      BY <1>5, <1>8, <1>11, <1>13 DEF Recent, SameData
    <2>2. \A w \in Range(f) : c.mod \in Reached(w.mod)
      BY <1>4, <1>5, <1>11 DEF Layer, SameData
    <2>3. QED
      BY <1>11, <1>12, <2>1, <2>2 DEF Layer, AtUse
  <1>15. QED
    BY <1>1, <1>3, <1>5, <1>8, <1>9, <1>10, <1>14, WritesL

-----------------------------------------------------------------------------
(* The steps of the user and of whoever kills compilers.                   *)
LEMMA EmptyLayered == ASSUME NEW begun, NotNewer(begun, src) PROVE Layered(<<>>, begun)
  BY DEF Layered

LEMMA StartL == ASSUME Links0, NEW s \in Sessions, Start(s) PROVE LInv'
  <1>1. PICK k \in Commands[s] : stack' = [stack EXCEPT ![s] = <<Compiler(k.mod, k.ifgen, FALSE)>>]
    BY DEF Start
  <1>2. k.mod \in Modules /\ k.ifgen \in BOOLEAN
    BY <1>1, BuildAssumption
  <1>3. PICK c : c = Compiler(k.mod, k.ifgen, FALSE)
    OBVIOUS
  <1>4. PICK begun \in Versions : begun = src
    BY BuildAssumption DEF Links0, Inv, IInv, Types, Versions
  <1>5. stack'[s] = <<c>> /\ started'[s] = begun /\ UNCHANGED <<src, intf, obj>>
    BY <1>1, <1>3, <1>4 DEF Start, Links0, Inv, IInv, Types
  <1>6. NotNewer(begun, src)
    BY <1>4, VersionsFacts DEF NotNewer
  <1>7. Layer({}, c, begun)
    BY <1>2, <1>3, ChildLayer
  <1>8. Layered(<<c>>, begun)
    <2>1. \A i \in DOMAIN <<c>> : <<c>>[i] = c /\ Callers(<<c>>, i) = {}
      <3>1. \A i \in DOMAIN <<c>> : i = 1
        OBVIOUS
      <3>2. 1..(1 - 1) = {}
        OBVIOUS
      <3>3. QED
        BY <3>1, <3>2 DEF Callers
    <2>2. QED
      BY <1>6, <1>7, <2>1 DEF Layered
  <1>9. Layered(<<c>>, begun)' /\ \A m \in Modules : OnDisk(m)'
    BY <1>5, <1>8, DiskStays DEF Links0
  <1>10. QED
    BY <1>5, <1>9, OneSession

LEMMA DieL == ASSUME Links0, NEW s \in Sessions, Die(s) PROVE LInv'
  <1>1. PICK begun : begun = started[s]
    OBVIOUS
  <1>2. stack'[s] = <<>> /\ started'[s] = begun /\ UNCHANGED <<src, intf, obj>> /\ stack[s] # <<>>
    BY <1>1 DEF Die, Links0, Inv, IInv, Types
  <1>3. Layered(<<>>, begun)
    BY <1>1, <1>2, TopFacts, EmptyLayered
  <1>4. Layered(<<>>, begun)' /\ \A m \in Modules : OnDisk(m)'
    BY <1>2, <1>3, DiskStays DEF Links0
  <1>5. QED
    BY <1>2, <1>4, OneSession

LEMMA EditL == ASSUME Links0, NEW m \in Modules, Edit(m) PROVE LInv'
  <1>1. /\ src \in [Modules -> Nat] /\ \A x \in Modules : src[x] <= src'[x] /\ src'[x] \in Nat
        /\ DOMAIN src' = Modules /\ UNCHANGED <<intf, obj, stack, started>>
    <2>1. src \in [Modules -> Nat] /\ src' = [src EXCEPT ![m] = @ + 1]
      BY BuildAssumption DEF Edit, Links0, Inv, IInv, Types
    <2>2. \A x \in Modules : src'[x] = IF x = m THEN src[m] + 1 ELSE src[x]
      BY <2>1
    <2>3. QED
      BY <2>1, <2>2 DEF Edit
  <1>2. ASSUME NEW d \in Versions, NotNewer(d, src) PROVE NotNewer(d, src)'
    <2>1. ASSUME NEW x \in DOMAIN d \cap DOMAIN src' PROVE d[x] <= src'[x]
      <3>1. d[x] \in Nat /\ x \in Modules
        BY <1>1, VersionsFacts
      <3>2. d[x] <= src[x] /\ src[x] \in Nat
        BY <1>1, <1>2, <3>1 DEF NotNewer
      <3>3. QED
        BY <1>1, <3>1, <3>2
    <2>2. QED
      BY <2>1 DEF NotNewer
  <1>3. \A d, M : Covered(d, M) => Covered(d, M)'
    BY <1>1 DEF Covered
  <1>4. ASSUME NEW x \in Modules PROVE OnDisk(x)'
    <2>1. OnDisk(x) /\ (Matches(x)' <=> Matches(x))
      BY <1>1 DEF Links0, LInv, Matches
    <2>2. intf[x] # Missing => NotNewer(intf[x].deps, src)'
      <3>1. SUFFICES ASSUME intf[x] # Missing PROVE NotNewer(intf[x].deps, src)'
        OBVIOUS
      <3>2. PICK e \in Versions : e = intf[x].deps
        BY <3>1 DEF Links0, Inv, IInv, Types, InterfaceRec
      <3>3. NotNewer(e, src)'
        BY <1>2, <2>1, <3>1, <3>2 DEF OnDisk
      <3>4. QED
        BY <1>1, <3>2, <3>3 DEF NotNewer
    <2>3. QED
      BY <1>1, <1>3, <2>1, <2>2 DEF OnDisk
  <1>5. ASSUME NEW s \in Sessions PROVE Layered(stack[s], started[s])'
    <2>1. PICK st \in Seq(CompilerRec), begun \in Versions : st = stack[s] /\ begun = started[s]
      BY DEF Links0, Inv, IInv, Types, Versions
    <2>2. Layered(st, begun)
      BY <2>1 DEF Links0, LInv
    <2>3. ASSUME NEW i \in DOMAIN st PROVE Layer(Callers(st, i), st[i], begun)'
      <3> DEFINE K == Callers(st, i)
      <3>1. PICK c \in CompilerRec : c = st[i]
        OBVIOUS
      <3>2. Layer(K, c, begun)
        BY <2>2, <3>1 DEF Layered
      <3> HIDE DEF K
      <3>3. NotNewer(c.deps, src)'
        BY <1>2, <3>2 DEF Layer, Collected, CompilerRec
      <3>4. Collected(c)'
        BY <1>1, <1>3, <3>2, <3>3 DEF Layer, Collected
      <3>5. Layer(K, c, begun)'
        BY <1>1, <3>2, <3>4 DEF Layer, Recent, Found, Matches
      <3>6. QED
        BY <3>1, <3>5 DEF K
    <2>4. Layered(st, begun)'
      BY <1>2, <2>2, <2>3 DEF Layered
    <2>5. QED
      BY <1>1, <2>1, <2>4 DEF Layered
  <1>6. QED
    BY <1>4, <1>5 DEF LInv

LEMMA InitL == Init => LInv
  <1>1. SUFFICES ASSUME Init PROVE LInv
    OBVIOUS
  <1>2. \A m \in Modules : OnDisk(m)
    BY <1>1 DEF Init, OnDisk, Matches
  <1>3. \A s \in Sessions : NotNewer(started[s], src) /\ stack[s] = <<>>
    BY <1>1 DEF Init, NotNewer
  <1>4. QED
    BY <1>2, <1>3, EmptyLayered DEF LInv

LEMMA StepL == ASSUME Links0, [Next]_vars PROVE LInv'
  <1>1. ASSUME NEW s \in Sessions, Run(s) PROVE LInv'
    BY <1>1, LockOutputL, AlreadyFreshL, LoadSourceL, UseCycleL, BeginUseL, EnsureInterfaceL,
       LockObjectL, CheckObjectL, EnsureInterfaceAgainL, CompileUsedL, ReadInterfaceL,
       PublishInterfaceL, EmitObjectL, WriteInterfaceL, FinishL, FailL DEF Run
  <1>2. ASSUME UNCHANGED vars PROVE LInv'
    <2>1. UNCHANGED <<src, intf, obj, stack, started>>
      BY <1>2 DEF vars
    <2>2. \A s \in Sessions : Layered(stack[s], started[s])
      BY DEF Links0, LInv
    <2>3. \A m \in Modules : OnDisk(m)'
      BY <2>1, DiskStays DEF Links0
    <2>4. ASSUME NEW s \in Sessions PROVE Layered(stack[s], started[s])'
      <3>1. PICK st, begun : st = stack[s] /\ begun = started[s]
        OBVIOUS
      <3>2. Layered(st, begun)'
        BY <2>1, <2>2, <3>1, DiskStays DEF Links0
      <3>3. QED
        BY <2>1, <3>1, <3>2 DEF Layered
    <2>5. QED
      BY <2>3, <2>4 DEF LInv
  <1>3. QED
    BY <1>1, <1>2, StartL, DieL, EditL DEF Next, Finished

(* A compiler that links and finishes.                                     *)
LEMMA LinksNow ==
  ASSUME Links0, NEW s \in Sessions, Links(s), Finish(s), NEW m \in Linked(s), NEW v \in obj[m].from
  PROVE  v[2] >= started[s][v[1]]
  <1>1. PICK b, begun : b = Me(s) /\ begun = started[s]
    OBVIOUS
  <1>2. stack[s] # <<>> /\ b.pc = "finish"
    BY <1>1 DEF Finish, At
  <1>3. /\ b \in CompilerRec /\ ~b.ifgen /\ Collected(b) /\ b.mod \in Modules
        /\ NotNewer(begun, b.deps) /\ begun \in Versions /\ DOMAIN begun = Modules
        /\ b.deps \in Versions /\ b.links \in SUBSET Modules
    BY <1>1, <1>2, TopFacts DEF Frame, Layer, Recent, CompilerRec
  <1>4. obj[m] # Missing /\ Covers(b.deps, obj[m].from) /\ m \in Modules
    BY <1>1, <1>2, <1>3 DEF Linked, Collected, Covered
  <1>5. obj[m].from \in SUBSET (Modules \X Nat)
    BY <1>4 DEF Links0, Inv, IInv, Types, ObjectRec
  <1>6. v[1] \in Modules /\ v[2] \in Nat /\ v[1] \in DOMAIN b.deps /\ b.deps[v[1]] <= v[2]
    BY <1>4, <1>5 DEF Covers
  <1>7. begun[v[1]] <= b.deps[v[1]] /\ begun[v[1]] \in Nat /\ b.deps[v[1]] \in Nat
    BY <1>3, <1>6, VersionsFacts DEF NotNewer
  <1>8. QED
    BY <1>1, <1>6, <1>7

(* Where one session builds at a time and no module uses another in its    *)
(* implementation section, for any modules, edits and kills: what an       *)
(* application is linked from was compiled from sources no older than when *)
(* its build began.  ObjectArtifactIsFresh and the stamp of an interface   *)
(* take no stale object for a fresh one (module_intf.cpp).                 *)
THEOREM OneAtATimeLinksCurrent ==
  ASSUME OneAtATime
  PROVE  Spec => LinksCurrentObjects
  <1>1. Init => LInv
    BY InitL
  <1>2. Inv /\ LInv /\ [Next]_vars => LInv'
    BY StepL DEF Links0
  <1>3. Inv /\ LInv /\ [Next]_vars =>
          [\A s \in Sessions : Links(s) /\ Finish(s) =>
             \A m \in Linked(s) : \A v \in obj[m].from : v[2] >= started[s][v[1]]]_vars
    BY LinksNow DEF Links0
  <1>4. QED
    BY <1>1, <1>2, <1>3, InvCorrect, PTL DEF Spec, LinksCurrentObjects
=============================================================================
