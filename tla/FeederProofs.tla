---------------------------- MODULE FeederProofs ----------------------------
(***************************************************************************)
(* The source feeder gives the parser the selected branches and no others, *)
(* for any files and directives, nested and included in any order.  The    *)
(* stack of conditions is compared with what the directives read so far    *)
(* mean: a condition on the stack belongs to an #if that is still open, at *)
(* the level of its place, and keeps of its group of branches whether it   *)
(* is inside of a branch that was not selected, whether the last branch is *)
(* an else and whether one was taken.  So the text is skipped exactly      *)
(* where a condition is open whose last branch is not the first that       *)
(* holds.  And of a file that begins with an #include_once, one place is   *)
(* read on at most: a file that is entered a second time leaves at its     *)
(* first directive, because its usage count is above one by then.          *)
(***************************************************************************)
EXTENDS SourceFeeder, SequenceTheorems, FiniteSetTheorems, TLAPS

(* The meaning of the directives of any sequence of them.                  *)
Those(tr, op, k) == {j \in 1..k : tr[j].d.op = op}
LevelOf(tr, k) == Cardinality(Those(tr, "if", k)) - Cardinality(Those(tr, "endif", k))
OpenIn(tr, i, k) == tr[i].d.op = "if" /\ \A j \in i..k : LevelOf(tr, j) >= LevelOf(tr, i)
BranchesIn(tr, i, k) == {i} \cup {j \in i..k : tr[j].d.op \in {"elif", "else"} /\ LevelOf(tr, j) = LevelOf(tr, i)}
HoldsIn(tr, j) == tr[j].d.op = "else" \/ tr[j].true
SelectedIn(tr, i, k) ==
  \A j \in BranchesIn(tr, i, k) : HoldsIn(tr, j) <=> \A h \in BranchesIn(tr, i, k) : h <= j
ActiveIn(tr, k) == \A i \in 1..k : OpenIn(tr, i, k) => SelectedIn(tr, i, k)

(* A condition and its group: what is outside of it, whether its last      *)
(* branch is an else and whether one of them was taken.                    *)
Outside(tr, i, n) == \E h \in 1..n : OpenIn(tr, h, n) /\ LevelOf(tr, h) < LevelOf(tr, i) /\ ~SelectedIn(tr, h, n)
HasElse(tr, i, n) == \E j \in BranchesIn(tr, i, n) : tr[j].d.op = "else"
SomeHolds(tr, i, n) == \E j \in BranchesIn(tr, i, n) : HoldsIn(tr, j)

Tracks(c, tr, i, n) ==
  /\ c.parent_inactive <=> Outside(tr, i, n)
  /\ (c.state = "else") <=> HasElse(tr, i, n)
  /\ ~c.parent_inactive /\ c.state # "else" => (c.branch_taken <=> SomeHolds(tr, i, n))

Conditions(tr, n, conds, inactive) ==
  /\ LevelOf(tr, n) = Len(conds)
  /\ \A k \in 0..n : LevelOf(tr, k) >= 0
  /\ \A m \in 1..Len(conds) : \E i \in 1..n : OpenIn(tr, i, n) /\ LevelOf(tr, i) = m
  /\ inactive <=> ~ActiveIn(tr, n)
  /\ \A i \in 1..n : OpenIn(tr, i, n) => Tracks(conds[LevelOf(tr, i)], tr, i, n)

AllDirectives == UNION {Directives[f] : f \in Files}
Conds   == [state : {"if", "elif", "else"}, parent_inactive : BOOLEAN, branch_taken : BOOLEAN, file : Files]
Places  == [file : Files, pos : Nat]
Entries == [d : AllDirectives, file : Files, pos : Nat, true : BOOLEAN]
Members == [usagecount : [Files -> Nat], defines : SUBSET {"X"}, source_dependencies : SUBSET Files,
            implementation_section : BOOLEAN, errors : BOOLEAN]

FeederType ==
  /\ text \in [Files -> Seq(AllDirectives)]
  /\ \A f \in Files : Len(text[f]) <= MaxDirectives[f] /\ \A i \in 1..Len(text[f]) : text[f][i] \in Directives[f]
  /\ complete \in [Files -> BOOLEAN]
  /\ returnpos \in Seq(Places) /\ curcond \in Seq(Conds) /\ inactive_code \in BOOLEAN
  /\ feeder \in Members /\ trace \in Seq(Entries)

Selects ==
  ~feeder.errors => Conditions(trace, Len(trace), curcond, inactive_code) /\ DefinedWhereSelected

(* Where the files are read: a file that is used once is read in one       *)
(* place, one that begins with an #include_once is read on in one place,   *)
(* and what was read of it is before that place.                           *)
OnceOf(t, f) == t[f] # <<>> /\ t[f][1].op = "include_once"

Within(tx, ps, tr) ==
  /\ \A i \in 1..Len(ps) : ps[i].pos <= Len(tx[ps[i].file])
  /\ \A k \in 1..Len(tr) : tr[k].pos \in 1..Len(tx[tr[k].file])
FirstPlaces(ps, inactive) == \A i \in 1..Len(ps) : ps[i].pos = 0 => i = Len(ps) /\ ~inactive
Unused(ps, tr, uses) ==
  \A f \in Files : uses[f] = 0 => (\A i \in 1..Len(ps) : ps[i].file # f) /\ \A k \in 1..Len(tr) : tr[k].file # f
UsedOnce(ps, tr, uses) ==
  \A f \in Files : uses[f] = 1 =>
    /\ \A i, j \in 1..Len(ps) : ps[i].file = f /\ ps[j].file = f => i = j
    /\ \A i \in 1..Len(ps), k \in 1..Len(tr) : ps[i].file = f /\ tr[k].file = f => tr[k].pos <= ps[i].pos
ReadOn(ps, tr, f) ==
  /\ \A i, j \in 1..Len(ps) : ps[i].file = f /\ ps[j].file = f /\ ps[i].pos > 0 /\ ps[j].pos > 0 => i = j
  /\ \A i \in 1..Len(ps), k \in 1..Len(tr) :
       ps[i].file = f /\ ps[i].pos > 0 /\ tr[k].file = f => tr[k].pos <= ps[i].pos
  /\ \A j, k \in 1..Len(tr) : tr[j].file = f /\ tr[k].file = f /\ tr[j].pos = tr[k].pos /\ tr[j].pos > 1 => j = k

ReadsIn(tx, ps, tr, uses, inactive) ==
  /\ Within(tx, ps, tr) /\ FirstPlaces(ps, inactive) /\ Unused(ps, tr, uses) /\ UsedOnce(ps, tr, uses)
  /\ \A f \in Files : OnceOf(tx, f) => ReadOn(ps, tr, f)

Reads == ReadsIn(text, returnpos, trace, feeder.usagecount, inactive_code)

FeederIInv == FeederType /\ Selects /\ Reads

-----------------------------------------------------------------------------
(* Levels.                                                                 *)
LEMMA CountAt ==
  ASSUME NEW tr, NEW op, NEW k \in Nat
  PROVE  /\ Cardinality(Those(tr, op, 0)) = 0 /\ Cardinality(Those(tr, op, k)) \in Nat
         /\ Cardinality(Those(tr, op, k + 1)) = Cardinality(Those(tr, op, k)) + (IF tr[k + 1].d.op = op THEN 1 ELSE 0)
  <1>1. Those(tr, op, 0) = {}
    BY DEF Those
  <1>2. IsFiniteSet(Those(tr, op, k))
    <2>1. IsFiniteSet(1..k) /\ Those(tr, op, k) \subseteq 1..k
      BY FS_Interval DEF Those
    <2>2. QED
      BY <2>1, FS_Subset
  <1>3. k + 1 \notin Those(tr, op, k) /\ 1..(k + 1) = (1..k) \cup {k + 1}
    BY DEF Those
  <1>4. Those(tr, op, k + 1) = IF tr[k + 1].d.op = op THEN Those(tr, op, k) \cup {k + 1} ELSE Those(tr, op, k)
    BY <1>3 DEF Those
  <1>5. Cardinality(Those(tr, op, k)) \in Nat /\ Cardinality(Those(tr, op, 0)) = 0
    BY <1>1, <1>2, FS_CardinalityType, FS_EmptySet
  <1>6. Cardinality(Those(tr, op, k) \cup {k + 1}) = Cardinality(Those(tr, op, k)) + 1
    BY <1>2, <1>3, FS_AddElement
  <1>7. QED
    BY <1>4, <1>5, <1>6

LEMMA LevelAt ==
  ASSUME NEW tr, NEW k \in Nat
  PROVE  /\ LevelOf(tr, 0) = 0 /\ LevelOf(tr, k) \in Int
         /\ tr[k + 1].d.op = "if" => LevelOf(tr, k + 1) = LevelOf(tr, k) + 1
         /\ tr[k + 1].d.op = "endif" => LevelOf(tr, k + 1) = LevelOf(tr, k) - 1
         /\ tr[k + 1].d.op \notin {"if", "endif"} => LevelOf(tr, k + 1) = LevelOf(tr, k)
  BY CountAt DEF LevelOf

LEMMA LevelKept ==
  ASSUME NEW tr, NEW tr2, NEW k \in Nat, \A j \in 1..k : tr2[j] = tr[j]
  PROVE  LevelOf(tr2, k) = LevelOf(tr, k)
  BY DEF LevelOf, Those

(* A group that goes on, in a longer sequence.                             *)
Unaltered(tr, tr2, n) == n \in Nat /\ \A j \in 1..n : tr2[j] = tr[j]

LEMMA SameLevels ==
  ASSUME NEW tr, NEW tr2, NEW n, Unaltered(tr, tr2, n), NEW k \in 0..n
  PROVE  LevelOf(tr2, k) = LevelOf(tr, k) /\ LevelOf(tr, k) \in Int
  <1>1. k \in Nat /\ \A j \in 1..k : tr2[j] = tr[j]
    BY DEF Unaltered
  <1>2. QED
    BY <1>1, LevelKept, LevelAt

LEMMA SameGroups ==
  ASSUME NEW tr, NEW tr2, NEW n, Unaltered(tr, tr2, n), NEW k \in 0..n, NEW i \in 1..k
  PROVE  /\ OpenIn(tr2, i, k) <=> OpenIn(tr, i, k)
         /\ BranchesIn(tr2, i, k) = BranchesIn(tr, i, k)
         /\ SelectedIn(tr2, i, k) <=> SelectedIn(tr, i, k)
  <1>1. /\ n \in Nat /\ \A j \in i..k : tr2[j] = tr[j] /\ LevelOf(tr2, j) = LevelOf(tr, j)
        /\ i \in i..k
    BY SameLevels DEF Unaltered
  <1>2. OpenIn(tr2, i, k) <=> OpenIn(tr, i, k)
    BY <1>1 DEF OpenIn
  <1>3. BranchesIn(tr2, i, k) = BranchesIn(tr, i, k) /\ BranchesIn(tr, i, k) \subseteq i..k
    BY <1>1 DEF BranchesIn
  <1>4. \A j \in BranchesIn(tr, i, k) : HoldsIn(tr2, j) <=> HoldsIn(tr, j)
    BY <1>1, <1>3 DEF HoldsIn
  <1>5. SelectedIn(tr2, i, k) <=> SelectedIn(tr, i, k)
    BY <1>3, <1>4 DEF SelectedIn
  <1>6. QED
    BY <1>2, <1>3, <1>5

LEMMA SameActive ==
  ASSUME NEW tr, NEW tr2, NEW n, Unaltered(tr, tr2, n), NEW k \in 0..n
  PROVE  ActiveIn(tr2, k) <=> ActiveIn(tr, k)
  BY SameGroups DEF ActiveIn

(* One directive more.                                                     *)
LEMMA LongerLevel ==
  ASSUME NEW tr, NEW tr2, NEW n, Unaltered(tr, tr2, n)
  PROVE  /\ LevelOf(tr2, n) = LevelOf(tr, n) /\ LevelOf(tr, n) \in Int /\ LevelOf(tr2, n + 1) \in Int
         /\ tr2[n + 1].d.op = "if" => LevelOf(tr2, n + 1) = LevelOf(tr, n) + 1
         /\ tr2[n + 1].d.op = "endif" => LevelOf(tr2, n + 1) = LevelOf(tr, n) - 1
         /\ tr2[n + 1].d.op \notin {"if", "endif"} => LevelOf(tr2, n + 1) = LevelOf(tr, n)
  <1>1. n \in Nat /\ n \in 0..n /\ n + 1 \in Nat
    BY DEF Unaltered
  <1>2. LevelOf(tr2, n) = LevelOf(tr, n) /\ LevelOf(tr, n) \in Int /\ LevelOf(tr2, n + 1) \in Int
    BY <1>1, SameLevels, LevelAt
  <1>3. QED
    BY <1>1, <1>2, LevelAt

LEMMA LongerOpen ==
  ASSUME NEW tr, NEW tr2, NEW n, Unaltered(tr, tr2, n), NEW i \in 1..n
  PROVE  /\ LevelOf(tr2, i) = LevelOf(tr, i) /\ LevelOf(tr, i) \in Int
         /\ OpenIn(tr2, i, n + 1) <=> OpenIn(tr, i, n) /\ LevelOf(tr2, n + 1) >= LevelOf(tr, i)
         /\ BranchesIn(tr2, i, n + 1) =
              BranchesIn(tr, i, n) \cup (IF tr2[n + 1].d.op \in {"elif", "else"} /\ LevelOf(tr2, n + 1) = LevelOf(tr, i)
                                         THEN {n + 1} ELSE {})
         /\ BranchesIn(tr, i, n) \subseteq i..n
         /\ \A j \in BranchesIn(tr, i, n) : (HoldsIn(tr2, j) <=> HoldsIn(tr, j)) /\ tr2[j] = tr[j]
  <1>1. /\ n \in Nat /\ i \in i..n /\ i..(n + 1) = (i..n) \cup {n + 1}
        /\ \A j \in i..n : tr2[j] = tr[j] /\ LevelOf(tr2, j) = LevelOf(tr, j) /\ LevelOf(tr, j) \in Int
    <2>1. n \in Nat /\ \A j \in 1..n : tr2[j] = tr[j]
      BY DEF Unaltered
    <2>2. \A j \in i..n : j \in 1..n /\ j \in 0..n
      BY <2>1
    <2>3. \A j \in i..n : LevelOf(tr2, j) = LevelOf(tr, j) /\ LevelOf(tr, j) \in Int
      BY <2>2, SameLevels
    <2>4. i \in i..n /\ i..(n + 1) = (i..n) \cup {n + 1}
      BY <2>1
    <2>5. QED
      BY <2>1, <2>2, <2>3, <2>4
  <1>2. OpenIn(tr2, i, n + 1) <=> OpenIn(tr, i, n) /\ LevelOf(tr2, n + 1) >= LevelOf(tr, i)
    BY <1>1 DEF OpenIn
  <1>3. BranchesIn(tr, i, n) \subseteq i..n
    BY <1>1 DEF BranchesIn
  <1>4. BranchesIn(tr2, i, n + 1) =
              BranchesIn(tr, i, n) \cup (IF tr2[n + 1].d.op \in {"elif", "else"} /\ LevelOf(tr2, n + 1) = LevelOf(tr, i)
                                         THEN {n + 1} ELSE {})
    BY <1>1 DEF BranchesIn
  <1>5. \A j \in BranchesIn(tr, i, n) : (HoldsIn(tr2, j) <=> HoldsIn(tr, j)) /\ tr2[j] = tr[j]
    BY <1>1, <1>3 DEF HoldsIn
  <1>6. QED
    BY <1>1, <1>2, <1>3, <1>4, <1>5

LEMMA LongerNew ==
  ASSUME NEW tr2, NEW n \in Nat
  PROVE  /\ OpenIn(tr2, n + 1, n + 1) <=> tr2[n + 1].d.op = "if"
         /\ BranchesIn(tr2, n + 1, n + 1) = {n + 1}
  <1>1. (n + 1)..(n + 1) = {n + 1} /\ LevelOf(tr2, n + 1) \in Int
    BY LevelAt
  <1>2. QED
    BY <1>1 DEF OpenIn, BranchesIn

(* Open conditions of the same level are the same one.                     *)
LEMMA OpenIsOne ==
  ASSUME NEW tr, NEW n \in Nat, NEW i \in 1..n, NEW h \in 1..n, OpenIn(tr, i, n), OpenIn(tr, h, n),
         LevelOf(tr, i) = LevelOf(tr, h)
  PROVE  i = h
  <1>1. ASSUME NEW a \in 1..n, NEW b \in 1..n, OpenIn(tr, a, n), tr[b].d.op = "if", a < b
        PROVE  LevelOf(tr, b) > LevelOf(tr, a)
    <2>1. b - 1 \in Nat /\ b - 1 \in a..n /\ (b - 1) + 1 = b /\ a \in Nat
      BY <1>1
    <2>2. LevelOf(tr, b) = LevelOf(tr, b - 1) + 1 /\ LevelOf(tr, b - 1) \in Int /\ LevelOf(tr, a) \in Int
      BY <1>1, <2>1, LevelAt
    <2>3. LevelOf(tr, b - 1) >= LevelOf(tr, a)
      BY <1>1, <2>1 DEF OpenIn
    <2>4. QED
      BY <2>2, <2>3
  <1>2. LevelOf(tr, i) \in Int /\ tr[i].d.op = "if" /\ tr[h].d.op = "if"
    BY LevelAt DEF OpenIn
  <1>3. i < h \/ h < i \/ i = h
    OBVIOUS
  <1>4. QED
    BY <1>1, <1>2, <1>3

(* A directive that is no branch of a group, and one that is.              *)
LEMMA GroupKept ==
  ASSUME NEW tr, NEW tr2, NEW n, Unaltered(tr, tr2, n), NEW i \in 1..n,
         ~(tr2[n + 1].d.op \in {"elif", "else"} /\ LevelOf(tr2, n + 1) = LevelOf(tr, i))
  PROVE  /\ SelectedIn(tr2, i, n + 1) <=> SelectedIn(tr, i, n)
         /\ HasElse(tr2, i, n + 1) <=> HasElse(tr, i, n)
         /\ SomeHolds(tr2, i, n + 1) <=> SomeHolds(tr, i, n)
  <1>1. /\ BranchesIn(tr2, i, n + 1) = BranchesIn(tr, i, n)
        /\ \A j \in BranchesIn(tr, i, n) : (HoldsIn(tr2, j) <=> HoldsIn(tr, j)) /\ tr2[j] = tr[j]
    BY LongerOpen
  <1>2. QED
    BY <1>1 DEF SelectedIn, HasElse, SomeHolds

LEMMA GroupGrown ==
  ASSUME NEW tr, NEW tr2, NEW n, Unaltered(tr, tr2, n), NEW i \in 1..n,
         tr2[n + 1].d.op \in {"elif", "else"}, LevelOf(tr2, n + 1) = LevelOf(tr, i)
  PROVE  /\ SelectedIn(tr2, i, n + 1) <=> HoldsIn(tr2, n + 1) /\ ~SomeHolds(tr, i, n)
         /\ HasElse(tr2, i, n + 1) <=> HasElse(tr, i, n) \/ tr2[n + 1].d.op = "else"
         /\ SomeHolds(tr2, i, n + 1) <=> SomeHolds(tr, i, n) \/ HoldsIn(tr2, n + 1)
  <1>1. /\ BranchesIn(tr2, i, n + 1) = BranchesIn(tr, i, n) \cup {n + 1}
        /\ BranchesIn(tr, i, n) \subseteq i..n
        /\ \A j \in BranchesIn(tr, i, n) : (HoldsIn(tr2, j) <=> HoldsIn(tr, j)) /\ tr2[j] = tr[j]
    BY LongerOpen
  <1>2. n \in Nat
    BY DEF Unaltered
  <1>3. /\ \A j \in BranchesIn(tr, i, n) : ~(n + 1 <= j) /\ j <= n + 1
        /\ n + 1 <= n + 1
    BY <1>1, <1>2
  <1>4. SelectedIn(tr2, i, n + 1) <=> HoldsIn(tr2, n + 1) /\ ~SomeHolds(tr, i, n)
    BY <1>1, <1>3 DEF SelectedIn, SomeHolds
  <1>5. QED
    BY <1>1, <1>4 DEF HasElse, SomeHolds

-----------------------------------------------------------------------------
(* What a directive that is not in error does to the conditions.           *)
Goes(tr, tr2, n, conds, inactive) == Unaltered(tr, tr2, n) /\ Conditions(tr, n, conds, inactive) /\ Len(conds) \in Nat

LEMMA OpenLevels ==
  ASSUME NEW tr, NEW tr2, NEW n, NEW conds, NEW inactive, Goes(tr, tr2, n, conds, inactive)
  PROVE  /\ n \in Nat /\ LevelOf(tr, n) = Len(conds) /\ Len(conds) \in Nat
         /\ \A i \in 1..n : OpenIn(tr, i, n) => LevelOf(tr, i) \in 1..Len(conds)
         /\ \A m \in 1..Len(conds) : \E i \in 1..n : OpenIn(tr, i, n) /\ LevelOf(tr, i) = m
         /\ \A i, h \in 1..n : OpenIn(tr, i, n) /\ OpenIn(tr, h, n) /\ LevelOf(tr, i) = LevelOf(tr, h) => i = h
         /\ inactive <=> \E i \in 1..n : OpenIn(tr, i, n) /\ ~SelectedIn(tr, i, n)
         /\ \A i \in 1..n : OpenIn(tr, i, n) => Tracks(conds[LevelOf(tr, i)], tr, i, n)
  <1>1. /\ n \in Nat /\ LevelOf(tr, n) = Len(conds) /\ Len(conds) \in Nat
        /\ \A k \in 0..n : LevelOf(tr, k) >= 0
    BY DEF Goes, Unaltered, Conditions
  <1>2. ASSUME NEW i \in 1..n, OpenIn(tr, i, n) PROVE LevelOf(tr, i) \in 1..Len(conds)
    <2>1. i - 1 \in Nat /\ i - 1 \in 0..n /\ (i - 1) + 1 = i /\ n \in i..n /\ i \in Nat
      BY <1>1
    <2>2. LevelOf(tr, i) = LevelOf(tr, i - 1) + 1 /\ LevelOf(tr, i - 1) \in Int
      BY <1>2, <2>1, LevelAt DEF OpenIn
    <2>3. LevelOf(tr, n) >= LevelOf(tr, i) /\ LevelOf(tr, i - 1) >= 0
      BY <1>1, <1>2, <2>1 DEF OpenIn
    <2>4. QED
      BY <1>1, <2>2, <2>3
  <1>3. \A i, h \in 1..n : OpenIn(tr, i, n) /\ OpenIn(tr, h, n) /\ LevelOf(tr, i) = LevelOf(tr, h) => i = h
    BY <1>1, OpenIsOne
  <1>4. QED
    BY <1>1, <1>2, <1>3 DEF Goes, Conditions, ActiveIn

(* The conditions after it, from what is open then.                        *)
LEMMA ConditionsAgain ==
  ASSUME NEW tr, NEW tr2, NEW n, NEW conds, NEW inactive, Goes(tr, tr2, n, conds, inactive),
         NEW conds2, NEW inactive2, Len(conds2) \in Nat, LevelOf(tr2, n + 1) = Len(conds2),
         \A m \in 1..Len(conds2) : \E i \in 1..(n + 1) : OpenIn(tr2, i, n + 1) /\ LevelOf(tr2, i) = m,
         inactive2 <=> \E i \in 1..(n + 1) : OpenIn(tr2, i, n + 1) /\ ~SelectedIn(tr2, i, n + 1),
         \A i \in 1..(n + 1) : OpenIn(tr2, i, n + 1) => Tracks(conds2[LevelOf(tr2, i)], tr2, i, n + 1)
  PROVE  Conditions(tr2, n + 1, conds2, inactive2)
  <1>1. n \in Nat /\ \A k \in 0..n : LevelOf(tr, k) >= 0
    BY DEF Goes, Unaltered, Conditions
  <1>2. \A k \in 0..n : LevelOf(tr2, k) = LevelOf(tr, k)
    BY SameLevels DEF Goes
  <1>3. \A k \in 0..(n + 1) : k \in 0..n \/ k = n + 1
    BY <1>1
  <1>4. \A k \in 0..(n + 1) : LevelOf(tr2, k) >= 0
    <2>1. LevelOf(tr2, n + 1) >= 0
      OBVIOUS
    <2>2. QED
      BY <1>1, <1>2, <1>3, <2>1
  <1>5. QED
    BY <1>4 DEF Conditions, ActiveIn

LEMMA StepPlain ==
  ASSUME NEW tr, NEW tr2, NEW n, NEW conds, NEW inactive, Goes(tr, tr2, n, conds, inactive),
         tr2[n + 1].d.op \notin {"if", "elif", "else", "endif"}
  PROVE  Conditions(tr2, n + 1, conds, inactive)
  <1>1. Unaltered(tr, tr2, n) /\ n \in Nat /\ Len(conds) \in Nat
    BY DEF Goes, Unaltered
  <1>2. LevelOf(tr2, n + 1) = Len(conds)
    BY <1>1, LongerLevel, OpenLevels
  <1>3. \A i \in 1..n : /\ OpenIn(tr2, i, n + 1) <=> OpenIn(tr, i, n)
                        /\ LevelOf(tr2, i) = LevelOf(tr, i)
    <2>1. \A i \in 1..n : OpenIn(tr, i, n) => LevelOf(tr, i) \in 1..Len(conds)
      BY OpenLevels
    <2>2. QED
      BY <1>1, <1>2, <2>1, LongerOpen
  <1>4. \A i \in 1..n : /\ SelectedIn(tr2, i, n + 1) <=> SelectedIn(tr, i, n)
                        /\ HasElse(tr2, i, n + 1) <=> HasElse(tr, i, n)
                        /\ SomeHolds(tr2, i, n + 1) <=> SomeHolds(tr, i, n)
    BY <1>1, GroupKept
  <1>5. ~OpenIn(tr2, n + 1, n + 1)
    BY <1>1, LongerNew
  <1>6. \A i : i \in 1..(n + 1) <=> i \in 1..n \/ i = n + 1
    BY <1>1
  <1>7. \A i \in 1..n : Outside(tr2, i, n + 1) <=> Outside(tr, i, n)
    BY <1>3, <1>4, <1>5, <1>6 DEF Outside
  <1>8. \A i \in 1..(n + 1) : OpenIn(tr2, i, n + 1) => Tracks(conds[LevelOf(tr2, i)], tr2, i, n + 1)
    <2>1. \A i \in 1..n : OpenIn(tr, i, n) => Tracks(conds[LevelOf(tr, i)], tr, i, n)
      BY OpenLevels
    <2>2. QED
      BY <2>1, <1>3, <1>4, <1>5, <1>6, <1>7 DEF Tracks
  <1>9. inactive <=> \E i \in 1..(n + 1) : OpenIn(tr2, i, n + 1) /\ ~SelectedIn(tr2, i, n + 1)
    BY <1>3, <1>4, <1>5, <1>6, OpenLevels
  <1>10. \A m \in 1..Len(conds) : \E i \in 1..(n + 1) : OpenIn(tr2, i, n + 1) /\ LevelOf(tr2, i) = m
    BY <1>3, <1>6, OpenLevels
  <1>11. QED
    BY <1>1, <1>2, <1>8, <1>9, <1>10, ConditionsAgain

LEMMA StepIf ==
  ASSUME NEW tr, NEW tr2, NEW n, NEW conds, NEW inactive, Goes(tr, tr2, n, conds, inactive),
         tr2[n + 1].d.op = "if", NEW conds2, NEW inactive2,
         Len(conds2) = Len(conds) + 1, \A m \in 1..Len(conds) : conds2[m] = conds[m],
         NEW c, conds2[Len(conds) + 1] = c, c.parent_inactive <=> inactive, c.state = "if",
         ~inactive => (c.branch_taken <=> tr2[n + 1].true),
         inactive2 <=> inactive \/ ~tr2[n + 1].true
  PROVE  Conditions(tr2, n + 1, conds2, inactive2)
  <1>1. Unaltered(tr, tr2, n) /\ n \in Nat /\ Len(conds) \in Nat /\ Len(conds2) \in Nat
    BY DEF Goes, Unaltered
  <1>2. LevelOf(tr2, n + 1) = Len(conds) + 1
    BY <1>1, LongerLevel, OpenLevels
  <1>20. \A i \in 1..n : OpenIn(tr, i, n) => LevelOf(tr, i) \in 1..Len(conds)
    BY OpenLevels
  <1>3. \A i \in 1..n : /\ OpenIn(tr2, i, n + 1) <=> OpenIn(tr, i, n)
                        /\ LevelOf(tr2, i) = LevelOf(tr, i)
    BY <1>1, <1>2, <1>20, LongerOpen
  <1>4. \A i \in 1..n : /\ SelectedIn(tr2, i, n + 1) <=> SelectedIn(tr, i, n)
                        /\ HasElse(tr2, i, n + 1) <=> HasElse(tr, i, n)
                        /\ SomeHolds(tr2, i, n + 1) <=> SomeHolds(tr, i, n)
    BY <1>1, GroupKept
  <1>5. /\ OpenIn(tr2, n + 1, n + 1) /\ ~HasElse(tr2, n + 1, n + 1)
        /\ SomeHolds(tr2, n + 1, n + 1) <=> tr2[n + 1].true
        /\ SelectedIn(tr2, n + 1, n + 1) <=> tr2[n + 1].true
    <2>1. OpenIn(tr2, n + 1, n + 1) /\ BranchesIn(tr2, n + 1, n + 1) = {n + 1} /\ n + 1 <= n + 1
      BY <1>1, LongerNew
    <2>2. QED
      BY <2>1 DEF HasElse, SomeHolds, SelectedIn, HoldsIn
  <1>6. \A i : i \in 1..(n + 1) <=> i \in 1..n \/ i = n + 1
    BY <1>1
  <1>7. \A i \in 1..n : OpenIn(tr, i, n) => (Outside(tr2, i, n + 1) <=> Outside(tr, i, n))
    <2>1. \A i \in 1..n : OpenIn(tr, i, n) => ~(LevelOf(tr2, n + 1) < LevelOf(tr, i))
      BY <1>1, <1>2, <1>20
    <2>2. QED
      BY <2>1, <1>3, <1>4, <1>6 DEF Outside
  <1>8. Outside(tr2, n + 1, n + 1) <=> inactive
    <2>1. \A i \in 1..n : OpenIn(tr, i, n) => LevelOf(tr2, i) < LevelOf(tr2, n + 1)
      BY <1>1, <1>2, <1>3, <1>20
    <2>2. ~(LevelOf(tr2, n + 1) < LevelOf(tr2, n + 1))
      BY <1>1, <1>2
    <2>3. inactive <=> \E i \in 1..n : OpenIn(tr, i, n) /\ ~SelectedIn(tr, i, n)
      BY OpenLevels
    <2>4. QED
      BY <2>1, <2>2, <2>3, <1>3, <1>4, <1>6 DEF Outside
  <1>9. \A i \in 1..(n + 1) : OpenIn(tr2, i, n + 1) => Tracks(conds2[LevelOf(tr2, i)], tr2, i, n + 1)
    <2>1. \A i \in 1..n : OpenIn(tr, i, n) => Tracks(conds[LevelOf(tr, i)], tr, i, n)
      BY OpenLevels
    <2>2. \A i \in 1..n : OpenIn(tr, i, n) => conds2[LevelOf(tr, i)] = conds[LevelOf(tr, i)]
      BY <1>20
    <2>3. \A i \in 1..n : OpenIn(tr2, i, n + 1) => Tracks(conds2[LevelOf(tr2, i)], tr2, i, n + 1)
      BY <2>1, <2>2, <1>3, <1>4, <1>7 DEF Tracks
    <2>4. Tracks(c, tr2, n + 1, n + 1)
      BY <1>5, <1>8 DEF Tracks
    <2>5. QED
      BY <2>3, <2>4, <1>2, <1>6
  <1>10. inactive2 <=> \E i \in 1..(n + 1) : OpenIn(tr2, i, n + 1) /\ ~SelectedIn(tr2, i, n + 1)
    <2>1. inactive <=> \E i \in 1..n : OpenIn(tr, i, n) /\ ~SelectedIn(tr, i, n)
      BY OpenLevels
    <2>2. QED
      BY <2>1, <1>3, <1>4, <1>5, <1>6
  <1>11. \A m \in 1..Len(conds2) : \E i \in 1..(n + 1) : OpenIn(tr2, i, n + 1) /\ LevelOf(tr2, i) = m
    <2>1. \A m \in 1..Len(conds) : \E i \in 1..n : OpenIn(tr, i, n) /\ LevelOf(tr, i) = m
      BY OpenLevels
    <2>2. \A m \in 1..Len(conds2) : m \in 1..Len(conds) \/ m = Len(conds) + 1
      BY <1>1
    <2>3. QED
      BY <2>1, <2>2, <1>2, <1>3, <1>5, <1>6
  <1>12. QED
    BY <1>1, <1>2, <1>9, <1>10, <1>11, ConditionsAgain

LEMMA StepBranch ==
  ASSUME NEW tr, NEW tr2, NEW n, NEW conds, NEW inactive, Goes(tr, tr2, n, conds, inactive),
         tr2[n + 1].d.op \in {"elif", "else"}, NEW conds2, NEW inactive2,
         Len(conds) # 0, Len(conds2) = Len(conds), \A m \in 1..Len(conds) : m # Len(conds) => conds2[m] = conds[m],
         NEW c, NEW e, conds[Len(conds)] = c, conds2[Len(conds)] = e,
         c.state # "else", (e.state = "else") <=> tr2[n + 1].d.op = "else",
         e.parent_inactive <=> c.parent_inactive,
         ~c.parent_inactive /\ e.state # "else" => (e.branch_taken <=> c.branch_taken \/ tr2[n + 1].true),
         inactive2 <=> c.parent_inactive \/ c.branch_taken \/ ~HoldsIn(tr2, n + 1)
  PROVE  Conditions(tr2, n + 1, conds2, inactive2)
  <1>1. Unaltered(tr, tr2, n) /\ n \in Nat /\ Len(conds) \in Nat /\ Len(conds2) \in Nat /\ Len(conds) \in 1..Len(conds)
    BY DEF Goes, Unaltered
  <1>2. LevelOf(tr2, n + 1) = Len(conds)
    <2>1. tr2[n + 1].d.op \notin {"if", "endif"}
      OBVIOUS
    <2>2. LevelOf(tr2, n + 1) = LevelOf(tr, n)
      BY <1>1, <2>1, LongerLevel
    <2>3. QED
      BY <2>2, OpenLevels
  <1>20. \A i \in 1..n : OpenIn(tr, i, n) => LevelOf(tr, i) \in 1..Len(conds)
    BY OpenLevels
  <1>3. \A i \in 1..n : /\ OpenIn(tr2, i, n + 1) <=> OpenIn(tr, i, n)
                        /\ LevelOf(tr2, i) = LevelOf(tr, i)
    BY <1>1, <1>2, <1>20, LongerOpen
  <1>21. PICK t \in 1..n : OpenIn(tr, t, n) /\ LevelOf(tr, t) = Len(conds)
    BY <1>1, OpenLevels
  <1>22. \A i \in 1..n : OpenIn(tr, i, n) /\ i # t => LevelOf(tr, i) # Len(conds)
    BY <1>21, OpenLevels
  <1>4. \A i \in 1..n : OpenIn(tr, i, n) /\ i # t =>
          /\ SelectedIn(tr2, i, n + 1) <=> SelectedIn(tr, i, n)
          /\ HasElse(tr2, i, n + 1) <=> HasElse(tr, i, n)
          /\ SomeHolds(tr2, i, n + 1) <=> SomeHolds(tr, i, n)
    BY <1>1, <1>2, <1>22, GroupKept
  <1>5. /\ SelectedIn(tr2, t, n + 1) <=> HoldsIn(tr2, n + 1) /\ ~SomeHolds(tr, t, n)
        /\ HasElse(tr2, t, n + 1) <=> HasElse(tr, t, n) \/ tr2[n + 1].d.op = "else"
        /\ SomeHolds(tr2, t, n + 1) <=> SomeHolds(tr, t, n) \/ HoldsIn(tr2, n + 1)
    BY <1>1, <1>2, <1>21, GroupGrown
  <1>6. \A i : i \in 1..(n + 1) <=> i \in 1..n \/ i = n + 1
    BY <1>1
  <1>7. ~OpenIn(tr2, n + 1, n + 1)
    BY <1>1, LongerNew
  <1>8. \A i \in 1..n : OpenIn(tr, i, n) => (Outside(tr2, i, n + 1) <=> Outside(tr, i, n))
    <2>1. \A i \in 1..n : OpenIn(tr, i, n) => ~(LevelOf(tr, t) < LevelOf(tr, i))
      BY <1>1, <1>20, <1>21
    <2>2. QED
      BY <2>1, <1>3, <1>4, <1>6, <1>7 DEF Outside
  <1>9. /\ c.parent_inactive <=> Outside(tr, t, n)
        /\ (c.state = "else") <=> HasElse(tr, t, n)
        /\ ~c.parent_inactive => (c.branch_taken <=> SomeHolds(tr, t, n))
    <2>1. Tracks(c, tr, t, n)
      BY <1>21, OpenLevels
    <2>2. QED
      BY <2>1 DEF Tracks
  <1>10. \A i \in 1..(n + 1) : OpenIn(tr2, i, n + 1) => Tracks(conds2[LevelOf(tr2, i)], tr2, i, n + 1)
    <2>1. \A i \in 1..n : OpenIn(tr, i, n) => Tracks(conds[LevelOf(tr, i)], tr, i, n)
      BY OpenLevels
    <2>2. \A i \in 1..n : OpenIn(tr, i, n) /\ i # t => conds2[LevelOf(tr, i)] = conds[LevelOf(tr, i)]
      BY <1>20, <1>22
    <2>3. \A i \in 1..n : OpenIn(tr2, i, n + 1) /\ i # t => Tracks(conds2[LevelOf(tr2, i)], tr2, i, n + 1)
      BY <2>1, <2>2, <1>3, <1>4, <1>8 DEF Tracks
    <2>4. Tracks(e, tr2, t, n + 1)
      <3>1. e.state # "else" => (HoldsIn(tr2, n + 1) <=> tr2[n + 1].true)
        BY DEF HoldsIn
      <3>2. Outside(tr2, t, n + 1) <=> Outside(tr, t, n)
        BY <1>8, <1>21
      <3>3. QED
        BY <1>5, <1>9, <3>1, <3>2 DEF Tracks
    <2>5. QED
      BY <2>3, <2>4, <1>3, <1>6, <1>7, <1>21
  <1>11. inactive2 <=> \E i \in 1..(n + 1) : OpenIn(tr2, i, n + 1) /\ ~SelectedIn(tr2, i, n + 1)
    <2>1. Outside(tr, t, n) <=> \E i \in 1..n : i # t /\ OpenIn(tr, i, n) /\ ~SelectedIn(tr, i, n)
      <3>1. \A i \in 1..n : OpenIn(tr, i, n) => (i # t <=> LevelOf(tr, i) < LevelOf(tr, t))
        BY <1>1, <1>20, <1>21, <1>22
      <3>2. QED
        BY <3>1 DEF Outside
    <2>2. inactive2 <=> Outside(tr, t, n) \/ ~SelectedIn(tr2, t, n + 1)
      BY <1>5, <1>9
    <2>3. QED
      BY <2>1, <2>2, <1>3, <1>4, <1>6, <1>7, <1>21
  <1>12. \A m \in 1..Len(conds2) : \E i \in 1..(n + 1) : OpenIn(tr2, i, n + 1) /\ LevelOf(tr2, i) = m
    BY <1>3, <1>6, OpenLevels
  <1>13. QED
    BY <1>1, <1>2, <1>10, <1>11, <1>12, ConditionsAgain

LEMMA StepEndif ==
  ASSUME NEW tr, NEW tr2, NEW n, NEW conds, NEW inactive, Goes(tr, tr2, n, conds, inactive),
         tr2[n + 1].d.op = "endif", NEW conds2, NEW inactive2,
         Len(conds) # 0, Len(conds2) = Len(conds) - 1, \A m \in 1..(Len(conds) - 1) : conds2[m] = conds[m],
         inactive2 <=> conds[Len(conds)].parent_inactive
  PROVE  Conditions(tr2, n + 1, conds2, inactive2)
  <1>1. Unaltered(tr, tr2, n) /\ n \in Nat /\ Len(conds) \in Nat /\ Len(conds2) \in Nat /\ Len(conds) \in 1..Len(conds)
    BY DEF Goes, Unaltered
  <1>2. LevelOf(tr2, n + 1) = Len(conds) - 1
    BY <1>1, LongerLevel, OpenLevels
  <1>20. \A i \in 1..n : OpenIn(tr, i, n) => LevelOf(tr, i) \in 1..Len(conds)
    BY OpenLevels
  <1>3. \A i \in 1..n : /\ OpenIn(tr2, i, n + 1) <=> OpenIn(tr, i, n) /\ LevelOf(tr, i) # Len(conds)
                        /\ LevelOf(tr2, i) = LevelOf(tr, i)
    BY <1>1, <1>2, <1>20, LongerOpen
  <1>21. PICK t \in 1..n : OpenIn(tr, t, n) /\ LevelOf(tr, t) = Len(conds)
    BY <1>1, OpenLevels
  <1>4. \A i \in 1..n : /\ SelectedIn(tr2, i, n + 1) <=> SelectedIn(tr, i, n)
                        /\ HasElse(tr2, i, n + 1) <=> HasElse(tr, i, n)
                        /\ SomeHolds(tr2, i, n + 1) <=> SomeHolds(tr, i, n)
    BY <1>1, GroupKept
  <1>6. \A i : i \in 1..(n + 1) <=> i \in 1..n \/ i = n + 1
    BY <1>1
  <1>7. ~OpenIn(tr2, n + 1, n + 1)
    BY <1>1, LongerNew
  <1>8. \A i \in 1..n : OpenIn(tr, i, n) => (Outside(tr2, i, n + 1) <=> Outside(tr, i, n))
    <2>1. \A i, h \in 1..n : OpenIn(tr, i, n) /\ OpenIn(tr, h, n) /\ LevelOf(tr, h) < LevelOf(tr, i) => LevelOf(tr, h) # Len(conds)
      BY <1>1, <1>20
    <2>2. QED
      BY <2>1, <1>3, <1>4, <1>6, <1>7 DEF Outside
  <1>9. conds[Len(conds)].parent_inactive <=> Outside(tr, t, n)
    <2>1. Tracks(conds[Len(conds)], tr, t, n)
      BY <1>21, OpenLevels
    <2>2. QED
      BY <2>1 DEF Tracks
  <1>10. \A i \in 1..(n + 1) : OpenIn(tr2, i, n + 1) => Tracks(conds2[LevelOf(tr2, i)], tr2, i, n + 1)
    <2>1. \A i \in 1..n : OpenIn(tr, i, n) => Tracks(conds[LevelOf(tr, i)], tr, i, n)
      BY OpenLevels
    <2>2. \A i \in 1..n : OpenIn(tr2, i, n + 1) => conds2[LevelOf(tr, i)] = conds[LevelOf(tr, i)]
      <3>1. \A m \in 1..Len(conds) : m # Len(conds) => m \in 1..(Len(conds) - 1)
        BY <1>1
      <3>2. QED
        BY <3>1, <1>3, <1>20
    <2>3. \A i \in 1..n : OpenIn(tr2, i, n + 1) => Tracks(conds2[LevelOf(tr2, i)], tr2, i, n + 1)
      BY <2>1, <2>2, <1>3, <1>4, <1>8 DEF Tracks
    <2>5. QED
      BY <2>3, <1>6, <1>7
  <1>11. inactive2 <=> \E i \in 1..(n + 1) : OpenIn(tr2, i, n + 1) /\ ~SelectedIn(tr2, i, n + 1)
    <2>1. \A i \in 1..n : OpenIn(tr, i, n) => (LevelOf(tr, i) # Len(conds) <=> LevelOf(tr, i) < LevelOf(tr, t))
      BY <1>1, <1>20, <1>21
    <2>3. QED
      BY <2>1, <1>9, <1>3, <1>4, <1>6, <1>7 DEF Outside
  <1>12. \A m \in 1..Len(conds2) : \E i \in 1..(n + 1) : OpenIn(tr2, i, n + 1) /\ LevelOf(tr2, i) = m
    <2>1. \A m \in 1..Len(conds2) : m \in 1..Len(conds) /\ m # Len(conds)
      BY <1>1
    <2>2. \A m \in 1..Len(conds) : \E i \in 1..n : OpenIn(tr, i, n) /\ LevelOf(tr, i) = m
      BY OpenLevels
    <2>3. QED
      BY <2>1, <2>2, <1>3, <1>6
  <1>13. QED
    BY <1>1, <1>2, <1>10, <1>11, <1>12, ConditionsAgain

-----------------------------------------------------------------------------
(* Where the files are read, after each kind of step. What is read is the  *)
(* next directive of the innermost file, which may be a new one.           *)
Feeds(tx, ps, tr, uses, tx2, tr2, d) ==
  /\ ps \in Seq(Places) /\ Len(ps) # 0 /\ tr \in Seq(Entries) /\ uses \in [Files -> Nat]
  /\ tx \in [Files -> Seq(AllDirectives)] /\ tx2 \in [Files -> Seq(AllDirectives)]
  /\ \A f \in Files : f # ps[Len(ps)].file => tx2[f] = tx[f]
  /\ LET f == ps[Len(ps)].file  p == ps[Len(ps)].pos IN
     /\ IF p = Len(tx[f]) THEN tx2[f] = Append(tx[f], d) ELSE tx2[f] = tx[f] /\ d = tx[f][p + 1]
     /\ Len(tr2) = Len(tr) + 1 /\ tr2[Len(tr) + 1].file = f /\ tr2[Len(tr) + 1].pos = p + 1
  /\ \A k \in 1..Len(tr) : tr2[k] = tr[k]

LEMMA FeedFacts ==
  ASSUME NEW tx, NEW ps, NEW tr, NEW uses, NEW tx2, NEW tr2, NEW d, NEW inactive,
         Feeds(tx, ps, tr, uses, tx2, tr2, d), ReadsIn(tx, ps, tr, uses, inactive)
  PROVE  LET f == ps[Len(ps)].file  p == ps[Len(ps)].pos  L == Len(ps)  T == Len(tr) IN
         /\ f \in Files /\ p \in Nat /\ L \in Nat /\ L # 0 /\ T \in Nat /\ L \in 1..L
         /\ \A i \in 1..L : ps[i].file \in Files /\ ps[i].pos \in Nat
         /\ \A k \in 1..T : tr[k].file \in Files /\ tr[k].pos \in Nat
         /\ \A g \in Files : Len(tx[g]) \in Nat /\ Len(tx2[g]) \in Nat /\ Len(tx[g]) <= Len(tx2[g])
         /\ p + 1 <= Len(tx2[f]) /\ Len(tx2[f]) <= Len(tx[f]) + 1
         /\ uses[f] \in Nat /\ uses[f] # 0
         /\ OnceOf(tx2, f) => OnceOf(tx, f) \/ tx[f] = <<>>
         /\ p = 0 /\ OnceOf(tx2, f) => d.op = "include_once"
         /\ \A i \in 1..L : ps[i].pos = 0 => i = L
         /\ Len(tr2) = T + 1 /\ tr2[T + 1].file = f /\ tr2[T + 1].pos = p + 1
         /\ \A k \in 1..(T + 1) : k = T + 1 \/ (k \in 1..T /\ tr2[k] = tr[k])
  <1> DEFINE L == Len(ps)
             f == ps[L].file
             p == ps[L].pos
             T == Len(tr)
  <1>1. /\ f \in Files /\ p \in Nat /\ L \in Nat /\ L # 0 /\ T \in Nat /\ L \in 1..L
        /\ \A i \in 1..L : ps[i].file \in Files /\ ps[i].pos \in Nat
        /\ \A k \in 1..T : tr[k].file \in Files /\ tr[k].pos \in Nat
    <2>1. ps \in Seq(Places) /\ L # 0 /\ tr \in Seq(Entries)
      BY DEF Feeds
    <2>2. L \in Nat /\ T \in Nat /\ (\A i \in 1..L : ps[i] \in Places) /\ \A k \in 1..T : tr[k] \in Entries
      BY <2>1
    <2>3. L \in 1..L
      BY <2>1, <2>2
    <2>4. QED
      BY <2>1, <2>2, <2>3 DEF Places, Entries
  <1>2. /\ tx \in [Files -> Seq(AllDirectives)] /\ tx2 \in [Files -> Seq(AllDirectives)]
        /\ \A g \in Files : g # f => tx2[g] = tx[g]
        /\ IF p = Len(tx[f]) THEN tx2[f] = Append(tx[f], d) ELSE tx2[f] = tx[f] /\ d = tx[f][p + 1]
        /\ p <= Len(tx[f])
        /\ Len(tr2) = T + 1 /\ tr2[T + 1].file = f /\ tr2[T + 1].pos = p + 1
        /\ \A k \in 1..T : tr2[k] = tr[k]
    BY <1>1 DEF Feeds, ReadsIn, Within
  <1>3. /\ uses[f] \in Nat /\ uses[f] # 0
        /\ \A i \in 1..L : ps[i].pos = 0 => i = L
    <2>1. uses \in [Files -> Nat] /\ Unused(ps, tr, uses) /\ FirstPlaces(ps, inactive)
      BY DEF Feeds, ReadsIn
    <2>2. QED
      BY <1>1, <2>1 DEF Unused, FirstPlaces
  <1> HIDE DEF L, f, p, T
  <1>4. tx[f] \in Seq(AllDirectives) /\ tx2[f] \in Seq(AllDirectives) /\ Len(tx[f]) \in Nat
    BY <1>1, <1>2
  <1>5. p + 1 <= Len(tx2[f]) /\ Len(tx2[f]) <= Len(tx[f]) + 1 /\ Len(tx[f]) <= Len(tx2[f]) /\ Len(tx2[f]) \in Nat
    BY <1>1, <1>2, <1>4
  <1>6. \A g \in Files : Len(tx[g]) \in Nat /\ Len(tx2[g]) \in Nat /\ Len(tx[g]) <= Len(tx2[g])
    BY <1>2, <1>5
  <1>7. /\ OnceOf(tx2, f) => OnceOf(tx, f) \/ tx[f] = <<>>
        /\ p = 0 /\ OnceOf(tx2, f) => d.op = "include_once"
    <2>1. CASE tx[f] = <<>>
      <3>1. p = 0 /\ tx2[f] = Append(tx[f], d) /\ tx2[f][1] = d
        BY <1>1, <1>2, <2>1
      <3>2. QED
        BY <3>1, <2>1 DEF OnceOf
    <2>2. CASE tx[f] # <<>>
      <3>1. Len(tx[f]) > 0
        BY <1>4, <2>2
      <3>2. tx2[f][1] = tx[f][1]
        <4>1. ASSUME NEW s \in Seq(AllDirectives), Len(s) > 0 PROVE Append(s, d)[1] = s[1]
          BY <4>1
        <4>2. Append(tx[f], d)[1] = tx[f][1]
          BY <4>1, <1>4, <3>1
        <4>3. QED
          BY <4>2, <1>2
      <3>3. p = 0 => d = tx[f][1]
        BY <1>2, <3>1
      <3>4. QED
        BY <2>2, <3>2, <3>3 DEF OnceOf
    <2>3. QED
      BY <2>1, <2>2
  <1>8. \A k \in 1..(T + 1) : k = T + 1 \/ (k \in 1..T /\ tr2[k] = tr[k])
    BY <1>1, <1>2
  <1>9. QED
    BY <1>1, <1>2, <1>3, <1>5, <1>6, <1>7, <1>8 DEF L, f, p, T

(* The place behind the directive.                                         *)
MovedOn(ps, ps2) ==
  /\ Len(ps2) = Len(ps) /\ \A i \in 1..Len(ps) : ps2[i].file = ps[i].file
  /\ \A i \in 1..Len(ps) : ps2[i].pos = IF i = Len(ps) THEN ps[i].pos + 1 ELSE ps[i].pos

LEMMA ReadMoved ==
  ASSUME NEW tx, NEW ps, NEW tr, NEW uses, NEW tx2, NEW tr2, NEW d, NEW inactive, NEW ps2, NEW inactive2,
         Feeds(tx, ps, tr, uses, tx2, tr2, d), ReadsIn(tx, ps, tr, uses, inactive), MovedOn(ps, ps2),
         ps[Len(ps)].pos = 0 /\ d.op = "include_once" => uses[ps[Len(ps)].file] = 1
  PROVE  ReadsIn(tx2, ps2, tr2, uses, inactive2) /\ \A i \in 1..Len(ps2) : ps2[i].pos # 0
  <1> DEFINE L == Len(ps)
             f == ps[L].file
             p == ps[L].pos
             T == Len(tr)
  <1>1. /\ f \in Files /\ p \in Nat /\ L \in Nat /\ L # 0 /\ T \in Nat /\ L \in 1..L
        /\ \A i \in 1..L : ps[i].file \in Files /\ ps[i].pos \in Nat
        /\ \A k \in 1..T : tr[k].file \in Files /\ tr[k].pos \in Nat
        /\ \A g \in Files : Len(tx[g]) \in Nat /\ Len(tx2[g]) \in Nat /\ Len(tx[g]) <= Len(tx2[g])
        /\ p + 1 <= Len(tx2[f]) /\ Len(tx2[f]) <= Len(tx[f]) + 1
        /\ uses[f] \in Nat /\ uses[f] # 0
        /\ OnceOf(tx2, f) => OnceOf(tx, f) \/ tx[f] = <<>>
        /\ p = 0 /\ OnceOf(tx2, f) => d.op = "include_once"
        /\ \A i \in 1..L : ps[i].pos = 0 => i = L
        /\ Len(tr2) = T + 1 /\ tr2[T + 1].file = f /\ tr2[T + 1].pos = p + 1
        /\ \A k \in 1..(T + 1) : k = T + 1 \/ (k \in 1..T /\ tr2[k] = tr[k])
    BY FeedFacts
  <1>2. /\ Len(ps2) = L /\ \A i \in 1..L : ps2[i].file = ps[i].file
        /\ \A i \in 1..L : ps2[i].pos = IF i = L THEN ps[i].pos + 1 ELSE ps[i].pos
    BY DEF MovedOn
  <1>3. /\ \A i \in 1..L : ps[i].pos <= Len(tx[ps[i].file])
        /\ \A k \in 1..T : tr[k].pos \in 1..Len(tx[tr[k].file])
        /\ Unused(ps, tr, uses) /\ UsedOnce(ps, tr, uses)
        /\ \A g \in Files : OnceOf(tx, g) => ReadOn(ps, tr, g)
    BY DEF ReadsIn, Within
  <1>4. \A g \in Files : g # f => tx2[g] = tx[g]
    BY DEF Feeds
  <1>5. p = 0 /\ d.op = "include_once" => uses[f] = 1
    OBVIOUS
  <1> HIDE DEF L, f, p, T
  <1>6. \A i \in 1..L : ps2[i].pos \in Nat /\ ps2[i].pos # 0
    BY <1>1, <1>2
  <1>7. Within(tx2, ps2, tr2)
    <2>1. \A i \in 1..L : ps2[i].pos <= Len(tx2[ps2[i].file])
      <3>1. ASSUME NEW i \in 1..L, i # L PROVE ps2[i].pos <= Len(tx2[ps2[i].file])
        <4>1. ps2[i].pos = ps[i].pos /\ ps2[i].file = ps[i].file /\ ps[i].pos <= Len(tx[ps[i].file])
          BY <3>1, <1>2, <1>3
        <4>2. ps[i].pos \in Nat /\ ps[i].file \in Files
          BY <1>1
        <4>3. /\ Len(tx[ps[i].file]) \in Nat /\ Len(tx2[ps[i].file]) \in Nat
              /\ Len(tx[ps[i].file]) <= Len(tx2[ps[i].file])
          BY <4>2, <1>1
        <4>4. QED
          BY <4>1, <4>2, <4>3
      <3>2. ps2[L].pos = p + 1 /\ ps2[L].file = f
        BY <1>1, <1>2 DEF f, p
      <3>3. QED
        BY <3>1, <3>2, <1>1
    <2>2. ASSUME NEW k \in 1..(T + 1) PROVE tr2[k].pos \in 1..Len(tx2[tr2[k].file])
      <3>1. CASE k = T + 1
        BY <3>1, <1>1
      <3>2. CASE k # T + 1
        <4>1. k \in 1..T /\ tr2[k] = tr[k]
          BY <3>2, <1>1
        <4>2. tr[k].pos \in 1..Len(tx[tr[k].file]) /\ tr[k].file \in Files
          BY <4>1, <1>1, <1>3
        <4>3. /\ Len(tx[tr[k].file]) \in Nat /\ Len(tx2[tr[k].file]) \in Nat
              /\ Len(tx[tr[k].file]) <= Len(tx2[tr[k].file])
          BY <4>2, <1>1
        <4>4. QED
          BY <4>1, <4>2, <4>3
      <3>3. QED
        BY <3>1, <3>2
    <2>3. QED
      BY <2>1, <2>2, <1>1, <1>2 DEF Within
  <1>8. FirstPlaces(ps2, inactive2)
    BY <1>2, <1>6 DEF FirstPlaces
  <1>9. Unused(ps2, tr2, uses)
    <2> SUFFICES ASSUME NEW g \in Files, uses[g] = 0
                 PROVE  (\A i \in 1..L : ps2[i].file # g) /\ \A k \in 1..(T + 1) : tr2[k].file # g
      BY <1>1, <1>2 DEF Unused
    <2>1. g # f
      BY <1>1
    <2>2. (\A i \in 1..L : ps[i].file # g) /\ \A k \in 1..T : tr[k].file # g
      BY <1>3 DEF Unused, L, T
    <2>3. QED
      BY <2>1, <2>2, <1>1, <1>2
  <1>10. UsedOnce(ps2, tr2, uses)
    <2> SUFFICES ASSUME NEW g \in Files, uses[g] = 1
                 PROVE  /\ \A i, j \in 1..L : ps2[i].file = g /\ ps2[j].file = g => i = j
                        /\ \A i \in 1..L, k \in 1..(T + 1) :
                             ps2[i].file = g /\ tr2[k].file = g => tr2[k].pos <= ps2[i].pos
      BY <1>1, <1>2 DEF UsedOnce
    <2>1. /\ \A i, j \in 1..L : ps[i].file = g /\ ps[j].file = g => i = j
          /\ \A i \in 1..L, k \in 1..T : ps[i].file = g /\ tr[k].file = g => tr[k].pos <= ps[i].pos
      BY <1>3 DEF UsedOnce, L, T
    <2>2. \A i \in 1..L, k \in 1..T : ps2[i].file = g /\ tr[k].file = g => tr[k].pos <= ps2[i].pos
      BY <2>1, <1>1, <1>2
    <2>3. \A i \in 1..L : ps2[i].file = g /\ g = f => ps2[i].pos = p + 1
      BY <2>1, <1>1, <1>2 DEF f, p
    <2>4. \A i, j \in 1..L : ps2[i].file = g /\ ps2[j].file = g => i = j
      BY <2>1, <1>2
    <2>5. ASSUME NEW i \in 1..L, NEW k \in 1..(T + 1), ps2[i].file = g, tr2[k].file = g
          PROVE  tr2[k].pos <= ps2[i].pos
      <3>1. CASE k = T + 1
        <4>1. g = f /\ tr2[k].pos = p + 1
          BY <2>5, <3>1, <1>1
        <4>2. QED
          BY <4>1, <2>3, <2>5, <1>1
      <3>2. CASE k # T + 1
        <4>1. k \in 1..T /\ tr2[k] = tr[k]
          BY <3>2, <1>1
        <4>2. QED
          BY <4>1, <2>2, <2>5
      <3>3. QED
        BY <3>1, <3>2
    <2>6. QED
      BY <2>4, <2>5
  <1>11. ASSUME NEW g \in Files, OnceOf(tx2, g) PROVE ReadOn(ps2, tr2, g)
    <2>1. CASE g # f
      <3>1. ReadOn(ps, tr, g)
        BY <1>3, <1>4, <1>11, <2>1 DEF OnceOf
      <3>2. \A i \in 1..L : ps2[i].file = g => ps2[i].pos = ps[i].pos /\ ps[i].file = g
        BY <2>1, <1>1, <1>2 DEF f
      <3>3. \A k \in 1..(T + 1) : tr2[k].file = g => k \in 1..T /\ tr2[k] = tr[k]
        BY <2>1, <1>1
      <3>4. /\ \A i, j \in 1..L : ps[i].file = g /\ ps[j].file = g /\ ps[i].pos > 0 /\ ps[j].pos > 0 => i = j
            /\ \A i \in 1..L, k \in 1..T : ps[i].file = g /\ ps[i].pos > 0 /\ tr[k].file = g => tr[k].pos <= ps[i].pos
            /\ \A j, k \in 1..T : tr[j].file = g /\ tr[k].file = g /\ tr[j].pos = tr[k].pos /\ tr[j].pos > 1 => j = k
        BY <3>1 DEF ReadOn, L, T
      <3>5. \A i, j \in 1..L : ps2[i].file = g /\ ps2[j].file = g /\ ps2[i].pos > 0 /\ ps2[j].pos > 0 => i = j
        BY <3>2, <3>4
      <3>6. \A i \in 1..L, k \in 1..(T + 1) :
              ps2[i].file = g /\ ps2[i].pos > 0 /\ tr2[k].file = g => tr2[k].pos <= ps2[i].pos
        BY <3>2, <3>3, <3>4
      <3>7. \A j, k \in 1..(T + 1) :
              tr2[j].file = g /\ tr2[k].file = g /\ tr2[j].pos = tr2[k].pos /\ tr2[j].pos > 1 => j = k
        BY <3>3, <3>4
      <3>8. QED
        BY <3>5, <3>6, <3>7, <1>1, <1>2 DEF ReadOn
    <2>2. CASE g = f
      <3>1. /\ \A i \in 1..L : ps[i].file = f => i = L
            /\ \A k \in 1..T : tr[k].file = f => tr[k].pos <= p
            /\ \A j, k \in 1..T : tr[j].file = f /\ tr[k].file = f /\ tr[j].pos = tr[k].pos /\ tr[j].pos > 1 => j = k
        <4>1. CASE tx[f] = <<>>
          <5>1. Len(tx[f]) = 0
            BY <4>1
          <5>2. \A i \in 1..L : ps[i].file = f => ps[i].pos = 0
            BY <5>1, <1>1, <1>3
          <5>3. \A k \in 1..T : tr[k].file # f
            BY <5>1, <1>3
          <5>4. QED
            BY <5>2, <5>3, <1>1
        <4>2. CASE OnceOf(tx, f) /\ p = 0
          <5>1. uses[f] = 1
            BY <1>1, <1>5, <1>11, <2>2, <4>2
          <5>2. /\ \A i, j \in 1..L : ps[i].file = f /\ ps[j].file = f => i = j
                /\ \A i \in 1..L, k \in 1..T : ps[i].file = f /\ tr[k].file = f => tr[k].pos <= ps[i].pos
            BY <5>1, <1>1, <1>3 DEF UsedOnce, L, T
          <5>3. ps[L].file = f /\ ps[L].pos = p
            BY DEF f, p
          <5>4. \A i \in 1..L : ps[i].file = f => i = L
            BY <5>2, <5>3, <1>1
          <5>5. \A k \in 1..T : tr[k].file = f => tr[k].pos <= p
            BY <5>2, <5>3, <1>1
          <5>6. \A k \in 1..T : tr[k].file = f => ~(tr[k].pos > 1)
            BY <5>5, <4>2, <1>1
          <5>7. QED
            BY <5>4, <5>5, <5>6
        <4>3. CASE OnceOf(tx, f) /\ p # 0
          <5>1. ReadOn(ps, tr, f)
            BY <4>3, <1>1, <1>3
          <5>2. /\ \A i, j \in 1..L : ps[i].file = f /\ ps[j].file = f /\ ps[i].pos > 0 /\ ps[j].pos > 0 => i = j
                /\ \A i \in 1..L, k \in 1..T : ps[i].file = f /\ ps[i].pos > 0 /\ tr[k].file = f => tr[k].pos <= ps[i].pos
                /\ \A j, k \in 1..T : tr[j].file = f /\ tr[k].file = f /\ tr[j].pos = tr[k].pos /\ tr[j].pos > 1 => j = k
            BY <5>1 DEF ReadOn, L, T
          <5>3. ps[L].file = f /\ ps[L].pos = p /\ p > 0
            BY <4>3, <1>1 DEF f, p
          <5>4. \A i \in 1..L : ps[i].file = f => ps[i].pos > 0 \/ i = L
            BY <1>1
          <5>5. \A i \in 1..L : ps[i].file = f => i = L
            BY <5>2, <5>3, <5>4, <1>1
          <5>6. \A k \in 1..T : tr[k].file = f => tr[k].pos <= p
            BY <5>2, <5>3, <1>1
          <5>7. QED
            BY <5>2, <5>5, <5>6
        <4>4. QED
          BY <4>1, <4>2, <4>3, <1>1, <1>11, <2>2
      <3>2. ps2[L].pos = p + 1
        BY <1>1, <1>2 DEF p
      <3>3. \A i \in 1..L : ps2[i].file = f => i = L
        BY <3>1, <1>2
      <3>4. \A i \in 1..L, k \in 1..(T + 1) : ps2[i].file = f /\ tr2[k].file = f => tr2[k].pos <= ps2[i].pos
        BY <3>1, <3>2, <3>3, <1>1
      <3>5. \A j, k \in 1..(T + 1) : tr2[j].file = f /\ tr2[k].file = f /\ tr2[j].pos = tr2[k].pos /\ tr2[j].pos > 1 => j = k
        <4>1. \A k \in 1..T : tr[k].file = f => tr[k].pos # p + 1
          BY <3>1, <1>1
        <4>2. QED
          BY <4>1, <3>1, <1>1
      <3>6. QED
        BY <2>2, <3>3, <3>4, <3>5, <1>1, <1>2 DEF ReadOn
    <2>3. QED
      BY <2>1, <2>2
  <1>12. QED
    BY <1>2, <1>6, <1>7, <1>8, <1>9, <1>10, <1>11 DEF ReadsIn

(* The place that goes away.                                               *)
Popped(ps, ps2) ==
  /\ Len(ps) \in Nat /\ Len(ps2) = Len(ps) - 1 /\ \A i \in 1..(Len(ps) - 1) : ps2[i] = ps[i]

LEMMA ReadReturned ==
  ASSUME NEW tx, NEW ps, NEW tr, NEW uses, NEW inactive, NEW ps2,
         ReadsIn(tx, ps, tr, uses, inactive), Popped(ps, ps2)
  PROVE  ReadsIn(tx, ps2, tr, uses, inactive) /\ \A i \in 1..Len(ps2) : ps2[i].pos # 0
  <1>1. /\ Len(ps) \in Nat /\ Len(ps2) = Len(ps) - 1
        /\ \A i \in 1..Len(ps2) : i \in 1..Len(ps) /\ ps2[i] = ps[i] /\ i # Len(ps)
    BY DEF Popped
  <1>2. Within(tx, ps2, tr)
    BY <1>1 DEF ReadsIn, Within
  <1>3. \A i \in 1..Len(ps2) : ps2[i].pos # 0
    BY <1>1 DEF ReadsIn, FirstPlaces
  <1>4. FirstPlaces(ps2, inactive)
    BY <1>3 DEF FirstPlaces
  <1>5. Unused(ps2, tr, uses)
    BY <1>1 DEF ReadsIn, Unused
  <1>6. UsedOnce(ps2, tr, uses)
    BY <1>1 DEF ReadsIn, UsedOnce
  <1>7. \A f \in Files : OnceOf(tx, f) => ReadOn(ps2, tr, f)
    BY <1>1 DEF ReadsIn, ReadOn
  <1>8. QED
    BY <1>2, <1>3, <1>4, <1>5, <1>6, <1>7 DEF ReadsIn

LEMMA ReadLeft ==
  ASSUME NEW tx, NEW ps, NEW tr, NEW uses, NEW tx2, NEW tr2, NEW d, NEW inactive, NEW ps2,
         Feeds(tx, ps, tr, uses, tx2, tr2, d), ReadsIn(tx, ps, tr, uses, inactive), Popped(ps, ps2),
         uses[ps[Len(ps)].file] > 1
  PROVE  ReadsIn(tx2, ps2, tr2, uses, inactive)
  <1> DEFINE L == Len(ps)
             M == Len(ps2)
             f == ps[L].file
             p == ps[L].pos
             T == Len(tr)
  <1>1. /\ f \in Files /\ p \in Nat /\ L \in Nat /\ L # 0 /\ T \in Nat /\ L \in 1..L
        /\ \A i \in 1..L : ps[i].file \in Files /\ ps[i].pos \in Nat
        /\ \A k \in 1..T : tr[k].file \in Files /\ tr[k].pos \in Nat
        /\ \A g \in Files : Len(tx[g]) \in Nat /\ Len(tx2[g]) \in Nat /\ Len(tx[g]) <= Len(tx2[g])
        /\ p + 1 <= Len(tx2[f]) /\ Len(tx2[f]) <= Len(tx[f]) + 1
        /\ uses[f] \in Nat /\ uses[f] # 0
        /\ OnceOf(tx2, f) => OnceOf(tx, f) \/ tx[f] = <<>>
        /\ p = 0 /\ OnceOf(tx2, f) => d.op = "include_once"
        /\ \A i \in 1..L : ps[i].pos = 0 => i = L
        /\ Len(tr2) = T + 1 /\ tr2[T + 1].file = f /\ tr2[T + 1].pos = p + 1
        /\ \A k \in 1..(T + 1) : k = T + 1 \/ (k \in 1..T /\ tr2[k] = tr[k])
    BY FeedFacts
  <1>2. \A i \in 1..M : i \in 1..L /\ ps2[i] = ps[i] /\ i # L
    BY <1>1 DEF Popped
  <1>3. /\ \A i \in 1..M : ps2[i].pos <= Len(tx[ps2[i].file]) /\ ps2[i].pos # 0
        /\ \A k \in 1..T : tr[k].pos \in 1..Len(tx[tr[k].file])
        /\ Unused(ps2, tr, uses) /\ UsedOnce(ps2, tr, uses)
        /\ \A g \in Files : OnceOf(tx, g) => ReadOn(ps2, tr, g)
    <2>1. ReadsIn(tx, ps2, tr, uses, inactive) /\ \A i \in 1..Len(ps2) : ps2[i].pos # 0
      BY ReadReturned
    <2>2. QED
      BY <2>1 DEF ReadsIn, Within
  <1>4. \A g \in Files : g # f => tx2[g] = tx[g]
    BY DEF Feeds
  <1>5. uses[f] > 1
    OBVIOUS
  <1>13. OnceOf(tx, f) /\ p > 0 => /\ \A i \in 1..L : ps[i].file = f /\ ps[i].pos > 0 => i = L
                                   /\ \A k \in 1..T : tr[k].file = f => tr[k].pos <= p
    <2>1. \A g \in Files : OnceOf(tx, g) => ReadOn(ps, tr, g)
      BY DEF ReadsIn
    <2>2. ReadOn(ps, tr, f) =>
            /\ \A i, j \in 1..L : ps[i].file = f /\ ps[j].file = f /\ ps[i].pos > 0 /\ ps[j].pos > 0 => i = j
            /\ \A i \in 1..L, k \in 1..T : ps[i].file = f /\ ps[i].pos > 0 /\ tr[k].file = f => tr[k].pos <= ps[i].pos
      BY DEF ReadOn
    <2>3. QED
      BY <2>1, <2>2, <1>1
  <1> HIDE DEF L, f, p, T, M
  <1>7. Within(tx2, ps2, tr2)
    <2>1. ASSUME NEW i \in 1..M PROVE ps2[i].pos <= Len(tx2[ps2[i].file])
      <3>1. ps2[i].pos <= Len(tx[ps2[i].file]) /\ ps2[i].pos \in Nat /\ ps2[i].file \in Files
        BY <1>1, <1>2, <1>3
      <3>2. QED
        BY <3>1, <1>1
    <2>2. ASSUME NEW k \in 1..(T + 1) PROVE tr2[k].pos \in 1..Len(tx2[tr2[k].file])
      <3>1. CASE k = T + 1
        BY <3>1, <1>1
      <3>2. CASE k # T + 1
        <4>1. k \in 1..T /\ tr2[k] = tr[k]
          BY <3>2, <1>1
        <4>2. tr[k].pos \in 1..Len(tx[tr[k].file]) /\ tr[k].file \in Files
          BY <4>1, <1>1, <1>3
        <4>3. /\ Len(tx[tr[k].file]) \in Nat /\ Len(tx2[tr[k].file]) \in Nat
              /\ Len(tx[tr[k].file]) <= Len(tx2[tr[k].file])
          BY <4>2, <1>1
        <4>4. QED
          BY <4>1, <4>2, <4>3
      <3>3. QED
        BY <3>1, <3>2
    <2>3. QED
      BY <2>1, <2>2, <1>1 DEF Within, M
  <1>8. FirstPlaces(ps2, inactive)
    BY <1>3 DEF FirstPlaces, M
  <1>9. Unused(ps2, tr2, uses)
    <2> SUFFICES ASSUME NEW g \in Files, uses[g] = 0
                 PROVE  (\A i \in 1..M : ps2[i].file # g) /\ \A k \in 1..(T + 1) : tr2[k].file # g
      BY <1>1 DEF Unused, M
    <2>1. g # f
      BY <1>1
    <2>2. (\A i \in 1..M : ps2[i].file # g) /\ \A k \in 1..T : tr[k].file # g
      BY <1>3 DEF Unused, M, T
    <2>3. QED
      BY <2>1, <2>2, <1>1
  <1>10. UsedOnce(ps2, tr2, uses)
    <2> SUFFICES ASSUME NEW g \in Files, uses[g] = 1
                 PROVE  /\ \A i, j \in 1..M : ps2[i].file = g /\ ps2[j].file = g => i = j
                        /\ \A i \in 1..M, k \in 1..(T + 1) :
                             ps2[i].file = g /\ tr2[k].file = g => tr2[k].pos <= ps2[i].pos
      BY <1>1 DEF UsedOnce, M
    <2>1. /\ \A i, j \in 1..M : ps2[i].file = g /\ ps2[j].file = g => i = j
          /\ \A i \in 1..M, k \in 1..T : ps2[i].file = g /\ tr[k].file = g => tr[k].pos <= ps2[i].pos
      BY <1>3 DEF UsedOnce, M, T
    <2>2. g # f
      BY <1>5
    <2>3. \A k \in 1..(T + 1) : tr2[k].file = g => k \in 1..T /\ tr2[k] = tr[k]
      BY <2>2, <1>1
    <2>4. QED
      BY <2>1, <2>3
  <1>11. ASSUME NEW g \in Files, OnceOf(tx2, g) PROVE ReadOn(ps2, tr2, g)
    <2>6. /\ \A i, j \in 1..M : ps2[i].file = g /\ ps2[j].file = g /\ ps2[i].pos > 0 /\ ps2[j].pos > 0 => i = j
          /\ \A i \in 1..M, k \in 1..(T + 1) : ps2[i].file = g /\ ps2[i].pos > 0 /\ tr2[k].file = g => tr2[k].pos <= ps2[i].pos
          /\ \A j, k \in 1..(T + 1) : tr2[j].file = g /\ tr2[k].file = g /\ tr2[j].pos = tr2[k].pos /\ tr2[j].pos > 1 => j = k
      <3>1. CASE OnceOf(tx, g)
        <4>1. /\ \A i, j \in 1..M : ps2[i].file = g /\ ps2[j].file = g /\ ps2[i].pos > 0 /\ ps2[j].pos > 0 => i = j
              /\ \A i \in 1..M, k \in 1..T : ps2[i].file = g /\ ps2[i].pos > 0 /\ tr[k].file = g => tr[k].pos <= ps2[i].pos
              /\ \A j, k \in 1..T : tr[j].file = g /\ tr[k].file = g /\ tr[j].pos = tr[k].pos /\ tr[j].pos > 1 => j = k
          BY <1>3, <3>1 DEF ReadOn, M, T
        <4>2. ASSUME NEW i \in 1..M, NEW k \in 1..(T + 1), ps2[i].file = g, ps2[i].pos > 0, tr2[k].file = g
              PROVE  tr2[k].pos <= ps2[i].pos
          <5>1. CASE k # T + 1
            BY <4>1, <4>2, <5>1, <1>1
          <5>2. CASE k = T + 1
            <6>1. g = f /\ tr2[k].pos = p + 1 /\ i \in 1..L /\ ps[i].file = f /\ ps[i].pos > 0 /\ i # L
              BY <4>2, <5>2, <1>1, <1>2
            <6>2. p = 0
              BY <6>1, <3>1, <1>1, <1>13
            <6>3. ps2[i].pos \in Nat
              BY <1>1, <1>2
            <6>4. QED
              BY <6>1, <6>2, <6>3, <4>2
          <5>3. QED
            BY <5>1, <5>2
        <4>3. \A k \in 1..T : tr[k].file = g /\ g = f => tr[k].pos # p + 1 \/ p = 0
          BY <3>1, <1>1, <1>13
        <4>4. \A j, k \in 1..(T + 1) : tr2[j].file = g /\ tr2[k].file = g /\ tr2[j].pos = tr2[k].pos /\ tr2[j].pos > 1 => j = k
          BY <4>1, <4>3, <1>1
        <4>5. QED
          BY <4>1, <4>2, <4>4
      <3>2. CASE ~OnceOf(tx, g)
        <4>1. g = f /\ tx[f] = <<>>
          BY <3>2, <1>1, <1>4, <1>11 DEF OnceOf
        <4>2. Len(tx[f]) = 0
          BY <4>1
        <4>3. \A i \in 1..M : ps2[i].file # f
          <5>1. \A i \in 1..M : ps2[i].pos <= Len(tx[ps2[i].file]) /\ ps2[i].pos # 0 /\ ps2[i].pos \in Nat
            BY <1>1, <1>2, <1>3
          <5>2. QED
            BY <4>2, <5>1
        <4>4. \A k \in 1..T : tr[k].file # f
          BY <4>2, <1>3
        <4>5. \A k \in 1..(T + 1) : tr2[k].file = f => k = T + 1
          BY <4>4, <1>1
        <4>6. QED
          BY <4>1, <4>3, <4>5
      <3>3. QED
        BY <3>1, <3>2
    <2>7. QED
      BY <2>6, <1>1 DEF ReadOn, M
  <1>12. QED
    BY <1>7, <1>8, <1>9, <1>10, <1>11 DEF ReadsIn

(* A place that comes, at the beginning of a file.                         *)
LEMMA ReadEntered ==
  ASSUME NEW tx, NEW ps, NEW tr, NEW uses, NEW inactive, NEW ps2, NEW uses2, NEW g \in Files,
         ReadsIn(tx, ps, tr, uses, inactive), \A i \in 1..Len(ps) : ps[i].pos # 0,
         Len(ps) \in Nat, Len(ps2) = Len(ps) + 1, \A i \in 1..Len(ps) : ps2[i] = ps[i],
         ps2[Len(ps) + 1].file = g, ps2[Len(ps) + 1].pos = 0, Len(tx[g]) \in Nat,
         uses \in [Files -> Nat], uses2 = [uses EXCEPT ![g] = @ + 1], ~inactive
  PROVE  ReadsIn(tx, ps2, tr, uses2, inactive)
  <1> DEFINE L == Len(ps)
  <1>1. \A i \in 1..(L + 1) : i = L + 1 \/ (i \in 1..L /\ ps2[i] = ps[i])
    OBVIOUS
  <1>2. /\ L \in Nat /\ Len(ps2) = L + 1 /\ ps2[L + 1].file = g /\ ps2[L + 1].pos = 0
        /\ \A i \in 1..L : ps[i].pos # 0
    OBVIOUS
  <1>3. /\ Within(tx, ps, tr) /\ Unused(ps, tr, uses) /\ UsedOnce(ps, tr, uses)
        /\ \A f \in Files : OnceOf(tx, f) => ReadOn(ps, tr, f)
    BY DEF ReadsIn
  <1>4. \A f \in Files : uses2[f] \in Nat /\ uses2[f] = IF f = g THEN uses[g] + 1 ELSE uses[f]
    OBVIOUS
  <1>10. uses[g] \in Nat
    OBVIOUS
  <1>5. Within(tx, ps2, tr)
    BY <1>1, <1>2, <1>3 DEF Within
  <1>6. FirstPlaces(ps2, inactive)
    BY <1>1, <1>2 DEF FirstPlaces
  <1>7. Unused(ps2, tr, uses2)
    BY <1>1, <1>2, <1>3, <1>4, <1>10 DEF Unused
  <1>8. UsedOnce(ps2, tr, uses2)
    <2> SUFFICES ASSUME NEW f \in Files, uses2[f] = 1
                 PROVE  /\ \A i, j \in 1..(L + 1) : ps2[i].file = f /\ ps2[j].file = f => i = j
                        /\ \A i \in 1..(L + 1), k \in 1..Len(tr) : ps2[i].file = f /\ tr[k].file = f => tr[k].pos <= ps2[i].pos
      BY <1>2 DEF UsedOnce
    <2>1. CASE f = g
      <3>1. uses[g] = 0
        BY <2>1, <1>4, <1>10
      <3>2. (\A i \in 1..L : ps[i].file # g) /\ \A k \in 1..Len(tr) : tr[k].file # g
        BY <3>1, <1>3 DEF Unused
      <3>3. QED
        BY <3>2, <2>1, <1>1
    <2>2. CASE f # g
      <3>1. uses[f] = 1
        BY <2>2, <1>4
      <3>2. /\ \A i, j \in 1..L : ps[i].file = f /\ ps[j].file = f => i = j
            /\ \A i \in 1..L, k \in 1..Len(tr) : ps[i].file = f /\ tr[k].file = f => tr[k].pos <= ps[i].pos
        BY <3>1, <1>3 DEF UsedOnce
      <3>3. \A i \in 1..(L + 1) : ps2[i].file = f => i \in 1..L /\ ps2[i] = ps[i]
        BY <2>2, <1>1, <1>2
      <3>4. QED
        BY <3>2, <3>3
    <2>3. QED
      BY <2>1, <2>2
  <1>9. ASSUME NEW f \in Files, OnceOf(tx, f) PROVE ReadOn(ps2, tr, f)
    <2>1. ReadOn(ps, tr, f)
      BY <1>3, <1>9
    <2>2. \A i \in 1..(L + 1) : ps2[i].pos > 0 => i \in 1..L /\ ps2[i] = ps[i]
      BY <1>1, <1>2
    <2>3. QED
      BY <2>1, <2>2, <1>2 DEF ReadOn
  <1>11. QED
    BY <1>5, <1>6, <1>7, <1>8, <1>9 DEF ReadsIn

-----------------------------------------------------------------------------
(* What the conditional directives make of the stack.                      *)
LEMMA FrontOf ==
  ASSUME NEW S, NEW s \in Seq(S), s # <<>>
  PROVE  /\ Front(s) \in Seq(S) /\ Len(s) \in Nat /\ Len(s) # 0 /\ Len(Front(s)) = Len(s) - 1
         /\ \A i \in 1..(Len(s) - 1) : Front(s)[i] = s[i]
         /\ Last(s) = s[Len(s)] /\ Last(s) \in S
  <1>1. Len(s) \in Nat /\ Len(s) # 0 /\ Len(s) \in 1..Len(s)
    <2>1. Len(s) \in Nat /\ Len(s) # 0
      OBVIOUS
    <2>2. QED
      BY <2>1
  <1>2. s[Len(s)] \in S
    BY <1>1
  <1>3. PICK k \in Nat : k = Len(s) - 1
    BY <1>1
  <1>4. Front(s) = SubSeq(s, 1, k)
    BY <1>3 DEF Front
  <1>5. SubSeq(s, 1, k) \in Seq(S) /\ Len(SubSeq(s, 1, k)) = k /\ \A i \in 1..k : SubSeq(s, 1, k)[i] = s[i]
    BY <1>1, <1>3
  <1>6. QED
    BY <1>1, <1>2, <1>3, <1>4, <1>5 DEF Last

LEMMA TruthIsTruth == ASSUME NEW t PROVE Truth(t) \in BOOLEAN
  <1>1. CASE t = "true"
    BY <1>1 DEF Truth
  <1>2. CASE t = "false"
    BY <1>2 DEF Truth
  <1>3. CASE t = "defined"
    BY <1>3 DEF Truth
  <1>4. CASE t = "undefined"
    BY <1>4 DEF Truth
  <1>5. CASE t \notin {"true", "false", "defined", "undefined"}
    BY <1>5 DEF Truth
  <1>6. QED
    BY <1>1, <1>2, <1>3, <1>4, <1>5

LEMMA PutTop ==
  ASSUME NEW s \in Seq(Conds), Len(s) # 0, NEW e \in Conds, NEW q, q = [s EXCEPT ![Len(s)] = e]
  PROVE  /\ q \in Seq(Conds) /\ Len(q) = Len(s) /\ q[Len(s)] = e
         /\ \A m \in 1..Len(s) : m # Len(s) => q[m] = s[m]
  <1>1. Len(s) \in 1..Len(s)
    OBVIOUS
  <1>2. QED
    BY <1>1

Taken(c) == [c EXCEPT !.branch_taken = TRUE]
Applied(conds, holds) == IF holds THEN [conds EXCEPT ![Len(conds)] = Taken(conds[Len(conds)])] ELSE conds

LEMMA TakenTop ==
  ASSUME NEW conds \in Seq(Conds), Len(conds) # 0,
         NEW q, q = [conds EXCEPT ![Len(conds)] = Taken(conds[Len(conds)])]
  PROVE  /\ q \in Seq(Conds) /\ Len(q) = Len(conds) /\ q[Len(conds)] = Taken(conds[Len(conds)])
         /\ \A m \in 1..Len(conds) : m # Len(conds) => q[m] = conds[m]
  <1>1. Len(conds) \in 1..Len(conds) /\ conds[Len(conds)] \in Conds
    OBVIOUS
  <1>2. Taken(conds[Len(conds)]) \in Conds
    BY <1>1 DEF Conds, Taken
  <1>3. QED
    BY <1>2, PutTop

LEMMA Apply ==
  ASSUME NEW conds \in Seq(Conds), Len(conds) # 0, NEW holds
  PROVE  /\ Applied(conds, holds) \in Seq(Conds) /\ Len(Applied(conds, holds)) = Len(conds)
         /\ \A m \in 1..Len(conds) : m # Len(conds) => Applied(conds, holds)[m] = conds[m]
         /\ Applied(conds, holds)[Len(conds)] = IF holds THEN Taken(conds[Len(conds)]) ELSE conds[Len(conds)]
  <1> DEFINE q == [conds EXCEPT ![Len(conds)] = Taken(conds[Len(conds)])]
  <1>1. /\ q \in Seq(Conds) /\ Len(q) = Len(conds) /\ q[Len(conds)] = Taken(conds[Len(conds)])
        /\ \A m \in 1..Len(conds) : m # Len(conds) => q[m] = conds[m]
    BY TakenTop
  <1>2. CASE holds
    <2>1. Applied(conds, holds) = q
      BY <1>2 DEF Applied
    <2> HIDE DEF q
    <2>2. QED
      BY <1>1, <1>2, <2>1
  <1>3. CASE ~holds
    BY <1>3 DEF Applied
  <1>4. QED
    BY <1>2, <1>3

LEMMA ApplyIs ==
  ASSUME NEW conds, NEW holds \in BOOLEAN, NEW r, r = ApplyConditionalResult(conds, FALSE, holds)
  PROVE  r.conds = Applied(conds, holds) /\ r.inactive = ~holds /\ r.error = FALSE
  BY DEF ApplyConditionalResult, Outcome, TopUpdated, ReplaceAt, Last, Applied, Taken

(* The top of the stack with another state.                                *)
Restated(c, state) == [c EXCEPT !.state = state]

LEMMA Restate ==
  ASSUME NEW conds \in Seq(Conds), Len(conds) # 0, NEW state \in {"if", "elif", "else"},
         NEW q, q = [conds EXCEPT ![Len(conds)] = Restated(conds[Len(conds)], state)]
  PROVE  /\ q \in Seq(Conds) /\ Len(q) = Len(conds)
         /\ \A m \in 1..Len(conds) : m # Len(conds) => q[m] = conds[m]
         /\ q[Len(conds)] = Restated(conds[Len(conds)], state)
  <1>1. Len(conds) \in 1..Len(conds) /\ conds[Len(conds)] \in Conds
    OBVIOUS
  <1>2. Restated(conds[Len(conds)], state) \in Conds
    BY <1>1 DEF Conds, Restated
  <1>3. QED
    BY <1>2, PutTop

LEMMA IfOutcome ==
  ASSUME curcond \in Seq(Conds), inactive_code \in BOOLEAN, curfile \in Files,
         NEW d, NEW r, r = IfDirective(d)
  PROVE  /\ r.conds \in Seq(Conds) /\ r.inactive \in BOOLEAN
         /\ Len(r.conds) = Len(curcond) + 1
         /\ \A m \in 1..Len(curcond) : r.conds[m] = curcond[m]
         /\ r.conds[Len(curcond) + 1].parent_inactive = inactive_code
         /\ r.conds[Len(curcond) + 1].state = "if"
         /\ ~r.error => /\ ~inactive_code => r.conds[Len(curcond) + 1].branch_taken = Truth(d.test)
                        /\ r.inactive = (inactive_code \/ ~Truth(d.test))
  <1> DEFINE c     == NewCondition(inactive_code)
             conds == Append(curcond, c)
  <1>1. c \in Conds /\ c.parent_inactive = inactive_code /\ c.state = "if" /\ c.branch_taken = FALSE
    BY DEF NewCondition, Conds
  <1> HIDE DEF c
  <1>2. /\ conds \in Seq(Conds) /\ Len(conds) = Len(curcond) + 1 /\ Len(conds) # 0 /\ Len(curcond) \in Nat
        /\ \A m \in 1..Len(curcond) : conds[m] = curcond[m]
        /\ conds[Len(curcond) + 1] = c
    BY <1>1
  <1> HIDE DEF conds
  <1>3. Truth(d.test) \in BOOLEAN
    BY TruthIsTruth
  <1>4. \/ r = Outcome(conds, TRUE, TRUE)
        \/ inactive_code /\ r = Unparsed(conds, d)
        \/ ~inactive_code /\ r = ApplyConditionalResult(conds, FALSE, Truth(d.test))
    BY DEF IfDirective, conds, c
  <1>5. CASE r = Outcome(conds, TRUE, TRUE)
    <2>1. r.conds = conds /\ r.inactive = TRUE /\ r.error = TRUE
      BY <1>5 DEF Outcome
    <2>2. QED
      BY <2>1, <1>1, <1>2
  <1>6. CASE inactive_code /\ r = Unparsed(conds, d)
    <2>1. r.conds = conds /\ r.inactive = TRUE
      BY <1>6 DEF Unparsed, Outcome
    <2>2. QED
      BY <2>1, <1>1, <1>2, <1>3, <1>6
  <1>7. CASE ~inactive_code /\ r = ApplyConditionalResult(conds, FALSE, Truth(d.test))
    <2> DEFINE holds == Truth(d.test)
    <2> HIDE DEF holds
    <2>0. holds \in BOOLEAN /\ r = ApplyConditionalResult(conds, FALSE, holds)
      BY <1>3, <1>7 DEF holds
    <2>1. /\ r.conds \in Seq(Conds) /\ Len(r.conds) = Len(conds)
          /\ \A m \in 1..Len(conds) : m # Len(conds) => r.conds[m] = conds[m]
          /\ r.conds[Len(conds)] = IF holds THEN Taken(c) ELSE c
          /\ r.inactive = ~holds /\ r.error = FALSE
      <3>1. conds[Len(conds)] = c /\ r.conds = Applied(conds, holds) /\ r.inactive = ~holds /\ r.error = FALSE
        BY <1>2, <2>0, ApplyIs
      <3>2. /\ r.conds \in Seq(Conds) /\ Len(r.conds) = Len(conds)
            /\ \A m \in 1..Len(conds) : m # Len(conds) => r.conds[m] = conds[m]
            /\ r.conds[Len(conds)] = IF holds THEN Taken(conds[Len(conds)]) ELSE conds[Len(conds)]
            /\ r.inactive = ~holds /\ r.error = FALSE
        <4>1. conds \in Seq(Conds) /\ Len(conds) # 0 /\ holds \in BOOLEAN
          BY <1>2, <2>0
        <4>2. /\ Applied(conds, holds) \in Seq(Conds) /\ Len(Applied(conds, holds)) = Len(conds)
              /\ \A m \in 1..Len(conds) : m # Len(conds) => Applied(conds, holds)[m] = conds[m]
              /\ Applied(conds, holds)[Len(conds)] = IF holds THEN Taken(conds[Len(conds)]) ELSE conds[Len(conds)]
          BY <4>1, Apply
        <4>3. QED
          BY <3>1, <4>2
      <3>3. QED
        BY <3>1, <3>2
    <2>2. /\ Taken(c).parent_inactive = inactive_code
          /\ Taken(c).state = "if"
          /\ Taken(c).branch_taken = TRUE
      BY <1>1 DEF Conds, Taken
    <2>3. \A m \in 1..Len(curcond) : m \in 1..Len(conds) /\ m # Len(conds)
      BY <1>2
    <2>4. \A m \in 1..Len(curcond) : r.conds[m] = curcond[m]
      BY <1>2, <2>1, <2>3
    <2>5. /\ r.conds[Len(curcond) + 1].parent_inactive = inactive_code
          /\ r.conds[Len(curcond) + 1].state = "if"
          /\ r.conds[Len(curcond) + 1].branch_taken = holds
      BY <1>1, <1>2, <2>0, <2>1, <2>2
    <2>6. QED
      BY <1>2, <1>7, <2>0, <2>1, <2>4, <2>5 DEF holds
  <1>8. QED
    BY <1>4, <1>5, <1>6, <1>7

LEMMA BranchOutcome ==
  ASSUME curcond \in Seq(Conds), inactive_code \in BOOLEAN,
         NEW d, NEW r, \/ d.op = "elif" /\ r = ElifDirective(d)
                       \/ d.op = "else" /\ r = ElseDirective
  PROVE  /\ r.conds \in Seq(Conds) /\ r.inactive \in BOOLEAN
         /\ ~r.error =>
              LET c == curcond[Len(curcond)]  e == r.conds[Len(curcond)] IN
              /\ Len(curcond) # 0 /\ Len(r.conds) = Len(curcond)
              /\ \A m \in 1..Len(curcond) : m # Len(curcond) => r.conds[m] = curcond[m]
              /\ c.state # "else" /\ (e.state = "else" <=> d.op = "else")
              /\ e.parent_inactive = c.parent_inactive
              /\ d.op = "elif" /\ ~c.parent_inactive => e.branch_taken = (c.branch_taken \/ Truth(d.test))
              /\ r.inactive = (c.parent_inactive \/ c.branch_taken \/ (d.op = "elif" /\ ~Truth(d.test)))
  <1> DEFINE n     == Len(curcond)
             c     == curcond[n]
             wrong == curcond = <<>> \/ c.state = "else" \/ c.file # curfile
             b     == Restated(c, "elif")
             e     == Restated(c, "else")
             shut  == c.parent_inactive \/ c.branch_taken
             conds == [curcond EXCEPT ![n] = b]
             ended == [curcond EXCEPT ![n] = e]
  <1>1. d.op = "else" =>
          r = IF wrong THEN Outcome(curcond, inactive_code, TRUE) ELSE Outcome(ended, shut, FALSE)
    BY DEF ElseDirective, TopUpdated, ReplaceAt, Last, Restated
  <1>2. d.op = "elif" =>
          r = IF curcond = <<>> \/ d.test = "badname" \/ wrong THEN Outcome(curcond, TRUE, TRUE)
              ELSE IF shut THEN Unparsed(conds, d)
              ELSE IF d.test = "badexpression" THEN Outcome(conds, TRUE, TRUE)
              ELSE ApplyConditionalResult(conds, FALSE, Truth(d.test))
    BY DEF ElifDirective, TopUpdated, ReplaceAt, Last, Restated
  <1>3. ~wrong => /\ n \in Nat /\ n # 0 /\ n \in 1..n /\ c \in Conds /\ c.state # "else"
                  /\ c.parent_inactive \in BOOLEAN /\ c.branch_taken \in BOOLEAN
    <2>1. ~wrong => n \in Nat /\ n # 0
      OBVIOUS
    <2>2. ~wrong => n \in 1..n
      BY <2>1
    <2>3. ~wrong => c \in Conds
      BY <2>2
    <2>4. QED
      BY <2>1, <2>2, <2>3 DEF Conds
  <1>4. c \in Conds => /\ b \in Conds /\ b.state = "elif" /\ b.parent_inactive = c.parent_inactive /\ b.branch_taken = c.branch_taken
                       /\ e \in Conds /\ e.state = "else" /\ e.parent_inactive = c.parent_inactive
    BY DEF Restated, Conds
  <1>5. Truth(d.test) \in BOOLEAN
    BY TruthIsTruth
  <1> HIDE DEF wrong, b, e, shut
  <1>6. ~wrong => /\ conds \in Seq(Conds) /\ Len(conds) = n /\ conds[n] = b
                  /\ \A m \in 1..n : m # n => conds[m] = curcond[m]
    BY <1>3, <1>4, PutTop
  <1>7. ~wrong => /\ ended \in Seq(Conds) /\ Len(ended) = n /\ ended[n] = e
                  /\ \A m \in 1..n : m # n => ended[m] = curcond[m]
    BY <1>3, <1>4, PutTop
  <1> HIDE DEF conds, ended, n, c
  <1>8. shut = (c.parent_inactive \/ c.branch_taken) /\ shut \in BOOLEAN
    BY DEF shut
  <1>9. CASE r.conds = curcond /\ r.inactive \in BOOLEAN /\ r.error = TRUE
    BY <1>9
  <1>10. CASE d.op = "else" /\ ~wrong
    <2>1. r.conds = ended /\ r.inactive = shut /\ r.error = FALSE
      BY <1>1, <1>10 DEF Outcome
    <2>2. QED
      BY <2>1, <1>3, <1>4, <1>7, <1>8, <1>10 DEF n, c
  <1>11. CASE d.op = "elif" /\ ~wrong /\ shut /\ r = Unparsed(conds, d)
    <2>1. r.conds = conds /\ r.inactive = TRUE
      BY <1>11 DEF Unparsed, Outcome
    <2>2. QED
      BY <2>1, <1>3, <1>4, <1>5, <1>6, <1>8, <1>11 DEF n, c
  <1>12. CASE d.op = "elif" /\ ~wrong /\ r = Outcome(conds, TRUE, TRUE)
    <2>1. r.conds = conds /\ r.inactive = TRUE /\ r.error = TRUE
      BY <1>12 DEF Outcome
    <2>2. QED
      BY <2>1, <1>6, <1>12
  <1>13. CASE d.op = "elif" /\ ~wrong /\ ~shut /\ r = ApplyConditionalResult(conds, FALSE, Truth(d.test))
    <2> DEFINE holds == Truth(d.test)
    <2> HIDE DEF holds
    <2>0. holds \in BOOLEAN /\ r = ApplyConditionalResult(conds, FALSE, holds)
      BY <1>5, <1>13 DEF holds
    <2>1. /\ r.conds \in Seq(Conds) /\ Len(r.conds) = Len(conds)
          /\ \A m \in 1..Len(conds) : m # Len(conds) => r.conds[m] = conds[m]
          /\ r.conds[Len(conds)] = IF holds THEN Taken(conds[Len(conds)]) ELSE conds[Len(conds)]
          /\ r.inactive = ~holds /\ r.error = FALSE
      <3>1. r.conds = Applied(conds, holds) /\ r.inactive = ~holds /\ r.error = FALSE
        BY <2>0, ApplyIs
      <3>2. conds \in Seq(Conds) /\ Len(conds) # 0
        BY <1>3, <1>6, <1>13
      <3>3. /\ Applied(conds, holds) \in Seq(Conds) /\ Len(Applied(conds, holds)) = Len(conds)
            /\ \A m \in 1..Len(conds) : m # Len(conds) => Applied(conds, holds)[m] = conds[m]
            /\ Applied(conds, holds)[Len(conds)] = IF holds THEN Taken(conds[Len(conds)]) ELSE conds[Len(conds)]
        BY <3>2, <2>0, Apply
      <3>4. QED
        BY <3>1, <3>3
    <2>2. b \in Conds /\ b.state = "elif" /\ b.parent_inactive = c.parent_inactive /\ b.branch_taken = c.branch_taken
      BY <1>3, <1>4, <1>13
    <2>3. /\ Taken(b).parent_inactive = c.parent_inactive
          /\ Taken(b).state = "elif"
          /\ Taken(b).branch_taken = TRUE
      BY <2>2 DEF Conds, Taken
    <2>4. /\ Len(r.conds) = n /\ \A m \in 1..n : m # n => r.conds[m] = curcond[m]
      BY <2>1, <1>6, <1>13
    <2>5. r.conds[n] = IF holds THEN Taken(b) ELSE b
      BY <2>1, <1>6, <1>13
    <2>6. /\ r.conds[n].parent_inactive = c.parent_inactive /\ r.conds[n].state = "elif"
          /\ r.conds[n].branch_taken = (c.branch_taken \/ holds)
      BY <2>0, <2>2, <2>3, <2>5, <1>3, <1>8, <1>13
    <2>7. r.inactive = (c.parent_inactive \/ c.branch_taken \/ ~holds)
      BY <2>0, <2>1, <1>3, <1>8, <1>13
    <2>8. QED
      BY <2>0, <2>1, <2>4, <2>6, <2>7, <1>3, <1>13 DEF n, c, holds
  <1>14. d.op = "elif" /\ (curcond = <<>> \/ d.test = "badname" \/ wrong) => r.conds = curcond /\ r.inactive = TRUE /\ r.error = TRUE
    <2>1. d.op = "elif" /\ (curcond = <<>> \/ d.test = "badname" \/ wrong) => r = Outcome(curcond, TRUE, TRUE)
      BY <1>2
    <2>2. QED
      BY <2>1 DEF Outcome
  <1>15. d.op = "else" /\ wrong => r.conds = curcond /\ r.inactive = inactive_code /\ r.error = TRUE
    BY <1>1 DEF Outcome
  <1>16. QED
    BY <1>2, <1>9, <1>10, <1>11, <1>12, <1>13, <1>14, <1>15

-----------------------------------------------------------------------------
(* Reading a directive.                                                    *)
TextType ==
  /\ text \in [Files -> Seq(AllDirectives)]
  /\ \A f \in Files : Len(text[f]) <= MaxDirectives[f] /\ \A i \in 1..Len(text[f]) : text[f][i] \in Directives[f]

Fed(d) ==
  /\ Feeds(text, returnpos, trace, feeder.usagecount, text', trace', d) /\ TextType'
  /\ trace' \in Seq(Entries) /\ Unaltered(trace, trace', Len(trace)) /\ Len(trace') = Len(trace) + 1
  /\ trace'[Len(trace) + 1].d = d
  /\ trace'[Len(trace) + 1].true = (d.op \in {"if", "elif"} /\ Truth(d.test))
  /\ curfile \in Files /\ curfile = returnpos[Len(returnpos)].file /\ returnpos # <<>> /\ ~feeder.errors
  /\ d \in Directives[curfile]

LEMMA CurrentPlace ==
  ASSUME FeederIInv, Readable
  PROVE  /\ returnpos \in Seq(Places) /\ returnpos # <<>> /\ Len(returnpos) \in Nat /\ Len(returnpos) # 0
         /\ Len(returnpos) \in 1..Len(returnpos)
         /\ curfile = returnpos[Len(returnpos)].file /\ Last(returnpos).pos = returnpos[Len(returnpos)].pos
         /\ curfile \in Files /\ returnpos[Len(returnpos)].pos \in Nat
         /\ returnpos[Len(returnpos)].pos <= Len(text[curfile])
         /\ text[curfile] \in Seq(AllDirectives) /\ Len(text[curfile]) \in Nat
  <1>1. returnpos \in Seq(Places) /\ returnpos # <<>> /\ Len(returnpos) \in Nat /\ Len(returnpos) # 0
    BY DEF FeederIInv, FeederType, Readable
  <1>2. Len(returnpos) \in 1..Len(returnpos)
    BY <1>1
  <1>3. returnpos[Len(returnpos)] \in Places
    BY <1>1, <1>2
  <1>4. curfile = returnpos[Len(returnpos)].file /\ Last(returnpos).pos = returnpos[Len(returnpos)].pos
    BY DEF curfile, Last
  <1>5. curfile \in Files /\ returnpos[Len(returnpos)].pos \in Nat
    BY <1>3, <1>4 DEF Places
  <1>6. returnpos[Len(returnpos)].pos <= Len(text[curfile])
    BY <1>2, <1>4 DEF FeederIInv, Reads, ReadsIn, Within
  <1>7. text[curfile] \in Seq(AllDirectives) /\ Len(text[curfile]) \in Nat
    BY <1>5 DEF FeederIInv, FeederType
  <1>8. QED
    BY <1>1, <1>2, <1>4, <1>5, <1>6, <1>7

LEMMA Feeding ==
  ASSUME FeederIInv, NEW d, Next_(d)
  PROVE  Fed(d)
  <1> DEFINE L == Len(returnpos)
             f == returnpos[L].file
             p == returnpos[L].pos
  <1>1. Readable
    BY DEF Next_
  <1>2. /\ returnpos \in Seq(Places) /\ returnpos # <<>> /\ L \in Nat /\ L # 0 /\ L \in 1..L
        /\ curfile = f /\ Last(returnpos).pos = p /\ f \in Files /\ p \in Nat /\ p <= Len(text[f])
        /\ text[f] \in Seq(AllDirectives) /\ Len(text[f]) \in Nat
    BY <1>1, CurrentPlace
  <1>3. TextType /\ trace \in Seq(Entries) /\ feeder \in Members /\ Len(trace) \in Nat
    BY DEF FeederIInv, FeederType, TextType
  <1> HIDE DEF L, f, p
  <1>4. /\ IF p = Len(text[f])
           THEN /\ Len(text[f]) < MaxDirectives[f] /\ d \in Directives[f]
                /\ text' = [text EXCEPT ![f] = Append(text[f], d)]
           ELSE d = text[f][p + 1] /\ text' = text
        /\ trace' = Append(trace, [d |-> d, file |-> f, pos |-> p + 1, true |-> d.op \in {"if", "elif"} /\ Truth(d.test)])
    BY <1>2 DEF Next_, AtEnd
  <1>5. p # Len(text[f]) => p + 1 \in 1..Len(text[f])
    BY <1>2
  <1>6. d \in Directives[f] /\ d \in AllDirectives
    <2>1. d \in Directives[f]
      BY <1>2, <1>3, <1>4, <1>5 DEF TextType
    <2>2. QED
      BY <1>2, <2>1 DEF AllDirectives
  <1>7. /\ text' \in [Files -> Seq(AllDirectives)] /\ \A g \in Files : g # f => text'[g] = text[g]
        /\ IF p = Len(text[f]) THEN text'[f] = Append(text[f], d) ELSE text'[f] = text[f] /\ d = text[f][p + 1]
    <2>1. Append(text[f], d) \in Seq(AllDirectives)
      BY <1>2, <1>6
    <2>2. QED
      BY <2>1, <1>2, <1>3, <1>4 DEF TextType
  <1>8. TextType'
    <2>1. ASSUME NEW g \in Files
          PROVE  Len(text'[g]) <= MaxDirectives[g] /\ \A i \in 1..Len(text'[g]) : text'[g][i] \in Directives[g]
      <3>1. CASE text'[g] = text[g]
        BY <1>3, <3>1 DEF TextType
      <3>2. CASE text'[g] # text[g]
        <4>1. g = f /\ p = Len(text[f]) /\ text'[f] = Append(text[f], d) /\ Len(text[f]) < MaxDirectives[f]
          BY <1>4, <1>7, <3>2
        <4>2. MaxDirectives[f] \in Nat
          BY <1>2, SourceFeederAssumption
        <4>3. Len(text'[f]) <= MaxDirectives[f]
          BY <1>2, <4>1, <4>2
        <4>4. \A i \in 1..Len(text[f]) : text[f][i] \in Directives[f]
          BY <1>2, <1>3 DEF TextType
        <4>5. \A i \in 1..Len(text'[f]) : i = Len(text[f]) + 1 \/ i \in 1..Len(text[f])
          BY <1>2, <4>1
        <4>6. text'[f][Len(text[f]) + 1] = d /\ \A i \in 1..Len(text[f]) : text'[f][i] = text[f][i]
          BY <1>2, <4>1
        <4>7. \A i \in 1..Len(text'[f]) : text'[f][i] \in Directives[f]
          BY <1>6, <4>4, <4>5, <4>6
        <4>8. QED
          BY <4>1, <4>3, <4>7
      <3>3. QED
        BY <3>1, <3>2
    <2>2. QED
      BY <1>7, <2>1 DEF TextType
  <1> DEFINE e == [d |-> d, file |-> f, pos |-> p + 1, true |-> d.op \in {"if", "elif"} /\ Truth(d.test)]
  <1>9. /\ e \in Entries /\ e.d = d /\ e.file = f /\ e.pos = p + 1
        /\ e.true = (d.op \in {"if", "elif"} /\ Truth(d.test))
    <2>1. Truth(d.test) \in BOOLEAN
      BY TruthIsTruth
    <2>2. QED
      BY <1>2, <1>6, <2>1 DEF Entries
  <1>10. trace' = Append(trace, e)
    BY <1>4
  <1> HIDE DEF e
  <1>11. /\ trace' \in Seq(Entries) /\ Len(trace') = Len(trace) + 1 /\ trace'[Len(trace) + 1] = e
         /\ \A k \in 1..Len(trace) : trace'[k] = trace[k]
    BY <1>3, <1>9, <1>10
  <1>12. Unaltered(trace, trace', Len(trace))
    BY <1>3, <1>11 DEF Unaltered
  <1>13. feeder.usagecount \in [Files -> Nat] /\ ~feeder.errors
    BY <1>1, <1>3 DEF Members, Readable
  <1>14. Feeds(text, returnpos, trace, feeder.usagecount, text', trace', d)
    <2>1. text \in [Files -> Seq(AllDirectives)]
      BY <1>3 DEF TextType
    <2>2. QED
      BY <2>1, <1>2, <1>3, <1>7, <1>9, <1>11, <1>13 DEF Feeds, L, f, p
  <1>15. QED
    BY <1>2, <1>6, <1>8, <1>9, <1>11, <1>12, <1>13, <1>14 DEF Fed, L, f

LEMMA MovedIs ==
  ASSUME FeederIInv, Readable, returnpos' = Moved
  PROVE  returnpos' \in Seq(Places) /\ MovedOn(returnpos, returnpos')
  <1>1. /\ returnpos \in Seq(Places) /\ Len(returnpos) \in Nat /\ Len(returnpos) \in 1..Len(returnpos)
        /\ returnpos[Len(returnpos)].pos \in Nat
    BY CurrentPlace
  <1> DEFINE n == Len(returnpos)
             e == [returnpos[n] EXCEPT !.pos = @ + 1]
  <1>2. returnpos[n] \in Places
    BY <1>1
  <1>3. e \in Places /\ e.file = returnpos[n].file /\ e.pos = returnpos[n].pos + 1
    BY <1>2 DEF Places
  <1>4. returnpos' = [returnpos EXCEPT ![n] = e]
    BY DEF Moved
  <1> HIDE DEF e
  <1>5. /\ returnpos' \in Seq(Places) /\ Len(returnpos') = n /\ returnpos'[n] = e
        /\ \A m \in 1..n : m # n => returnpos'[m] = returnpos[m]
    BY <1>1, <1>3, <1>4
  <1>6. QED
    BY <1>1, <1>3, <1>5 DEF MovedOn

LEMMA PoppedIs ==
  ASSUME FeederIInv, Readable, returnpos' = Front(returnpos)
  PROVE  returnpos' \in Seq(Places) /\ Popped(returnpos, returnpos')
  <1>1. returnpos \in Seq(Places) /\ returnpos # <<>>
    BY CurrentPlace
  <1>2. QED
    BY <1>1, FrontOf DEF Popped

LEMMA TraceMeaning == \A k : ActiveAfter(k) <=> ActiveIn(trace, k)
  BY DEF ActiveAfter, ActiveIn, IsOpen, OpenIn, BranchSelected, SelectedIn, Branches, BranchesIn,
         Holds, HoldsIn, Level, LevelOf, Occurrences, Those

LEMMA TraceMeaningAfter == \A k : ActiveAfter(k)' <=> ActiveIn(trace', k)
  BY DEF ActiveAfter, ActiveIn, IsOpen, OpenIn, BranchSelected, SelectedIn, Branches, BranchesIn,
         Holds, HoldsIn, Level, LevelOf, Occurrences, Those

LEMMA GoesNow ==
  ASSUME FeederIInv, NEW d, Fed(d)
  PROVE  Goes(trace, trace', Len(trace), curcond, inactive_code)
  BY DEF FeederIInv, FeederType, Selects, Fed, Goes

(* The names defined, after a directive that did not fail.                 *)
LEMMA DefinedAgain ==
  ASSUME FeederIInv, NEW d, Fed(d),
         "X" \in feeder'.defines <=> "X" \in feeder.defines \/ (d.op = "define" /\ ActiveIn(trace', Len(trace) + 1))
  PROVE  DefinedWhereSelected'
  <1> DEFINE T == Len(trace)
  <1>1. /\ T \in Nat /\ DOMAIN trace = 1..T /\ DOMAIN trace' = 1..(T + 1) /\ trace'[T + 1].d = d
        /\ Unaltered(trace, trace', T) /\ ~feeder.errors
    BY DEF FeederIInv, FeederType, Fed
  <1>2. "X" \in feeder.defines <=> \E k \in 1..T : trace[k].d.op = "define" /\ ActiveIn(trace, k)
    BY <1>1, TraceMeaning DEF FeederIInv, Selects, DefinedWhereSelected
  <1>3. \A k \in 1..T : trace'[k] = trace[k] /\ (ActiveIn(trace', k) <=> ActiveIn(trace, k))
    <2>1. \A k \in 1..T : k \in 0..T /\ trace'[k] = trace[k]
      BY <1>1 DEF Unaltered
    <2>2. QED
      BY <2>1, <1>1, SameActive
  <1> HIDE DEF T
  <1>4. \A k : k \in 1..(T + 1) <=> k \in 1..T \/ k = T + 1
    BY <1>1
  <1>5. "X" \in feeder'.defines <=> \E k \in 1..(T + 1) : trace'[k].d.op = "define" /\ ActiveIn(trace', k)
    BY <1>1, <1>2, <1>3, <1>4 DEF T
  <1>6. QED
    BY <1>1, <1>5, TraceMeaningAfter DEF DefinedWhereSelected

LEMMA PlainStep ==
  ASSUME FeederIInv, NEW d, Fed(d), d.op \notin {"if", "elif", "else", "endif"},
         UNCHANGED <<curcond, inactive_code>>,
         "X" \in feeder'.defines <=> "X" \in feeder.defines \/ (d.op = "define" /\ ~inactive_code)
  PROVE  Selects'
  <1>1. Goes(trace, trace', Len(trace), curcond, inactive_code)
    BY GoesNow
  <1>2. trace'[Len(trace) + 1].d = d /\ Len(trace') = Len(trace) + 1
    BY DEF Fed
  <1>3. Conditions(trace', Len(trace) + 1, curcond, inactive_code)
    BY <1>1, <1>2, StepPlain
  <1>4. inactive_code <=> ~ActiveIn(trace', Len(trace) + 1)
    BY <1>3 DEF Conditions
  <1>5. DefinedWhereSelected'
    BY <1>4, DefinedAgain
  <1>6. QED
    BY <1>2, <1>3, <1>5 DEF Selects

LEMMA ConditionalStep ==
  ASSUME FeederIInv, NEW d, Fed(d), Conditional(d)
  PROVE  Selects' /\ curcond' \in Seq(Conds) /\ inactive_code' \in BOOLEAN
  <1> DEFINE T == Len(trace)
             n == Len(curcond)
  <1>1. Goes(trace, trace', T, curcond, inactive_code)
    BY GoesNow
  <1>2. /\ trace'[T + 1].d = d /\ Len(trace') = T + 1 /\ curfile \in Files
        /\ trace'[T + 1].true = (d.op \in {"if", "elif"} /\ Truth(d.test))
    BY DEF Fed
  <1>3. curcond \in Seq(Conds) /\ inactive_code \in BOOLEAN /\ feeder \in Members
    BY DEF FeederIInv, FeederType
  <1>4. PICK r : /\ r = CheckConditionals(d) /\ curcond' = r.conds /\ inactive_code' = r.inactive
                 /\ (IF r.error THEN Error ELSE UNCHANGED feeder)
    BY DEF Conditional
  <1>5. d.op \in {"if", "elif", "else", "endif"}
    BY DEF Conditional
  <1>6. Truth(d.test) \in BOOLEAN
    BY TruthIsTruth
  <1>7. r.error => feeder'.errors
    BY <1>3, <1>4 DEF Error, Members
  <1>8. ASSUME Conditions(trace', T + 1, curcond', inactive_code'), ~r.error PROVE Selects'
    <2>1. DefinedWhereSelected'
      BY <1>4, <1>5, <1>8, DefinedAgain
    <2>2. QED
      BY <2>1, <1>2, <1>8 DEF Selects
  <1>9. r.error => Selects'
    BY <1>7 DEF Selects
  <1> HIDE DEF T, n
  <1>10. CASE d.op = "if"
    <2>1. r = IfDirective(d)
      BY <1>4, <1>10 DEF CheckConditionals
    <2>2. /\ r.conds \in Seq(Conds) /\ r.inactive \in BOOLEAN
          /\ Len(r.conds) = n + 1
          /\ \A m \in 1..n : r.conds[m] = curcond[m]
          /\ r.conds[n + 1].parent_inactive = inactive_code
          /\ r.conds[n + 1].state = "if"
          /\ ~r.error => /\ ~inactive_code => r.conds[n + 1].branch_taken = Truth(d.test)
                         /\ r.inactive = (inactive_code \/ ~Truth(d.test))
      BY <2>1, <1>2, <1>3, IfOutcome DEF n
    <2>3. trace'[T + 1].d.op = "if" /\ trace'[T + 1].true = Truth(d.test)
      BY <1>2, <1>6, <1>10
    <2>4. CASE ~r.error
      <3>1. Conditions(trace', T + 1, r.conds, r.inactive)
        BY <2>2, <2>3, <2>4, <1>1, StepIf DEF n
      <3>2. QED
        BY <3>1, <2>2, <2>4, <1>4, <1>8
    <2>5. QED
      BY <2>2, <2>4, <1>4, <1>9
  <1>11. CASE d.op \in {"elif", "else"}
    <2>1. (d.op = "elif" /\ r = ElifDirective(d)) \/ (d.op = "else" /\ r = ElseDirective)
      BY <1>4, <1>11 DEF CheckConditionals
    <2>2. /\ r.conds \in Seq(Conds) /\ r.inactive \in BOOLEAN
          /\ ~r.error =>
               /\ n # 0 /\ Len(r.conds) = n
               /\ \A m \in 1..n : m # n => r.conds[m] = curcond[m]
               /\ curcond[n].state # "else" /\ (r.conds[n].state = "else" <=> d.op = "else")
               /\ r.conds[n].parent_inactive = curcond[n].parent_inactive
               /\ d.op = "elif" /\ ~curcond[n].parent_inactive => r.conds[n].branch_taken = (curcond[n].branch_taken \/ Truth(d.test))
               /\ r.inactive = (curcond[n].parent_inactive \/ curcond[n].branch_taken \/ (d.op = "elif" /\ ~Truth(d.test)))
      BY <2>1, <1>3, BranchOutcome DEF n
    <2>3. /\ trace'[T + 1].d.op = d.op /\ (d.op = "elif" => trace'[T + 1].true = Truth(d.test))
          /\ HoldsIn(trace', T + 1) <=> ~(d.op = "elif" /\ ~Truth(d.test))
      BY <1>2, <1>6, <1>11 DEF HoldsIn
    <2>4. CASE ~r.error
      <3>1. r.conds[n].state # "else" => d.op = "elif"
        BY <2>2, <2>4, <1>11
      <3>4. PICK c, e : c = curcond[n] /\ e = r.conds[n]
        OBVIOUS
      <3>5. /\ trace'[T + 1].d.op \in {"elif", "else"} /\ n # 0 /\ Len(r.conds) = n
            /\ \A m \in 1..n : m # n => r.conds[m] = curcond[m]
            /\ c.state # "else" /\ ((e.state = "else") <=> trace'[T + 1].d.op = "else")
            /\ e.parent_inactive <=> c.parent_inactive
        BY <3>4, <2>2, <2>3, <2>4, <1>11
      <3>6. ~c.parent_inactive /\ e.state # "else" => (e.branch_taken <=> c.branch_taken \/ trace'[T + 1].true)
        BY <3>1, <3>4, <2>2, <2>3, <2>4
      <3>7. r.inactive <=> c.parent_inactive \/ c.branch_taken \/ ~HoldsIn(trace', T + 1)
        BY <3>4, <2>2, <2>3, <2>4
      <3>2. Conditions(trace', T + 1, r.conds, r.inactive)
        BY <3>4, <3>5, <3>6, <3>7, <1>1, StepBranch DEF n
      <3>3. QED
        BY <3>2, <2>2, <2>4, <1>4, <1>8
    <2>5. QED
      BY <2>2, <2>4, <1>4, <1>9
  <1>12. CASE d.op = "endif"
    <2>1. r = EndifDirective
      BY <1>4, <1>12 DEF CheckConditionals
    <2>2. CASE curcond = <<>>
      <3>1. r.conds = curcond /\ r.inactive = inactive_code /\ r.error = TRUE
        BY <2>1, <2>2 DEF EndifDirective, Outcome
      <3>2. QED
        BY <3>1, <1>3, <1>4, <1>9
    <2>3. CASE curcond # <<>>
      <3>1. r.conds = Front(curcond) /\ r.inactive = Last(curcond).parent_inactive
        BY <2>1, <2>3 DEF EndifDirective, Outcome
      <3>2. /\ r.conds \in Seq(Conds) /\ n \in Nat /\ n # 0 /\ Len(r.conds) = n - 1
            /\ \A m \in 1..(n - 1) : r.conds[m] = curcond[m]
            /\ Last(curcond) = curcond[n] /\ Last(curcond) \in Conds
        BY <3>1, <2>3, <1>3, FrontOf DEF n
      <3>3. r.inactive = curcond[n].parent_inactive /\ r.inactive \in BOOLEAN
        BY <3>1, <3>2 DEF Conds
      <3>4. trace'[T + 1].d.op = "endif"
        BY <1>2, <1>12
      <3>5. Conditions(trace', T + 1, r.conds, r.inactive)
        BY <3>2, <3>3, <3>4, <1>1, StepEndif DEF n
      <3>6. QED
        BY <3>2, <3>3, <3>5, <1>4, <1>8, <1>9
    <2>4. QED
      BY <2>2, <2>3
  <1>13. QED
    BY <1>5, <1>10, <1>11, <1>12

LEMMA MovedReads ==
  ASSUME FeederIInv, NEW d, Fed(d), Readable, returnpos' = Moved, feeder'.usagecount = feeder.usagecount,
         d.op = "include_once" => inactive_code \/ ~(feeder.usagecount[curfile] > 1)
  PROVE  Reads' /\ returnpos' \in Seq(Places)
  <1> DEFINE n == Len(returnpos)
             uses == feeder.usagecount
  <1>1. /\ n \in 1..n /\ n \in Nat /\ curfile = returnpos[n].file /\ curfile \in Files
        /\ returnpos \in Seq(Places) /\ Readable
    BY CurrentPlace
  <1>2. returnpos' \in Seq(Places) /\ MovedOn(returnpos, returnpos')
    BY MovedIs
  <1>3. Feeds(text, returnpos, trace, uses, text', trace', d) /\ ReadsIn(text, returnpos, trace, uses, inactive_code)
    BY DEF Fed, FeederIInv, Reads
  <1>4. returnpos[n].pos = 0 /\ d.op = "include_once" => uses[returnpos[n].file] = 1
    <2>1. FirstPlaces(returnpos, inactive_code) /\ Unused(returnpos, trace, uses)
      BY <1>3 DEF ReadsIn
    <2>2. returnpos[n].pos = 0 => ~inactive_code
      BY <2>1, <1>1 DEF FirstPlaces
    <2>3. uses[curfile] # 0
      BY <2>1, <1>1 DEF Unused
    <2>4. uses[curfile] \in Nat
      BY <1>1 DEF FeederIInv, FeederType, Members
    <2>5. QED
      BY <2>2, <2>3, <2>4, <1>1
  <1>5. ReadsIn(text', returnpos', trace', uses, inactive_code')
    BY <1>2, <1>3, <1>4, ReadMoved
  <1>6. QED
    BY <1>2, <1>5 DEF Reads

LEMMA EnteredPlace ==
  ASSUME FeederIInv, Readable, NEW g \in Files, NEW ps, ps = Moved,
         returnpos' = Append(Moved, [file |-> g, pos |-> 0])
  PROVE  /\ MovedOn(returnpos, ps) /\ returnpos' \in Seq(Places) /\ Len(ps) \in Nat /\ Len(returnpos') = Len(ps) + 1
         /\ \A i \in 1..Len(ps) : returnpos'[i] = ps[i]
         /\ returnpos'[Len(ps) + 1].file = g /\ returnpos'[Len(ps) + 1].pos = 0
  <1> DEFINE n == Len(returnpos)
             c == [returnpos[n] EXCEPT !.pos = @ + 1]
             e == [file |-> g, pos |-> 0]
  <1>1. /\ n \in 1..n /\ n \in Nat /\ returnpos \in Seq(Places) /\ returnpos[n].pos \in Nat
    BY CurrentPlace
  <1>2. returnpos[n] \in Places
    BY <1>1
  <1>3. c \in Places /\ c.file = returnpos[n].file /\ c.pos = returnpos[n].pos + 1
    BY <1>2 DEF Places
  <1>4. ps = [returnpos EXCEPT ![n] = c]
    BY DEF Moved
  <1>5. e \in Places /\ e.file = g /\ e.pos = 0
    BY DEF Places
  <1>6. returnpos' = Append(ps, e)
    OBVIOUS
  <1> HIDE DEF c, e
  <1>7. /\ ps \in Seq(Places) /\ Len(ps) = n /\ ps[n] = c
        /\ \A m \in 1..n : m # n => ps[m] = returnpos[m]
    BY <1>1, <1>3, <1>4
  <1>8. MovedOn(returnpos, ps)
    BY <1>1, <1>3, <1>7 DEF MovedOn
  <1>9. /\ returnpos' \in Seq(Places) /\ Len(ps) \in Nat /\ Len(returnpos') = Len(ps) + 1
        /\ \A i \in 1..Len(ps) : returnpos'[i] = ps[i]
        /\ returnpos'[Len(ps) + 1] = e
    BY <1>5, <1>6, <1>7
  <1>10. QED
    BY <1>5, <1>8, <1>9

LEMMA EnteredFrom ==
  ASSUME FeederIInv, NEW d, Fed(d), d.op # "include_once", NEW ps, MovedOn(returnpos, ps)
  PROVE  ReadsIn(text', ps, trace', feeder.usagecount, inactive_code') /\ \A i \in 1..Len(ps) : ps[i].pos # 0
  <1> DEFINE uses == feeder.usagecount
  <1>1. Feeds(text, returnpos, trace, uses, text', trace', d) /\ ReadsIn(text, returnpos, trace, uses, inactive_code)
    BY DEF Fed, FeederIInv, Reads
  <1>2. returnpos[Len(returnpos)].pos = 0 /\ d.op = "include_once" => uses[returnpos[Len(returnpos)].file] = 1
    OBVIOUS
  <1>3. PICK inactive2 : inactive2 = inactive_code'
    OBVIOUS
  <1> HIDE DEF uses
  <1>4. ReadsIn(text', ps, trace', uses, inactive2) /\ \A i \in 1..Len(ps) : ps[i].pos # 0
    BY <1>1, <1>2, ReadMoved
  <1>5. QED
    BY <1>3, <1>4 DEF uses

LEMMA EnteredReads ==
  ASSUME FeederIInv, NEW d, Fed(d), Readable, NEW g \in Files, d.op # "include_once", ~inactive_code, ~inactive_code',
         returnpos' = Append(Moved, [file |-> g, pos |-> 0]),
         feeder'.usagecount = [feeder.usagecount EXCEPT ![g] = @ + 1]
  PROVE  Reads' /\ returnpos' \in Seq(Places)
  <1> DEFINE uses == feeder.usagecount
  <1>1. PICK ps : ps = Moved
    OBVIOUS
  <1>2. /\ MovedOn(returnpos, ps) /\ returnpos' \in Seq(Places) /\ Len(ps) \in Nat /\ Len(returnpos') = Len(ps) + 1
        /\ \A i \in 1..Len(ps) : returnpos'[i] = ps[i]
        /\ returnpos'[Len(ps) + 1].file = g /\ returnpos'[Len(ps) + 1].pos = 0
    BY <1>1, EnteredPlace
  <1>5. ReadsIn(text', ps, trace', uses, inactive_code') /\ \A i \in 1..Len(ps) : ps[i].pos # 0
    BY <1>2, EnteredFrom
  <1>6. uses \in [Files -> Nat] /\ Len(text'[g]) \in Nat
    <2>1. text' \in [Files -> Seq(AllDirectives)]
      BY DEF Fed, TextType
    <2>2. uses \in [Files -> Nat]
      BY DEF FeederIInv, FeederType, Members
    <2>3. QED
      BY <2>1, <2>2
  <1>7. ReadsIn(text', returnpos', trace', feeder'.usagecount, inactive_code')
    <2>1. feeder'.usagecount = [uses EXCEPT ![g] = @ + 1]
      OBVIOUS
    <2> HIDE DEF uses
    <2>2. QED
      BY <2>1, <1>2, <1>5, <1>6, ReadEntered
  <1>8. QED
    BY <1>2, <1>7 DEF Reads

LEMMA LeftReads ==
  ASSUME FeederIInv, NEW d, Fed(d), Readable, returnpos' = Front(returnpos), UNCHANGED inactive_code,
         feeder'.usagecount = feeder.usagecount, feeder.usagecount[curfile] > 1
  PROVE  Reads' /\ returnpos' \in Seq(Places)
  <1> DEFINE uses == feeder.usagecount
  <1>1. curfile = returnpos[Len(returnpos)].file
    BY CurrentPlace
  <1>2. returnpos' \in Seq(Places) /\ Popped(returnpos, returnpos')
    BY PoppedIs
  <1>3. Feeds(text, returnpos, trace, uses, text', trace', d) /\ ReadsIn(text, returnpos, trace, uses, inactive_code)
    BY DEF Fed, FeederIInv, Reads
  <1>4. ReadsIn(text', returnpos', trace', uses, inactive_code)
    BY <1>1, <1>2, <1>3, ReadLeft
  <1>5. QED
    BY <1>2, <1>4 DEF Reads

LEMMA FedType ==
  ASSUME FeederIInv, NEW d, Fed(d), complete' = complete, returnpos' \in Seq(Places), curcond' \in Seq(Conds),
         inactive_code' \in BOOLEAN, feeder' \in Members
  PROVE  FeederType'
  BY DEF FeederIInv, FeederType, Fed, TextType

LEMMA DirectiveStep ==
  ASSUME FeederIInv, NEW d, ParseDirective(d)
  PROVE  FeederIInv'
  <1>1. Next_(d) /\ Readable
    BY DEF ParseDirective, Next_, Conditional, IgnoredDirective, ParseDirectiveDefine, ParseDirectiveInclude,
           ParseDirectiveSourceDependency, IncludeOnce, UnknownDirective, EnterImplementationSection, Active
  <1>2. Fed(d) /\ ~feeder.errors
    BY <1>1, Feeding DEF Readable
  <1>3. feeder \in Members /\ curcond \in Seq(Conds) /\ inactive_code \in BOOLEAN
    BY DEF FeederIInv, FeederType
  <1>4. Error => feeder' \in Members /\ feeder'.errors /\ feeder'.usagecount = feeder.usagecount
    BY <1>3 DEF Error, Members
  <1>5. curfile \in Files /\ d \in Directives[curfile]
    BY <1>2 DEF Fed
  <1>6. d.op \in {"include", "srcdep"} => d.file \in Files
    BY <1>5, SourceFeederAssumption
  <1>7. feeder'.errors => Selects'
    BY DEF Selects
  <1>8. ASSUME Reads', returnpos' \in Seq(Places), Selects', complete' = complete, UNCHANGED <<curcond, inactive_code>>,
               feeder' \in Members
        PROVE  FeederIInv'
    BY <1>2, <1>3, <1>8, FedType DEF FeederIInv
  <1>10. CASE Conditional(d)
    <2>1. Selects' /\ curcond' \in Seq(Conds) /\ inactive_code' \in BOOLEAN
      BY <1>2, <1>10, ConditionalStep
    <2>2. returnpos' = Moved /\ complete' = complete /\ (Error \/ feeder' = feeder) /\ d.op # "include_once"
      BY <1>10 DEF Conditional
    <2>3. feeder' \in Members /\ feeder'.usagecount = feeder.usagecount
      BY <2>2, <1>3, <1>4
    <2>4. Reads' /\ returnpos' \in Seq(Places)
      BY <2>2, <2>3, <1>1, <1>2, MovedReads
    <2>5. QED
      BY <2>1, <2>2, <2>3, <2>4, <1>2, FedType DEF FeederIInv
  <1>11. CASE IgnoredDirective(d)
    <2>1. /\ returnpos' = Moved /\ UNCHANGED <<complete, curcond, inactive_code>> /\ (Error \/ feeder' = feeder)
          /\ inactive_code /\ d.op \notin {"if", "elif", "else", "endif"}
      BY <1>11 DEF IgnoredDirective
    <2>2. feeder' \in Members /\ feeder'.usagecount = feeder.usagecount
      BY <2>1, <1>3, <1>4
    <2>3. Reads' /\ returnpos' \in Seq(Places)
      BY <2>1, <2>2, <1>1, <1>2, MovedReads
    <2>4. Selects'
      BY <2>1, <1>2, <1>4, <1>7, PlainStep
    <2>5. QED
      BY <2>1, <2>2, <2>3, <2>4, <1>8
  <1>12. CASE ParseDirectiveDefine(d)
    <2>1. /\ returnpos' = Moved /\ UNCHANGED <<complete, curcond, inactive_code>> /\ ~inactive_code /\ d.op = "define"
          /\ Error \/ feeder' = [feeder EXCEPT !.defines = @ \cup {"X"}]
      BY <1>12 DEF ParseDirectiveDefine, Active
    <2>2. feeder' \in Members /\ feeder'.usagecount = feeder.usagecount /\ (feeder'.errors \/ "X" \in feeder'.defines)
      <3>1. CASE Error
        BY <3>1, <1>4
      <3>2. CASE feeder' = [feeder EXCEPT !.defines = @ \cup {"X"}]
        BY <3>2, <1>3 DEF Members
      <3>3. QED
        BY <2>1, <3>1, <3>2
    <2>3. Reads' /\ returnpos' \in Seq(Places)
      BY <2>1, <2>2, <1>1, <1>2, MovedReads
    <2>4. Selects'
      BY <2>1, <2>2, <1>2, <1>7, PlainStep
    <2>5. QED
      BY <2>1, <2>2, <2>3, <2>4, <1>8
  <1>13. CASE ParseDirectiveInclude(d)
    <2>1. UNCHANGED <<complete, curcond, inactive_code>> /\ ~inactive_code /\ ~inactive_code' /\ d.op = "include" /\ d.file \in Files
      BY <1>6, <1>13 DEF ParseDirectiveInclude, Active
    <2>2. CASE Error /\ returnpos' = Moved
      <3>1. Reads' /\ returnpos' \in Seq(Places)
        BY <2>1, <2>2, <1>1, <1>2, <1>4, MovedReads
      <3>2. QED
        BY <3>1, <2>1, <2>2, <1>4, <1>7, <1>8
    <2>3. CASE /\ returnpos' = Append(Moved, [file |-> d.file, pos |-> 0])
               /\ feeder' = [feeder EXCEPT !.usagecount[d.file] = @ + 1,
                               !.source_dependencies = IF IsDirectIncludeSource /\ ~feeder.implementation_section
                                                       THEN @ \cup {d.file} ELSE @]
      <3>1. feeder'.usagecount = [feeder.usagecount EXCEPT ![d.file] = @ + 1] /\ feeder'.defines = feeder.defines
        BY <2>3, <1>3 DEF Members
      <3>2. feeder' \in Members
        <4>1. [feeder.usagecount EXCEPT ![d.file] = @ + 1] \in [Files -> Nat]
          BY <1>3, <2>1 DEF Members
        <4>2. feeder.source_dependencies \cup {d.file} \in SUBSET Files /\ feeder.source_dependencies \in SUBSET Files
          BY <1>3, <2>1 DEF Members
        <4>3. QED
          BY <4>1, <4>2, <2>3, <1>3 DEF Members
      <3>3. Reads' /\ returnpos' \in Seq(Places)
        BY <2>1, <2>3, <3>1, <1>1, <1>2, EnteredReads
      <3>4. Selects'
        BY <2>1, <3>1, <1>2, PlainStep
      <3>5. QED
        BY <2>1, <3>2, <3>3, <3>4, <1>8
    <2>4. QED
      BY <2>2, <2>3, <1>13 DEF ParseDirectiveInclude
  <1>14. CASE ParseDirectiveSourceDependency(d)
    <2>1. /\ returnpos' = Moved /\ UNCHANGED <<complete, curcond, inactive_code>> /\ ~inactive_code /\ d.op = "srcdep" /\ d.file \in Files
          /\ Error \/ feeder' = [feeder EXCEPT !.source_dependencies = @ \cup {d.file}]
      BY <1>6, <1>14 DEF ParseDirectiveSourceDependency, Active
    <2>2. feeder' \in Members /\ feeder'.usagecount = feeder.usagecount /\ (feeder'.errors \/ feeder'.defines = feeder.defines)
      <3>1. feeder.source_dependencies \cup {d.file} \in SUBSET Files
        BY <1>3, <2>1 DEF Members
      <3>2. QED
        BY <3>1, <2>1, <1>3, <1>4 DEF Members
    <2>3. Reads' /\ returnpos' \in Seq(Places)
      BY <2>1, <2>2, <1>1, <1>2, MovedReads
    <2>4. Selects'
      BY <2>1, <2>2, <1>2, <1>7, PlainStep
    <2>5. QED
      BY <2>1, <2>2, <2>3, <2>4, <1>8
  <1>15. CASE IncludeOnce(d)
    <2>1. UNCHANGED <<complete, curcond, inactive_code, feeder>> /\ ~inactive_code /\ d.op = "include_once"
      BY <1>15 DEF IncludeOnce, Active
    <2>2. Selects'
      BY <2>1, <1>2, PlainStep
    <2>3. Reads' /\ returnpos' \in Seq(Places)
      <3>1. CASE feeder.usagecount[curfile] > 1
        <4>1. returnpos' = Front(returnpos)
          BY <1>15, <3>1 DEF IncludeOnce
        <4>2. QED
          BY <4>1, <3>1, <2>1, <1>1, <1>2, LeftReads
      <3>2. CASE ~(feeder.usagecount[curfile] > 1)
        <4>1. returnpos' = Moved
          BY <1>15, <3>2 DEF IncludeOnce
        <4>2. QED
          BY <4>1, <3>2, <2>1, <1>1, <1>2, MovedReads
      <3>3. QED
        BY <3>1, <3>2
    <2>4. QED
      BY <2>1, <2>2, <2>3, <1>3, <1>8
  <1>16. CASE UnknownDirective(d)
    <2>1. /\ returnpos' = Moved /\ UNCHANGED <<complete, curcond, inactive_code>> /\ Error /\ d.op = "unknown"
      BY <1>16 DEF UnknownDirective, Active
    <2>2. Reads' /\ returnpos' \in Seq(Places)
      BY <2>1, <1>1, <1>2, <1>4, MovedReads
    <2>3. QED
      BY <2>1, <2>2, <1>4, <1>7, <1>8
  <1>17. CASE EnterImplementationSection(d)
    <2>1. /\ returnpos' = Moved /\ UNCHANGED <<complete, curcond, inactive_code>> /\ d.op = "implementation"
          /\ feeder' = [feeder EXCEPT !.implementation_section = @ \/ ~inactive_code]
      BY <1>17 DEF EnterImplementationSection
    <2>2. feeder' \in Members /\ feeder'.usagecount = feeder.usagecount /\ feeder'.defines = feeder.defines
      BY <2>1, <1>3 DEF Members
    <2>3. Reads' /\ returnpos' \in Seq(Places)
      BY <2>1, <2>2, <1>1, <1>2, MovedReads
    <2>4. Selects'
      BY <2>1, <2>2, <1>2, PlainStep
    <2>5. QED
      BY <2>1, <2>2, <2>3, <2>4, <1>8
  <1>18. QED
    BY <1>10, <1>11, <1>12, <1>13, <1>14, <1>15, <1>16, <1>17 DEF ParseDirective

LEMMA ReturnStep ==
  ASSUME FeederIInv, ReturnFromInclude
  PROVE  FeederIInv'
  <1>1. Readable /\ returnpos' = Front(returnpos) /\ UNCHANGED <<text, curcond, inactive_code, feeder, trace>>
    BY DEF ReturnFromInclude
  <1>2. returnpos' \in Seq(Places) /\ Popped(returnpos, returnpos')
    BY <1>1, PoppedIs
  <1>3. Reads'
    BY <1>1, <1>2, ReadReturned DEF Reads, FeederIInv
  <1>4. Selects'
    BY <1>1, TraceMeaning, TraceMeaningAfter DEF FeederIInv, Selects, DefinedWhereSelected
  <1>5. complete' \in [Files -> BOOLEAN]
    BY DEF FeederIInv, FeederType, ReturnFromInclude
  <1>6. QED
    BY <1>1, <1>2, <1>3, <1>4, <1>5 DEF FeederIInv, FeederType

LEMMA FeederInitial == FeederInit => FeederIInv
  <1> SUFFICES ASSUME FeederInit PROVE FeederIInv
    OBVIOUS
  <1>1. FeederType
    <2>1. [file |-> Main, pos |-> 0] \in Places /\ Main \in Files
      BY SourceFeederAssumption DEF Places
    <2>2. returnpos \in Seq(Places)
      BY <2>1 DEF FeederInit
    <2>3. feeder \in Members
      BY <2>1 DEF FeederInit, Members
    <2>4. \A f \in Files : MaxDirectives[f] \in Nat
      BY SourceFeederAssumption
    <2>5. text \in [Files -> Seq(AllDirectives)] /\ \A f \in Files : text[f] = <<>>
      BY DEF FeederInit
    <2>6. QED
      <3>1. \A f \in Files : Len(text[f]) <= MaxDirectives[f] /\ \A i \in 1..Len(text[f]) : text[f][i] \in Directives[f]
        <4>1. \A f \in Files : Len(text[f]) = 0
          BY <2>5
        <4>2. QED
          BY <4>1, <2>4
      <3>2. /\ complete \in [Files -> BOOLEAN] /\ inactive_code \in BOOLEAN
            /\ curcond \in Seq(Conds) /\ trace \in Seq(Entries)
        <4>1. complete \in [Files -> BOOLEAN]
          BY DEF FeederInit
        <4>2. inactive_code \in BOOLEAN
          BY DEF FeederInit
        <4>3. curcond \in Seq(Conds) /\ trace \in Seq(Entries)
          <5>1. curcond = <<>> /\ trace = <<>>
            BY DEF FeederInit
          <5>2. QED
            BY <5>1
        <4>4. QED
          BY <4>1, <4>2, <4>3
      <3>3. QED
        BY <3>1, <3>2, <2>2, <2>3, <2>5 DEF FeederType
  <1>2. Selects
    <2>1. trace = <<>> /\ Len(trace) = 0 /\ curcond = <<>> /\ Len(curcond) = 0 /\ inactive_code = FALSE
      BY DEF FeederInit
    <2>2. LevelOf(trace, 0) = 0
      BY LevelAt
    <2>3. Conditions(trace, Len(trace), curcond, inactive_code)
      BY <2>1, <2>2 DEF Conditions, ActiveIn
    <2>4. DefinedWhereSelected
      BY <2>1 DEF FeederInit, DefinedWhereSelected
    <2>5. QED
      BY <2>3, <2>4 DEF Selects
  <1>3. Reads
    <2>1. /\ Len(returnpos) = 1 /\ returnpos[1].file = Main /\ returnpos[1].pos = 0 /\ Len(trace) = 0
          /\ feeder.usagecount[Main] = 1 /\ inactive_code = FALSE /\ Main \in Files
          /\ \A f \in Files : feeder.usagecount[f] = (IF f = Main THEN 1 ELSE 0) /\ text[f] = <<>>
      BY SourceFeederAssumption DEF FeederInit
    <2>2. QED
      BY <2>1 DEF Reads, ReadsIn, Within, FirstPlaces, Unused, UsedOnce, OnceOf
  <1>4. QED
    BY <1>1, <1>2, <1>3 DEF FeederIInv

LEMMA FeederStep == FeederIInv /\ [FeederNext]_feederVars => FeederIInv'
  <1> SUFFICES ASSUME FeederIInv, [FeederNext]_feederVars PROVE FeederIInv'
    OBVIOUS
  <1>1. CASE FeederNext
    BY <1>1, DirectiveStep, ReturnStep DEF FeederNext
  <1>2. CASE UNCHANGED feederVars
    <2>1. Selects'
      BY <1>2, TraceMeaning, TraceMeaningAfter DEF feederVars, FeederIInv, Selects, DefinedWhereSelected
    <2>2. QED
      BY <2>1, <1>2 DEF feederVars, FeederIInv, FeederType, Reads
  <1>3. QED
    BY <1>1, <1>2

LEMMA FeederImplied == FeederIInv => FeederTypeOK /\ SelectedBranches /\ DefinedWhereSelected /\ ReadOnce
  <1> SUFFICES ASSUME FeederIInv PROVE FeederTypeOK /\ SelectedBranches /\ DefinedWhereSelected /\ ReadOnce
    OBVIOUS
  <1>1. FeederTypeOK
    <2>1. \A i \in DOMAIN returnpos : returnpos[i].file \in Files /\ returnpos[i].pos \in 0..MaxDirectives[returnpos[i].file]
      <3> SUFFICES ASSUME NEW i \in 1..Len(returnpos)
                   PROVE  returnpos[i].file \in Files /\ returnpos[i].pos \in 0..MaxDirectives[returnpos[i].file]
        BY DEF FeederIInv, FeederType
      <3>1. returnpos[i] \in Places
        BY DEF FeederIInv, FeederType
      <3>2. returnpos[i].file \in Files /\ returnpos[i].pos \in Nat
        BY <3>1 DEF Places
      <3>3. returnpos[i].pos <= Len(text[returnpos[i].file])
        BY DEF FeederIInv, Reads, ReadsIn, Within
      <3>4. /\ Len(text[returnpos[i].file]) <= MaxDirectives[returnpos[i].file]
            /\ Len(text[returnpos[i].file]) \in Nat /\ MaxDirectives[returnpos[i].file] \in Nat
        BY <3>2, SourceFeederAssumption DEF FeederIInv, FeederType
      <3>5. QED
        BY <3>2, <3>3, <3>4
    <2>2. \A i \in DOMAIN curcond : curcond[i].state \in {"if", "elif", "else"} /\ curcond[i].file \in Files
      <3>1. \A i \in DOMAIN curcond : curcond[i] \in Conds
        BY DEF FeederIInv, FeederType
      <3>2. QED
        BY <3>1 DEF Conds
    <2>3. feeder.source_dependencies \subseteq Files
      BY DEF FeederIInv, FeederType, Members
    <2>4. QED
      BY <2>1, <2>2, <2>3 DEF FeederTypeOK
  <1>2. SelectedBranches /\ DefinedWhereSelected
    BY TraceMeaning DEF FeederIInv, Selects, SelectedBranches, DefinedWhereSelected, Conditions
  <1>3. ReadOnce
    <2> SUFFICES ASSUME NEW f \in Files, text[f] # <<>>, text[f][1].op = "include_once", NEW j \in DOMAIN trace, NEW k \in DOMAIN trace,
                        trace[j].file = f, trace[k].file = f, trace[j].pos = trace[k].pos, trace[j].pos > 1
                 PROVE  j = k
      BY DEF ReadOnce
    <2>1. DOMAIN trace = 1..Len(trace)
      BY DEF FeederIInv, FeederType
    <2>2. ReadOn(returnpos, trace, f)
      BY DEF FeederIInv, Reads, ReadsIn, OnceOf
    <2>3. QED
      BY <2>1, <2>2 DEF ReadOn
  <1>4. QED
    BY <1>1, <1>2, <1>3

(* In every reachable state the conditions and places of the feeder are    *)
(* those the directives read so far ask for (OScFeederDq).                 *)
THEOREM FeederInvariant == FeederSpec => []FeederIInv
  BY FeederInitial, FeederStep, PTL DEF FeederSpec
=============================================================================
