-------------------------- MODULE ExpressionParser --------------------------
(***************************************************************************)
(* How the recursive descent parser groups the tokens of an expression     *)
(* (compiler/parser/dqc_parser_expr.cpp).  A text grows by a token at a    *)
(* time and is parsed from its start each time: what a parse leaves is for *)
(* the statement parser.                                                   *)
(***************************************************************************)
EXTENDS Integers, Sequences

CONSTANTS Tokens,    \* those that occur in the text
          MaxTokens

VARIABLE text

Rises == {"<", "<="}
Falls == {">", ">="}
CompareOps == {"==", "<>"} \cup Rises \cup Falls

(* They end an operand list although they begin with an operator. *)
AssignOps == {"+=", "-=", "++", "--", "*=", "/=", "<<=", ">>=", "&=", "|="}

(* ParseExprAdd .. ParseExprShift, from the loosest to the tightest. *)
BinLevels == << {"+", "-"}, {"*"}, {"/", "div", "rem", "mod"}, {"|", "xor"}, {"&"}, {"<<", ">>"} >>

(* A tree and the tokens left; no tree after an error.                     *)
Read(tree, rest) == [ok |-> TRUE, tree |-> tree, rest |-> rest]
Fail(rest) == [ok |-> FALSE, tree |-> <<>>, rest |-> rest]
Next1(p) == IF p.rest = <<>> THEN "" ELSE p.rest[1]

(* An operator put before its operand or between its operands. *)
Prefixed(op, p) == IF p.ok THEN Read(<<op, p.tree>>, p.rest) ELSE p
Joined(op, left, right) == IF right.ok THEN Read(<<op, left.tree, right.tree>>, right.rest) ELSE right

RECURSIVE ParseExpression(_), ParseAnds(_), ParseNot(_), ParseComparison(_), ParseLevel(_, _),
          ParseUnary(_), MoreOr(_), MoreAnd(_), MoreOps(_, _)

Closed(p) == IF ~p.ok \/ Next1(p) # ")" THEN Fail(p.rest) ELSE Read(<<"(", p.tree>>, Tail(p.rest))

ParsePrimary(t) ==
    IF t = <<>> THEN Fail(t)
    ELSE IF t[1] = "(" THEN Closed(ParseExpression(Tail(t)))
    ELSE IF t[1] = "a" THEN Read(<<"a">>, Tail(t))
    ELSE Fail(t)

ParseUnary(t) ==
    IF t # <<>> /\ t[1] \in {"-", "~"} THEN Prefixed(t[1], ParseUnary(Tail(t))) ELSE ParsePrimary(t)

(* The loop of ParseBinOpLevel, after the operands read so far. *)
MoreOps(level, p) ==
    IF ~p.ok \/ Next1(p) \notin BinLevels[level] \ AssignOps THEN p
    ELSE MoreOps(level, Joined(Next1(p), p, ParseLevel(level + 1, Tail(p.rest))))

ParseLevel(level, t) ==
    IF level > Len(BinLevels) THEN ParseUnary(t) ELSE MoreOps(level, ParseLevel(level + 1, t))

ParseExprAdd(t) == ParseLevel(1, t)

SameDirection(op, next) == {op, next} \subseteq Rises \/ {op, next} \subseteq Falls

ParseRange(op, left, middle, right) ==
    IF ~right.ok THEN right
    ELSE Read(<<"range", left.tree, op, middle.tree, Next1(middle), right.tree>>, right.rest)

(* After the left operand: the middle one is parsed where a comparison follows. *)
Compared(op, left, middle) ==
    CASE ~left.ok -> left
      [] left.ok /\ op \in {"is", "as"} ->
            IF Len(left.rest) > 1 /\ left.rest[2] = "T"
            THEN Read(<<op, left.tree>>, SubSeq(left.rest, 3, Len(left.rest))) ELSE Fail(left.rest)
      [] left.ok /\ op \in CompareOps ->
            IF middle.ok /\ SameDirection(op, Next1(middle))
            THEN ParseRange(op, left, middle, ParseExprAdd(Tail(middle.rest))) ELSE Joined(op, left, middle)
      [] OTHER -> left

ParseRest(left) == Compared(Next1(left), left, ParseExprAdd(Tail(left.rest)))
ParseComparison(t) == ParseRest(ParseExprAdd(t))

ParseNot(t) ==
    IF t # <<>> /\ t[1] = "not" THEN Prefixed("not", ParseNot(Tail(t))) ELSE ParseComparison(t)

MoreAnd(p) ==
    IF ~p.ok \/ Next1(p) # "and" THEN p ELSE MoreAnd(Joined("and", p, ParseNot(Tail(p.rest))))

ParseAnds(t) == MoreAnd(ParseNot(t))

MoreOr(p) ==
    IF ~p.ok \/ Next1(p) # "or" THEN p ELSE MoreOr(Joined("or", p, ParseAnds(Tail(p.rest))))

ParseExpression(t) == MoreOr(ParseAnds(t))

ExpressionInit == text = <<>>

Write(token) == Len(text) < MaxTokens /\ text' = Append(text, token)

ExpressionNext == \E token \in Tokens : Write(token)

ExpressionSpec == ExpressionInit /\ [][ExpressionNext]_text

(***************************************************************************)
(* Properties: the reference is the table of the language's documentation. *)
(***************************************************************************)
(* Its levels, loosest first; a prefix operator and parentheses besides.   *)
Tightness(op) ==
    CASE op = "or" -> 1 [] op = "and" -> 2 [] op = "not" -> 3
      [] op \in CompareOps \cup {"is", "as", "range"} -> 4
      [] op \in {"+", "-"} -> 5 [] op = "*" -> 6 [] op \in {"/", "div", "rem", "mod"} -> 7
      [] op \in {"|", "xor"} -> 8 [] op = "&" -> 9 [] op \in {"<<", ">>"} -> 10
      [] OTHER -> 12

Strength(tree) == IF tree[1] \in {"-", "~"} /\ Len(tree) = 2 THEN 11 ELSE Tightness(tree[1])

RECURSIVE Yield(_), Grouped(_), Derived(_, _)
Yield(tree) ==
    CASE tree = <<"a">> -> tree
      [] tree[1] = "(" -> <<"(">> \o Yield(tree[2]) \o <<")">>
      [] tree[1] = "range" -> Yield(tree[2]) \o <<tree[3]>> \o Yield(tree[4]) \o <<tree[5]>> \o Yield(tree[6])
      [] tree[1] \in {"is", "as"} -> Yield(tree[2]) \o <<tree[1], "T">>
      [] Len(tree) = 2 -> <<tree[1]>> \o Yield(tree[2])
      [] OTHER -> Yield(tree[2]) \o <<tree[1]>> \o Yield(tree[3])

(* Operands bind tighter than their operator; of equal ones the left groups *)
(* first, but comparisons do not chain.                                    *)
Grouped(tree) ==
    LET at == Strength(tree)
    IN  CASE tree = <<"a">> -> TRUE
          [] tree[1] = "(" -> Grouped(tree[2])
          [] tree[1] = "range" -> \A i \in {2, 4, 6} : Strength(tree[i]) > at /\ Grouped(tree[i])
          [] tree[1] \in {"is", "as"} -> Strength(tree[2]) > at /\ Grouped(tree[2])
          [] Len(tree) = 2 -> Strength(tree[2]) >= at /\ Grouped(tree[2])
          [] OTHER -> /\ Strength(tree[3]) > at /\ Grouped(tree[2]) /\ Grouped(tree[3])
                      /\ IF at = 4 THEN Strength(tree[2]) > at ELSE Strength(tree[2]) >= at

(* The texts that have a grouping whose loosest operator is at least this tight. *)
Derived(t, at) ==
    \/ t = <<"a">>
    \/ Len(t) > 2 /\ t[1] = "(" /\ t[Len(t)] = ")" /\ Derived(SubSeq(t, 2, Len(t) - 1), 1)
    \/ Len(t) > 1 /\ t[1] \in {"-", "~"} /\ at <= 11 /\ Derived(Tail(t), 11)
    \/ Len(t) > 1 /\ t[1] = "not" /\ at <= 3 /\ Derived(Tail(t), 3)
    \/ Len(t) > 2 /\ t[Len(t)] = "T" /\ t[Len(t) - 1] \in {"is", "as"} /\ at <= 4 /\ Derived(SubSeq(t, 1, Len(t) - 2), 5)
    \/ \E i \in 2 .. Len(t) - 1 :
         LET level == Tightness(t[i])
         IN  /\ level \in at .. 10 \ {3}
             /\ t[i] \notin {"is", "as"}
             /\ Derived(SubSeq(t, 1, i - 1), IF level = 4 THEN 5 ELSE level)
             /\ \/ Derived(SubSeq(t, i + 1, Len(t)), level + 1)
                \/ \E j \in i + 2 .. Len(t) - 1 :
                     /\ {t[i], t[j]} \subseteq Rises \/ {t[i], t[j]} \subseteq Falls
                     /\ Derived(SubSeq(t, i + 1, j - 1), 5)
                     /\ Derived(SubSeq(t, j + 1, Len(t)), 5)

(* What is parsed is grouped as the documented precedence says, stands for *)
(* the tokens it was read from, and every text that has such a grouping is *)
(* parsed to its end.                                                      *)
GroupsAsDocumented ==
    \A p \in {ParseExpression(text)} :
        /\ p.ok => Yield(p.tree) \o p.rest = text /\ Grouped(p.tree)
        /\ (p.ok /\ p.rest = <<>>) <=> Derived(text, 1)
=============================================================================
