------------------------------- MODULE PolicySql -------------------------------
(***************************************************************************)
(* A read policy pushed into SQL: compilePolicy and compare in             *)
(* packages/postgres/src/index.ts, and compile and binary in the Kotlin    *)
(* JdbcStore, beside the evaluator that decides afterwards, evalExpr in    *)
(* packages/schema/src/expr.ts and Expr.kt.  An expression the             *)
(* runtime cannot evaluate is an error, and a comparison in SQL may be     *)
(* unknown; a fragment may select more rows than the policy allows and     *)
(* never fewer.                                                            *)
(***************************************************************************)
EXTENDS Integers, Sequences, FiniteSets, SequencesExt

CONSTANTS
  Policies,     \* the policies pushed down
  Records,      \* the rows of a table
  Columns       \* of each field, the kind of its scalar, or "none" without a column

VARIABLES
  policy,
  fragment,     \* what it compiled to, or LOOSE before it was
  ktFragment    \* what the Kotlin store compiled it to

policyVars == <<policy, fragment, ktFragment>>

-----------------------------------------------------------------------------
(* Values.  A text has a place in the order of texts, and a value where it  *)
(* reads as a number; a list has items.                                     *)

NullV     == [k |-> "null", n |-> 0, x |-> 0, items |-> <<>>]
Num(n)    == [NullV EXCEPT !.k = "num", !.n = n, !.x = n]
Text(n, x) == [NullV EXCEPT !.k = "text", !.n = n, !.x = x]
Bool(b)   == [NullV EXCEPT !.k = "bool", !.n = IF b THEN 1 ELSE 0]
List(s)   == [NullV EXCEPT !.k = "list", !.items = s]
Error     == [NullV EXCEPT !.k = "error"]

Numeric(v) == v.x # 0
Truthy(v)  == v.k \notin {"null", "error"} /\ v # Bool(FALSE)

\* A number equals numeric text of its value; otherwise like equals like.
LooseEq(a, b) ==
  \/ a.k = "null" /\ b.k = "null"
  \/ /\ {a.k, b.k} \cap {"null", "list"} = {}
     /\ IF a.k = b.k THEN a = b ELSE "num" \in {a.k, b.k} /\ Numeric(a) /\ Numeric(b) /\ a.x = b.x

\* Numbers and numeric text by value, other text by its place; the rest has no order.
Order(op, a, b) ==
  LET lt(x, y) == CASE op = "<" -> x < y [] op = "<=" -> x <= y [] op = ">" -> x > y [] op = ">=" -> x >= y IN
  CASE a.k = "null" \/ b.k = "null" -> Bool(FALSE)
    [] Numeric(a) /\ Numeric(b) -> Bool(lt(a.x, b.x))
    [] a.k = "text" /\ b.k = "text" -> Bool(lt(a.n, b.n))
    [] OTHER -> Error

IsIn(a, b) == b.k = "list" /\ \E i \in DOMAIN b.items : LooseEq(a, b.items[i])

RECURSIVE Eval(_, _)
Eval(e, row) ==
  CASE e[1] = "lit" -> e[2]
    [] e[1] = "field" -> row[e[2]]
    [] e[1] = "not" -> LET v == Eval(e[2], row) IN IF v = Error THEN v ELSE Bool(~Truthy(v))
    [] OTHER ->
         LET op == e[2]
             l == Eval(e[3], row)
             r == Eval(e[4], row)
         IN CASE l = Error -> Error
              [] op = "&&" /\ ~Truthy(l) -> Bool(FALSE)
              [] op = "||" /\ Truthy(l) -> Bool(TRUE)
              [] r = Error -> Error
              [] op \in {"&&", "||"} -> Bool(Truthy(r))
              [] op = "==" -> Bool(LooseEq(l, r))
              [] op = "!=" -> Bool(~LooseEq(l, r))
              [] op = "in" -> Bool(IsIn(l, r))
              [] OTHER -> Order(op, l, r)

RECURSIVE ReadsRow(_)
ReadsRow(e) ==
  CASE e[1] = "lit" -> FALSE
    [] e[1] = "field" -> TRUE
    [] e[1] = "not" -> ReadsRow(e[2])
    [] OTHER -> ReadsRow(e[3]) \/ ReadsRow(e[4])

-----------------------------------------------------------------------------
(* Fragments: a tree of SQL, whether it is exact, and how many parameters   *)
(* the statement has once it is added.                                      *)

LOOSE(ps)        == [sql |-> <<"const", TRUE>>, exact |-> FALSE, params |-> ps]
Constant(b, ps)  == [sql |-> <<"const", b>>, exact |-> TRUE, params |-> ps]
Exactly(s, ps)   == [sql |-> s, exact |-> TRUE, params |-> ps]

\* A column beside a parameter: its number and its value.
Test(op, c, v, ps) == <<"test", op, c, Len(ps) + 1, v>>

\* Whether a value could equal one of this kind.
KindMatches(kind, v) ==
  CASE kind \in {"text", "num", "bool"} -> v.k = kind
    [] kind = "dec" -> v.k = "num" \/ (v.k = "text" /\ Numeric(v))
    [] OTHER -> FALSE

\* Texts, numbers and flags are compared as the runtime does.  Decimals travel
\* as text, which the runtime may compare as text, so only their equality is.
Compare(c, op, v, ps) ==
  LET kind == Columns[c] IN
     CASE op = "in" /\ v.k # "list" -> Constant(FALSE, ps)
       [] op = "in" ->
            IF kind \in {"text", "num"} /\ \A i \in DOMAIN v.items : KindMatches(kind, v.items[i])
            THEN Exactly(Test("any", c, v, ps), Append(ps, v)) ELSE LOOSE(ps)
       [] op \in {"==", "!="} /\ v.k = "null" -> Exactly(<<"null", c, op = "==">>, ps)
       [] op \in {"==", "!="} /\ KindMatches(kind, v) /\ kind # "dec" ->
            Exactly(Test(IF op = "==" THEN "same" ELSE "other", c, v, ps), Append(ps, v))
       [] op = "==" /\ KindMatches(kind, v) -> [Exactly(Test("equal", c, v, ps), Append(ps, v)) EXCEPT !.exact = FALSE]
       [] op \in {"<", "<=", ">", ">="} /\ v.k = "num" /\ kind = "num" -> Exactly(Test(op, c, v, ps), Append(ps, v))
       [] OTHER -> LOOSE(ps)

Flip(op) == CASE op = "<" -> ">" [] op = ">" -> "<" [] op = "<=" -> ">=" [] op = ">=" -> "<=" [] OTHER -> op

\* Only an exact fragment can be negated; one dropped takes its parameters along.
Not(f, ps) == IF f.exact THEN Exactly(<<"not", f.sql>>, f.params) ELSE LOOSE(ps)

\* Mutant: one exact side makes the whole exact.
EitherExact(l, r) == l.exact \/ r.exact

\* Two fragments are exact together if both are.
BothExact(l, r) == l.exact /\ r.exact

IsField(e) == e[1] = "field"

\* A part that reads no field of the row is evaluated once, here.
RECURSIVE Compile(_, _)
Compile(e, ps) ==
  IF ~ReadsRow(e) THEN LET v == Eval(e, <<>>) IN IF v = Error THEN LOOSE(ps) ELSE Constant(Truthy(v), ps)
  ELSE CASE e[1] = "field" ->
              CASE Columns[e[2]] = "none" -> LOOSE(ps)
                [] Columns[e[2]] = "bool" -> Exactly(<<"true", e[2]>>, ps)
                [] OTHER -> Exactly(<<"null", e[2], FALSE>>, ps)
         [] e[1] = "not" -> Not(Compile(e[2], ps), ps)
         [] e[2] \in {"&&", "||"} ->
              LET l == Compile(e[3], ps)
                  r == Compile(e[4], l.params)
              IN [sql |-> <<e[2], l.sql, r.sql>>, exact |-> BothExact(l, r), params |-> r.params]
         [] OTHER ->
              LET field == IF IsField(e[3]) THEN e[3] ELSE e[4]
                  other == IF IsField(e[3]) THEN e[4] ELSE e[3]
                  v     == Eval(other, <<>>)
              IN IF \/ IsField(e[3]) = IsField(e[4]) \/ (e[2] = "in" /\ ~IsField(e[3]))
                    \/ ReadsRow(other) \/ Columns[field[2]] = "none" \/ v = Error
                 THEN LOOSE(ps)
                 ELSE Compare(field[2], IF IsField(e[3]) THEN e[2] ELSE Flip(e[2]), v, ps)

-----------------------------------------------------------------------------
(* The Kotlin store leaves a flag alone and orderings to the runtime, and    *)
(* reads unknown as false where it negates.                                  *)

\* A value the column can be compared with as the policy would compare them.
KtOperand(c, v) == KindMatches(Columns[c], v)

KtCompare(c, op, v, ps) ==
  LET test(t) == IF KtOperand(c, v) THEN Exactly(Test(t, c, v, ps), Append(ps, v)) ELSE LOOSE(ps) IN
  CASE op \in {"==", "!="} /\ v.k = "null" -> Exactly(<<"null", c, op = "==">>, ps)
    [] op = "==" -> test("equal")
    [] op = "!=" -> test("other")
    [] op = "in" /\ v.k = "list" ->
         IF \A i \in DOMAIN v.items : KtOperand(c, v.items[i])
         THEN IF v.items = <<>> THEN Constant(FALSE, ps) ELSE Exactly(Test("within", c, v, ps), Append(ps, v))
         ELSE LOOSE(ps)
    [] OTHER -> LOOSE(ps)

KtNot(f, ps) == IF f.exact THEN Exactly(<<"not", <<"known", f.sql>>>>, f.params) ELSE LOOSE(ps)

RECURSIVE KtCompile(_, _)
KtCompile(e, ps) ==
  IF ~ReadsRow(e) THEN LET v == Eval(e, <<>>) IN IF v = Error THEN LOOSE(ps) ELSE Constant(Truthy(v), ps)
  ELSE CASE e[1] = "field" -> LOOSE(ps)
         [] e[1] = "not" -> KtNot(KtCompile(e[2], ps), ps)
         [] e[2] \in {"&&", "||"} ->
              LET l == KtCompile(e[3], ps)
                  r == KtCompile(e[4], l.params)
              IN [sql |-> <<e[2], l.sql, r.sql>>, exact |-> l.exact /\ r.exact, params |-> r.params]
         [] OTHER ->
              LET mapped(x) == IsField(x) /\ Columns[x[2]] # "none"
                  field == IF mapped(e[3]) THEN e[3] ELSE e[4]
                  other == IF mapped(e[3]) THEN e[4] ELSE e[3]
                  v     == Eval(other, <<>>)
              IN IF \/ ~mapped(field) \/ (e[2] = "in" /\ ~mapped(e[3]))
                    \/ ReadsRow(other) \/ v = Error
                 THEN LOOSE(ps)
                 ELSE KtCompare(field[2], e[2], v, ps)

CompilePolicy ==
  /\ fragment = LOOSE(<<>>) /\ ktFragment = LOOSE(<<>>)
  /\ fragment' = Compile(policy, <<>>) /\ ktFragment' = KtCompile(policy, <<>>)
  /\ UNCHANGED policy

-----------------------------------------------------------------------------
(* What Postgres selects                                                    *)

\* A comparison that is unknown where the column is null.
Known(b) == IF b THEN "true" ELSE "false"

RECURSIVE Selects(_, _)
Selects(s, row) ==
  CASE s[1] = "const" -> Known(s[2])
    [] s[1] = "null"  -> Known((row[s[2]] = NullV) = s[3])
    [] s[1] = "true"  -> Known(row[s[2]] = Bool(TRUE))
    [] s[1] = "not"   -> LET x == Selects(s[2], row) IN
                         CASE x = "true" -> "false" [] x = "false" -> "true" [] OTHER -> x
    [] s[1] = "known" -> Known(Selects(s[2], row) = "true")
    [] s[1] = "&&"    -> LET xs == {Selects(s[2], row), Selects(s[3], row)} IN
                         IF "false" \in xs THEN "false" ELSE IF "unknown" \in xs THEN "unknown" ELSE "true"
    [] s[1] = "||"    -> LET xs == {Selects(s[2], row), Selects(s[3], row)} IN
                         IF "true" \in xs THEN "true" ELSE IF "unknown" \in xs THEN "unknown" ELSE "false"
    [] OTHER ->
         LET op == s[2]
             c  == row[s[3]]
             v  == s[5]
             alike(a, b) == IF Columns[s[3]] \in {"num", "dec"} THEN a.x = b.x ELSE a.n = b.n
         IN CASE op = "equal" -> IF c = NullV THEN "unknown" ELSE Known(alike(c, v))
              [] op = "within" -> IF c = NullV THEN "unknown" ELSE Known(\E i \in DOMAIN v.items : alike(c, v.items[i]))
              [] op = "any"   -> Known(c # NullV /\ \E i \in DOMAIN v.items : alike(c, v.items[i]))
              [] op = "same"  -> Known(c # NullV /\ alike(c, v))
              [] op = "other" -> Known(c = NullV \/ ~alike(c, v))
              [] OTHER -> Known(Order(op, c, v) = Bool(TRUE))

RECURSIVE ParamsRead(_)
ParamsRead(s) ==
  CASE s[1] \in {"const", "null", "true"} -> {}
    [] s[1] \in {"not", "known"} -> ParamsRead(s[2])
    [] s[1] \in {"&&", "||"} -> ParamsRead(s[2]) \cup ParamsRead(s[3])
    [] OTHER -> {<<s[4], s[5]>>}

-----------------------------------------------------------------------------

PolicyInit == policy \in Policies /\ fragment = LOOSE(<<>>) /\ ktFragment = LOOSE(<<>>)
PolicyNext == CompilePolicy
PolicySpec == PolicyInit /\ [][PolicyNext]_policyVars

\* Pushing a policy down never drops a row the policy allows, whatever is null,
\* of another kind or not to be evaluated (the header of postgres/src/index.ts).
PushdownDropsNothing ==
  fragment.sql # <<"const", TRUE>> => \A row \in Records : Eval(policy, row) = Bool(TRUE) => Selects(fragment.sql, row) = "true"

\* A fragment called exact holds just where the policy does, and is neither
\* unknown nor an error: so it may be negated.
ExactMayBeNegated ==
  fragment.exact => \A row \in Records :
    /\ Eval(policy, row) # Error
    /\ Selects(fragment.sql, row) = Known(Truthy(Eval(policy, row)))

\* The statement reads every parameter it is handed, each under its number:
\* Postgres and JDBC refuse one with more.
ParamsAreRead ==
  \A f \in {fragment, ktFragment} : ParamsRead(f.sql) = {<<i, f.params[i]>> : i \in DOMAIN f.params}

KtDropsNothing(rows) ==
  ktFragment.sql # <<"const", TRUE>> =>
    \A row \in rows : Eval(policy, row) = Bool(TRUE) => Selects(ktFragment.sql, row) = "true"

\* The Kotlin store's WHERE keeps every row the policy allows ("which keeps the
\* result a superset of what the policy allows", JdbcStore.binary).
KtSuperset == KtDropsNothing(Records)

RECURSIVE ReadsDecimal(_)
ReadsDecimal(e) ==
  CASE e[1] = "lit" -> FALSE
    [] e[1] = "field" -> Columns[e[2]] = "dec"
    [] e[1] = "not" -> ReadsDecimal(e[2])
    [] OTHER -> ReadsDecimal(e[3]) \/ ReadsDecimal(e[4])

\* The Kotlin store's WHERE drops no row a policy that reads no Decimal allows,
\* null columns, values of other kinds and failing parts included.
KtSupersetWithoutDecimals == ReadsDecimal(policy) \/ KtSuperset

\* A policy compiled to SQL keeps every row it allows, in both stores, reads the
\* parameters it is given, and is negated only where it is exact.
PushdownIsSafe == PushdownDropsNothing /\ ExactMayBeNegated /\ ParamsAreRead /\ KtSupersetWithoutDecimals
=============================================================================
