------------------------------ MODULE SchemaDiff ------------------------------
(***************************************************************************)
(* How a schema evolves: diffSchemas in packages/schema/src/diff.ts, which *)
(* `rayfold check` runs against the lockfile, and the ordinals that        *)
(* `rayfold lock` carries on (packages/cli/src/main.ts).  What the diff    *)
(* promises is what a server does with an older client's calls:            *)
(* coerceArgs in packages/server/src/args.ts.                              *)
(*                                                                         *)
(* One member is followed over several versions, with every type it may    *)
(* take, and the members of one type with their ordinals.                  *)
(***************************************************************************)
EXTENDS Integers, Sequences, FiniteSets

CONSTANTS
  NoMember,     \* where a version does not have the member
  Bases,        \* named types
  Names,        \* member names
  MaxVersions,  \* versions published
  MaxOrdinal,   \* the highest ordinal written by hand
  MaxWritten    \* and how many of a version's are

\* A type reference: its innermost name, and which of its levels may be null,
\* the list itself first.
Types == [base : Bases, nulls : {<<a>> : a \in BOOLEAN} \cup (BOOLEAN \X BOOLEAN)]

\* A member of a version, in the use it is put to: a field of a result, of an
\* input, or an argument.  `past` says its sunset date has passed.
Members == [type : Types, default : BOOLEAN, past : BOOLEAN]
Uses    == {"result", "input", "arg"}

ASSUME SchemaAssumption ==
  /\ NoMember \notin Members /\ {"null", "empty", "absent"} \cap Bases = {}
  /\ {MaxVersions, MaxOrdinal, MaxWritten} \subseteq Nat

VARIABLES
  use,          \* what the member followed is
  versions,     \* its definition in each version published, NoMember where it is not there
  locks,        \* the versions of a type published
  locked,       \* the lock: the ordinal of each member
  highest,      \* and the highest its type ever used
  given         \* history: ordinals given to names, and whether they were written

memberVars  == <<use, versions>>
ordinalVars == <<locks, locked, highest, given>>
schemaVars  == <<memberVars, ordinalVars>>

-----------------------------------------------------------------------------
(* coerceArgs and coerceValue                                               *)

\* A value: lists around its end, which is null, the empty list or a scalar.
SentValues == [wraps : 0..2, end : {"null", "empty"} \cup Bases]
Absent == [wraps |-> 0, end |-> "absent"]
NullSent   == [wraps |-> 0, end |-> "null"]

\* Its levels are lists as far as the value is one; then a null where one may
\* be, a list that may be empty, or a scalar of the named type.
Coerces(t, v) ==
  LET levels == Len(t.nulls) IN
  /\ v.wraps < levels
  /\ CASE v.end = "null"  -> t.nulls[v.wraps + 1]
       [] v.end = "empty" -> v.wraps + 1 < levels
       [] OTHER           -> v.wraps + 1 = levels /\ v.end = t.base

\* A member a call leaves out or names.
Accepted(m, v) ==
  IF m = NoMember THEN v = Absent
  ELSE IF v = Absent THEN m.default \/ m.type.nulls[1]
  ELSE Coerces(m.type, v)

-----------------------------------------------------------------------------
(* diffFields and diffArgs                                                  *)

\* nullability: undefined where more than nullability differs.
Nullability(a, b) ==
  IF a.base # b.base \/ Len(a.nulls) # Len(b.nulls) THEN "undefined"
  ELSE LET looser  == \E i \in DOMAIN a.nulls : b.nulls[i] /\ ~a.nulls[i]
           tighter == \E i \in DOMAIN a.nulls : a.nulls[i] /\ ~b.nulls[i]
       IN CASE looser /\ tighter -> "mixed"
            [] looser -> "looser"
            [] tighter -> "tighter"
            [] OTHER -> "same"

\* Its own nullability set aside.
InnerType(t) == [t EXCEPT !.nulls[1] = FALSE]

\* A member may go once its sunset date has passed.
RemovedBreaks(o) == ~o.past

Optional(m) == m.type.nulls[1] \/ m.default

\* What a server returns may only become non-null.
FieldBreaks(o, n) == Nullability(o.type, n.type) \notin {"same", "tighter"}

\* What a caller sends may only become nullable, and a default only goes from
\* a field that may be null.
InputBreaks(o, n) ==
  \/ Nullability(o.type, n.type) \notin {"same", "looser"}
  \/ o.default /\ ~n.default /\ ~n.type.nulls[1]

\* Mutant: only the items are looked at.
ArgBreaksByItems(o, n) == Nullability(InnerType(o.type), InnerType(n.type)) \notin {"same", "looser"}

\* An argument's own nullability is whether it is optional.
ArgBreaks(o, n) ==
  \/ Nullability(InnerType(o.type), InnerType(n.type)) \notin {"same", "looser"}
  \/ Optional(o) /\ ~Optional(n)

\* A member added must be one callers may leave out, unless they receive it.
AddedBreaks(u, n) == u # "result" /\ ~Optional(n)

Breaks(u, o, n) ==
  CASE o = NoMember /\ n = NoMember -> FALSE
    [] n = NoMember -> RemovedBreaks(o)
    [] o = NoMember -> AddedBreaks(u, n)
    [] u = "result" -> FieldBreaks(o, n)
    [] u = "input"  -> InputBreaks(o, n)
    [] OTHER -> ArgBreaks(o, n)

\* The next version passes the check against the last.
PublishMember(m) ==
  /\ Len(versions) < MaxVersions
  /\ versions # <<>> => ~Breaks(use, versions[Len(versions)], m)
  /\ versions' = Append(versions, m)
  /\ UNCHANGED <<use, ordinalVars>>

-----------------------------------------------------------------------------
(* diffOrdinals and carryOrdinals                                           *)

\* The members of a version: their names in order, and the ordinal written at
\* one, 0 for none.
FieldLists ==
  {s \in UNION {[1..k -> [name : Names, written : 0..MaxOrdinal]] : k \in 0..Cardinality(Names)} :
     /\ \A i, j \in DOMAIN s : i # j => s[i].name # s[j].name
     /\ Cardinality({i \in DOMAIN s : s[i].written # 0}) <= MaxWritten}

\* A member keeps the ordinal the lock recorded, and a new one takes none that
\* the lock gave to another.
OrdinalBreaks(f) ==
  /\ f.written # 0 /\ locks > 0
  /\ IF f.name \in DOMAIN locked THEN f.written # locked[f.name]
     ELSE \E n \in DOMAIN locked : locked[n] = f.written

Largest(s) == IF s = {} THEN 0 ELSE CHOOSE n \in s : \A m \in s : m <= n

Written(fs) == {fs[i].written : i \in DOMAIN fs}

\* The highest ordinal the type ever used, also by members that left it.
HighestEver(fs) == Largest({highest} \cup {locked[n] : n \in DOMAIN locked} \cup Written(fs))

\* As written, or where it stands.
ByPosition(fs, i) == IF fs[i].written # 0 THEN fs[i].written ELSE i

\* Mutant: a member that moved is numbered by where it stands.
CarriedByPosition(fs, i) ==
  IF i \in DOMAIN fs /\ fs[i].written = 0 THEN HighestEver(<<>>) + i ELSE fs[i].written

\* As written, as the lock has it by name, or the next above all others.
Carried(fs, i) ==
  LET isNew(j) == fs[j].written = 0 /\ fs[j].name \notin DOMAIN locked IN
  IF fs[i].written # 0 THEN fs[i].written
  ELSE IF fs[i].name \in DOMAIN locked THEN locked[fs[i].name]
  ELSE HighestEver(fs) + Cardinality({j \in 1..i : isNew(j)})

\* By position as long as there is no lock.
Numbered(fs, i) == IF locks = 0 THEN ByPosition(fs, i) ELSE Carried(fs, i)

\* Written now, or when the lock took it.
ByHand(f) ==
  f.written # 0 \/ \E g \in given : g.name = f.name /\ g.written /\ f.name \in DOMAIN locked /\ g.ordinal = locked[f.name]

\* `check` passes and `lock` records.
LockFields(fs) ==
  /\ locks < MaxVersions /\ locks' = locks + 1
  /\ \A i \in DOMAIN fs : ~OrdinalBreaks(fs[i])
  /\ LET number == [i \in DOMAIN fs |-> Numbered(fs, i)] IN
     /\ locked' = [n \in {fs[i].name : i \in DOMAIN fs} |->
                     number[CHOOSE i \in DOMAIN fs : fs[i].name = n]]
     /\ highest' = Largest({HighestEver(fs)} \cup {number[i] : i \in DOMAIN fs})
     /\ given' = given \cup {[name |-> fs[i].name, ordinal |-> number[i], written |-> ByHand(fs[i])] :
                               i \in DOMAIN fs}
  /\ UNCHANGED memberVars

-----------------------------------------------------------------------------

SchemaInit ==
  /\ use \in Uses /\ versions = <<>>
  /\ locks = 0 /\ locked = <<>> /\ highest = 0 /\ given = {}

MemberNext  == \E m \in Members \cup {NoMember} : PublishMember(m)
OrdinalNext == \E fs \in FieldLists : LockFields(fs)

SchemaSpec == SchemaInit /\ [][MemberNext \/ OrdinalNext]_schemaVars

-----------------------------------------------------------------------------

\* Versions and ordinals are in their domains, and the lock's highest is that.
SchemaTypeOK ==
  /\ use \in Uses /\ \A i \in DOMAIN versions : versions[i] \in Members \cup {NoMember}
  /\ DOMAIN locked \subseteq Names /\ \A g \in given : g.ordinal \in 1..highest

\* The member is there from the i-th version to the j-th.
Stays(i, j) == \A k \in i..j : versions[k] # NoMember

\* What a client of any version may send, every later version accepts, whatever
\* was published between them, but for a member that left after its sunset date
\* and for the explicit null of an argument that became optional by a default
\* (spec 11: changes that pass the check break no caller).
CallsStillAccepted ==
  use # "result" =>
    \A i, j \in DOMAIN versions : i < j =>
      \A v \in SentValues \cup {Absent} :
        (Accepted(versions[i], v) /\ (v = Absent \/ Stays(i, j)) /\ (use = "arg" => v # NullSent))
          => Accepted(versions[j], v)

\* What any later version answers, a client of an earlier one can read.
ResultsStillRead ==
  use = "result" =>
    \A i, j \in DOMAIN versions : (i < j /\ Stays(i, j)) =>
      \A v \in SentValues : Coerces(versions[j].type, v) => Coerces(versions[i].type, v)

\* The lock never gives a member an ordinal another one has or had: two names
\* share one only where somebody wrote it (spec 11: an ordinal is never reused).
OrdinalsNotShared ==
  \A g, h \in given : (g.ordinal = h.ordinal /\ g.name # h.name) => (g.written \/ h.written)

\* A member keeps its ordinal for as long as it stays, wherever it moves.
OrdinalsKept ==
  [][\A n \in DOMAIN locked \cap DOMAIN locked' : locked'[n] = locked[n]]_ordinalVars

\* A change that passes the check breaks no caller and no reader, and no lock
\* gives an ordinal twice.
SchemaKept == SchemaTypeOK /\ CallsStillAccepted /\ ResultsStillRead /\ OrdinalsNotShared
=============================================================================
