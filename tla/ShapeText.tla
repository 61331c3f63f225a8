------------------------------ MODULE ShapeText -------------------------------
(***************************************************************************)
(* Shapes as text: the parser, the printer and the canonical form of       *)
(* packages/schema/src/shape.ts, the parser of rayfold-core/Shapes.kt, and *)
(* the registry of packages/server/src/views.ts, which keeps shapes by the *)
(* id of their canonical form.  A text is the sequence of its tokens.      *)
(***************************************************************************)
EXTENDS Integers, Sequences, SequencesExt, FiniteSetsExt, Functions

CONSTANTS
  WrittenShapes,          \* shapes as they are written
  Registered,          \* those clients ask with and servers register
  NamedViews,          \* of each declared view, its shape
  MaxShapeNesting,     \* how deep a text may nest
  MaxLearned           \* how many shapes learned from requests are kept

VARIABLES
  selection,  \* the shape looked at
  pinned,     \* ids of the shapes the server registered
  learned,    \* ids learned from requests, least recently used first
  uses        \* ids in the order they were last used, for the properties

shapeVars == <<selection, pinned, learned, uses>>

-----------------------------------------------------------------------------
(* Items.  A field has a name, an alias or "", arguments, a shape of its    *)
(* own or none, and modifiers; a spread names a view.                       *)

NoShape == [kind |-> "none"]
Anything == [kind |-> "field", name |-> "", alias |-> "", args |-> <<>>, shape |-> NoShape,
             eager |-> FALSE, partial |-> FALSE, label |-> ""]
Selecting(items) == [kind |-> "shape", items |-> items]

Punct(x) == <<"punct", x>>
Name(x) == <<"name", x>>
Literal(x) == <<"literal", x>>

\* The same items under the names in order, a key given twice keeping its last value.
WithKey(args, k, v) == LET i == SelectInSeq(args, LAMBDA a : a[1] = k)
                       IN IF i = 0 THEN Append(args, <<k, v>>) ELSE [args EXCEPT ![i] = <<k, v>>]

\* Texts in some order all implementations share: that of their tokens.
TokenOrder == <<Punct("{"), Punct("}"), Punct("["), Punct("]"), Punct("("), Punct(")"), Punct(":"), Punct("$"), Punct("@"), Punct("..."), Punct("."),
                Name("a"), Name("b"), Name("c"), Name("on"), Name("T"), Name("U"), Name("v"), Name("w"), Name("defer"), Name("label"), Name("eager"), Name("partial"),
                Literal("1"), Literal("2"), Literal("a"), Literal("b"), Literal("x")>>
Rank(t) == SelectInSeq(TokenOrder, LAMBDA u : u = t)

Before(x, y) ==
  LET From(differ) == IF differ = {} THEN Len(x) < Len(y)
                      ELSE \E i \in differ : (\A j \in differ : i <= j) /\ Rank(x[i]) < Rank(y[i])
  IN From({i \in DOMAIN x \cap DOMAIN y : x[i] # y[i]})

ByKey(args) == SortSeq(args, LAMBDA x, y : Rank(Name(x[1])) < Rank(Name(y[1])))

-----------------------------------------------------------------------------
(* Printing: to be read, or to be hashed, with its keys quoted.             *)

RECURSIVE ValueText(_, _)
ValueText(v, Key) ==
  CASE v[1] = "scalar" -> <<Literal(v[2])>>
    [] v[1] = "var"    -> <<Punct("$"), Name(v[2])>>
    [] v[1] = "list"   -> <<Punct("[")>> \o FlattenSeq([i \in DOMAIN v[2] |-> ValueText(v[2][i], Key)]) \o <<Punct("]")>>
    [] v[1] = "object" -> LET Pairs(fs) == [i \in DOMAIN fs |-> <<<<Key, fs[i][1]>>, Punct(":")>> \o ValueText(fs[i][2], Key)]
                          IN <<Punct("{")>> \o FlattenSeq(Pairs(ByKey(v[2]))) \o <<Punct("}")>>

ArgsText(args, Key) ==
  LET Pairs(as) == [i \in DOMAIN as |-> <<Name(as[i][1]), Punct(":")>> \o ValueText(as[i][2], Key)]
  IN IF args = <<>> THEN <<>> ELSE <<Punct("(")>> \o FlattenSeq(Pairs(ByKey(args))) \o <<Punct(")")>>

Modifiers(i) ==
  (IF i.eager THEN <<Punct("@"), Name("eager")>> ELSE <<>>) \o (IF i.partial THEN <<Punct("@"), Name("partial")>> ELSE <<>>)

\* Around the text of a shape, what an item says.
ItemText(i, inner, Key) ==
  CASE i.kind = "spread" -> <<Punct("..."), Name(i.name), Punct("."), Name(i.label)>>
    [] i.kind = "on"     -> <<Punct("..."), Name("on"), Name(i.name)>> \o inner
    [] i.kind = "defer"  -> <<Punct("@"), Name("defer")>>
                            \o (IF i.label = "" THEN <<>> ELSE <<Punct("("), Name("label"), Punct(":"), Literal(i.label), Punct(")")>>) \o inner
    [] i.kind = "field"  -> (IF i.alias = "" THEN <<>> ELSE <<Name(i.alias), Punct(":")>>) \o <<Name(i.name)>>
                            \o ArgsText(i.args, Key) \o inner \o Modifiers(i)

Braced(texts) == <<Punct("{")>> \o FlattenSeq(texts) \o <<Punct("}")>>

RECURSIVE ShapeToString(_)
ShapeToString(s) ==
  IF s = NoShape THEN <<>>
  ELSE Braced([i \in DOMAIN s.items |-> ItemText(s.items[i], ShapeToString(s.items[i].shape), "name")])

-----------------------------------------------------------------------------
(* Parsing.  What a parse leaves: the tokens not read, what they said, and  *)
(* whether it went on to here.                                              *)

Parsed(rest, v) == [rest |-> rest, v |-> v, ok |-> TRUE]
Refused         == [rest |-> <<>>, v |-> NoShape, ok |-> FALSE]
At(ts, t)       == ts # <<>> /\ ts[1] = t
AtKind(ts, k)   == ts # <<>> /\ ts[1][1] = k
Drop(ts, n)     == SubSeq(ts, n + 1, Len(ts))

\* Whether the text starts so: punctuation as given, and a token of each kind.
Starts(ts, pattern) ==
  Len(ts) >= Len(pattern) /\ \A i \in DOMAIN pattern :
    IF pattern[i][1] = "punct" \/ pattern[i][2] # "" THEN ts[i] = pattern[i] ELSE ts[i][1] = pattern[i][1]

\* Mutant: TypeScript counts lists and objects, and Kotlin every value.
LevelsOfShapes(kotlin, ts) == IF ~kotlin /\ ~At(ts, Punct("[")) /\ ~At(ts, Punct("{")) THEN 0 ELSE 1

\* TypeScript counts every value as a level, Kotlin only lists and objects.
Levels(kotlin, ts) == IF kotlin /\ ~At(ts, Punct("[")) /\ ~At(ts, Punct("{")) THEN 0 ELSE 1

RECURSIVE ParseValue(_, _, _), ParseList(_, _, _, _), ParsePairs(_, _, _, _, _)
ParseValue(ts, depth, kotlin) ==
  LET inner == depth + Levels(kotlin, ts) IN
  CASE inner > MaxShapeNesting -> Refused
    [] Starts(ts, <<Punct("$"), Name("")>>) -> Parsed(Drop(ts, 2), <<"var", ts[2][2]>>)
    [] At(ts, Punct("[")) -> ParseList(Tail(ts), <<>>, inner, kotlin)
    [] At(ts, Punct("{")) -> LET fs == ParsePairs(Tail(ts), <<>>, Punct("}"), inner, kotlin) IN [fs EXCEPT !.v = <<"object", @>>]
    [] AtKind(ts, "literal") \/ AtKind(ts, "name") -> Parsed(Tail(ts), <<"scalar", ts[1][2]>>)
    [] OTHER -> Refused

ParseList(ts, items, depth, kotlin) ==
  IF At(ts, Punct("]")) THEN Parsed(Tail(ts), <<"list", items>>)
  ELSE LET Then(v) == IF v.ok THEN ParseList(v.rest, Append(items, v.v), depth, kotlin) ELSE Refused
       IN Then(ParseValue(ts, depth, kotlin))

\* Names with their values, up to what closes them.
ParsePairs(ts, pairs, close, depth, kotlin) ==
  IF At(ts, close) THEN Parsed(Tail(ts), pairs)
  ELSE IF ~Starts(ts, <<Name(""), Punct(":")>>) THEN Refused
  ELSE LET Then(v) == IF v.ok THEN ParsePairs(v.rest, WithKey(pairs, ts[1][2], v.v), close, depth, kotlin) ELSE Refused
       IN Then(ParseValue(Drop(ts, 2), depth, kotlin))

RECURSIVE ParseModifiers(_, _)
ParseModifiers(ts, item) ==
  CASE Starts(ts, <<Punct("@"), Name("eager")>>)   -> ParseModifiers(Drop(ts, 2), [item EXCEPT !.eager = TRUE])
    [] Starts(ts, <<Punct("@"), Name("partial")>>) -> ParseModifiers(Drop(ts, 2), [item EXCEPT !.partial = TRUE])
    [] Starts(ts, <<Punct("@"), Name("")>>) /\ ts[2] # Name("defer") -> Refused
    [] OTHER -> Parsed(ts, item)

\* The name of a field, and the alias before it.
ParseName(ts) ==
  CASE Starts(ts, <<Name(""), Punct(":"), Name("")>>) -> Parsed(Drop(ts, 3), [Anything EXCEPT !.alias = ts[1][2], !.name = ts[3][2]])
    [] Starts(ts, <<Name(""), Punct(":")>>) -> Refused
    [] AtKind(ts, "name") -> Parsed(Tail(ts), [Anything EXCEPT !.name = ts[1][2]])
    [] OTHER -> Refused

\* An item that holds a shape and nothing else, up to it.
ParseOpening(ts) ==
  LET defer == [Anything EXCEPT !.kind = "defer"]
  IN CASE Starts(ts, <<Punct("..."), Name("on"), Name("")>>) -> Parsed(Drop(ts, 3), [Anything EXCEPT !.kind = "on", !.name = ts[3][2]])
       [] Starts(ts, <<Punct("@"), Name("defer"), Punct("("), Name("label"), Punct(":"), Literal(""), Punct(")")>>) ->
            Parsed(Drop(ts, 7), [defer EXCEPT !.label = ts[6][2]])
       [] Starts(ts, <<Punct("@"), Name("defer")>>) -> Parsed(Drop(ts, 2), defer)
       [] OTHER -> Refused
ParseSpread(ts) ==
  IF Starts(ts, <<Punct("..."), Name(""), Punct("."), Name("")>>) /\ ts[2] # Name("on")
  THEN Parsed(Drop(ts, 4), [Anything EXCEPT !.kind = "spread", !.name = ts[2][2], !.label = ts[4][2]]) ELSE Refused

WithArgs(named, args) == IF named.ok /\ args.ok THEN Parsed(args.rest, [named.v EXCEPT !.args = args.v]) ELSE Refused
WithShape(i, s) == IF i.ok /\ s.ok THEN Parsed(s.rest, [i.v EXCEPT !.shape = s.v]) ELSE Refused

\* A field's arguments, if it has any.
ParseArgs(named, depth, kotlin) ==
  WithArgs(named, IF At(named.rest, Punct("(")) THEN ParsePairs(Tail(named.rest), <<>>, Punct(")"), depth, kotlin)
                  ELSE Parsed(named.rest, <<>>))

RECURSIVE ParseShape(_, _, _), ParseItems(_, _, _, _)
ParseItem(ts, depth, kotlin) ==
  LET Holding(i)   == WithShape(i, IF i.ok THEN ParseShape(i.rest, depth, kotlin) ELSE Refused)
      Field(i)     == IF At(i.rest, Punct("{")) THEN Holding(i) ELSE i
      Modified(i)  == IF i.ok THEN ParseModifiers(i.rest, i.v) ELSE Refused
  IN CASE AtKind(ts, "name") -> Modified(Field(ParseArgs(ParseName(ts), depth, kotlin)))
       [] ParseSpread(ts).ok /\ ~ParseOpening(ts).ok -> ParseSpread(ts)
       [] OTHER -> Holding(ParseOpening(ts))

ParseShape(ts, depth, kotlin) ==
  IF ~At(ts, Punct("{")) \/ depth >= MaxShapeNesting THEN Refused ELSE ParseItems(Tail(ts), <<>>, depth + 1, kotlin)

ParseItems(ts, items, depth, kotlin) ==
  LET Then(i) == IF i.ok THEN ParseItems(i.rest, Append(items, i.v), depth, kotlin) ELSE Refused
  IN IF At(ts, Punct("}")) THEN Parsed(Tail(ts), Selecting(items)) ELSE Then(ParseItem(ts, depth, kotlin))

\* A shape, with nothing after it.
WholeText(r) == IF r.ok /\ r.rest = <<>> THEN r ELSE Refused
ParseShapeText(ts) == WholeText(ParseShape(ts, 0, FALSE))
KtParse(ts)        == WholeText(ParseShape(ts, 0, TRUE))

-----------------------------------------------------------------------------
(* The canonical form: views spread out, items sorted                       *)

\* A view within itself, or one nobody declared, is an error.
RECURSIVE ExpandViews(_, _)
ExpandViews(s, seen) ==
  LET Inside(i, x) == [ok |-> x.ok, items |-> <<[i EXCEPT !.shape = Selecting(x.items)]>>]
      View(v) == IF v \in seen \/ v \notin DOMAIN NamedViews THEN [ok |-> FALSE, items |-> <<>>]
                 ELSE ExpandViews(NamedViews[v], seen \cup {v})
      Into(i) == CASE i.kind = "spread" -> View(<<i.name, i.label>>)
                   [] i.kind # "spread" /\ i.shape = NoShape -> [ok |-> TRUE, items |-> <<i>>]
                   [] OTHER -> Inside(i, ExpandViews(i.shape, seen))
      Joined(x, y) == [ok |-> x.ok /\ y.ok, items |-> x.items \o y.items]
  IN FoldLeft(LAMBDA x, i : Joined(x, Into(i)), [ok |-> TRUE, items |-> <<>>], s.items)

\* Kind, then output name, then arguments.
SortKey(i) ==
  CASE i.kind = "field" -> <<0, <<Name(IF i.alias = "" THEN i.name ELSE i.alias)>>, ArgsText(i.args, "literal")>>
    [] i.kind = "on"    -> <<1, <<Name(i.name)>>, <<>>>>
    [] i.kind = "defer" -> <<2, IF i.label = "" THEN <<>> ELSE <<Literal(i.label)>>, <<>>>>

CompareKeys(a, b) ==
  \/ a[1] < b[1]
  \/ a[1] = b[1] /\ Before(a[2], b[2])
  \/ a[1] = b[1] /\ a[2] = b[2] /\ Before(a[3], b[3])

\* Sorted by their keys, those alike in the order they came.
Sorted(items) ==
  LET Order(keys) == SortSeq([i \in DOMAIN items |-> i], LAMBDA i, j :
                       \/ CompareKeys(keys[i], keys[j])
                       \/ i < j /\ ~CompareKeys(keys[j], keys[i]))
      In(order) == [k \in DOMAIN items |-> items[order[k]]]
  IN In(Order([i \in DOMAIN items |-> SortKey(items[i])]))

RECURSIVE Canon(_)
Canon(s) ==
  LET Texts(items) == [i \in DOMAIN items |-> ItemText(items[i], Canon(items[i].shape), "literal")]
  IN IF s = NoShape THEN <<>> ELSE Braced(Texts(Sorted(s.items)))

\* A shape's id is the hash of this text.
CanonicalShape(s) == Canon(Selecting(ExpandViews(s, {}).items))
Resolves(s)       == ExpandViews(s, {}).ok

-----------------------------------------------------------------------------
(* The registry                                                             *)

WithoutId(ids, id) == SelectSeq(ids, LAMBDA x : x # id)

\* The one used last is last.
Used(ids, id) == Append(WithoutId(ids, id), id)

Unlearned(ids, id) == WithoutId(ids, id)

Noted(id) == uses' = Append(WithoutId(uses, id), id)

Pin(id) ==
  /\ pinned' = pinned \cup {id}
  /\ learned' = Unlearned(learned, id)
  /\ UNCHANGED <<selection, uses>>

Learn(id) ==
  LET kept == Append(WithoutId(learned, id), id)
  IN /\ learned' = IF id \in pinned THEN learned ELSE IF Len(kept) > MaxLearned THEN Tail(kept) ELSE kept
     /\ Noted(id)
     /\ UNCHANGED <<selection, pinned>>

Get(id) ==
  /\ id \in pinned \cup ToSet(learned)
  /\ learned' = IF id \in pinned THEN learned ELSE Used(learned, id)
  /\ Noted(id)
  /\ UNCHANGED <<selection, pinned>>

TextInit     == selection \in WrittenShapes /\ pinned = {} /\ learned = <<>> /\ uses = <<>>
RegistryInit == selection = Selecting(<<>>) /\ pinned = {} /\ learned = <<>> /\ uses = <<>>
RegistryNext == \E id \in {CanonicalShape(s) : s \in Registered} : Pin(id) \/ Learn(id) \/ Get(id)
RegistrySpec == RegistryInit /\ [][RegistryNext]_shapeVars

-----------------------------------------------------------------------------

\* Keys of objects and arguments have no order.
RECURSIVE Unordered(_), SameAs(_)
Unordered(v) ==
  CASE v[1] = "list"   -> <<"list", [i \in DOMAIN v[2] |-> Unordered(v[2][i])]>>
    [] v[1] = "object" -> <<"object", {<<v[2][i][1], Unordered(v[2][i][2])>> : i \in DOMAIN v[2]}>>
    [] OTHER -> v

\* What a shape selects, whatever the order it is written in.
SameAs(s) ==
  [given |-> s # NoShape,
   items |-> IF s = NoShape THEN {}
             ELSE {[s.items[i] EXCEPT !.shape = SameAs(@), !.args = {<<@[a][1], Unordered(@[a][2])>> : a \in DOMAIN @}] : i \in DOMAIN s.items}]

\* A text with one token left out, doubled, or swapped with the next.
Edits(ts) ==
  {ts} \cup {RemoveAt(ts, i) : i \in DOMAIN ts} \cup {SubSeq(ts, 1, i) \o SubSeq(ts, i, Len(ts)) : i \in DOMAIN ts}
  \cup {[ts EXCEPT ![i] = ts[i + 1], ![i + 1] = ts[i]] : i \in 1..(Len(ts) - 1)}

\* The printed text of a shape reads back to it (shapeToString, and the comment
\* on argsToText).
TextReadsBack ==
  LET Says(r, text) == r.ok => SameAs(r.v) = SameAs(selection) /\ ShapeToString(r.v) = text
      Back(text) == Says(ParseShapeText(text), text)
  IN selection.items # <<>> => Back(ShapeToString(selection))

\* A text the TypeScript runtime reads the Kotlin one reads to the same shape, so
\* that both know it by the same id (Shapes.kt, "both runtimes must read it to the same shape").
RuntimesReadAlike ==
  LET Alike(ts, kt) == ts.ok => kt = ts
  IN selection.items # <<>> => \A ts \in Edits(ShapeToString(selection)) : Alike(ParseShapeText(ts), KtParse(ts))

ComesOutAs(i) == <<i.kind, IF i.alias = "" THEN i.name ELSE i.alias, i.label, i.args>>

\* However the items are ordered and whether views are spread or written out,
\* one selection has one id, as long as no two items come out under one name
\* with the same arguments.
SameSelectionSameId ==
  LET items == selection.items
      Distinct == \A i, j \in DOMAIN items : i # j => items[i].kind # "spread" /\ ComesOutAs(items[i]) # ComesOutAs(items[j])
      Alike == {Selecting(ExpandViews(selection, {}).items)} \cup IF Distinct THEN {Selecting(Reverse(items))} ELSE {}
      AllHave(id) == \A s \in Alike : CanonicalShape(s) = id
  IN items # <<>> /\ Resolves(selection) => AllHave(CanonicalShape(selection))

Ids == [s \in {x \in WrittenShapes : Resolves(x)} |-> CanonicalShape(s)]

\* Two shapes that select different things have different ids: the registry never
\* answers one with another's.
IdTellsApart ==
  LET Apart(id, ids) == \A s \in DOMAIN ids : ids[s] = id
        => SameAs(Selecting(ExpandViews(s, {}).items)) = SameAs(Selecting(ExpandViews(selection, {}).items))
  IN Resolves(selection) /\ selection.items # <<>> => Apart(CanonicalShape(selection), Ids)

\* The shapes used last are there, however many others came before them.
RecentlyUsedStay ==
  \A i \in DOMAIN uses : i > Len(uses) - MaxLearned => uses[i] \in pinned \cup ToSet(learned)

\* Requests cannot fill the registry, nor push out or double what the server registered.
LearnedAreBounded == Len(learned) <= MaxLearned /\ ToSet(learned) \cap pinned = {}

\* A shape's text and id stand for it: they read back, in both runtimes, to what
\* was selected, no two selections share an id, and requests do not push out
\* what is in use.
ShapesHold ==
  /\ TextReadsBack /\ RuntimesReadAlike /\ SameSelectionSameId /\ IdTellsApart
  /\ RecentlyUsedStay /\ LearnedAreBounded
=============================================================================
