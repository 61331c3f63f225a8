------------------------------ MODULE Projection ------------------------------
(***************************************************************************)
(* How a result is projected through a shape: flatten, projectMany and     *)
(* flushDeferred in packages/server/src/executor.ts, with the read         *)
(* policies of policy.ts and the default shapes of views.ts; and what the  *)
(* shape was charged before, estimateCost in cost.ts.                      *)
(*                                                                         *)
(* Then what HTTP makes of the answer's frames: the cache headers of a     *)
(* safe request (cacheHeadersFor in fetch.ts), read from frames in full or *)
(* compact form, and the one result a REST-shaped route folds them into    *)
(* (fold in bindings.ts).                                                  *)
(*                                                                         *)
(* An answer is a set of leaves: what stands at a path of the result.      *)
(***************************************************************************)
EXTENDS Integers, Sequences, FiniteSets, TLC, SequencesExt

CONSTANTS
  Schema,       \* of each type, its fields; a union has none
  Unions,      \* of each union, its members
  Data,         \* of each object, its type and the objects at its fields
  Shapes,       \* the shapes asked for
  Worlds,       \* which objects are denied, whose fields are, what fails to load or is null
  Positions,    \* what an op returns: its root object, and the type and nullability of its result
  DefaultFirst, \* a page's size if no other is asked for
  MaxFirst,     \* and the largest
  CacheOf,      \* of a type or of "op", its @cache: an age, a window to revalidate in (None or a number), and a scope
  None,
  OfViewer      \* the types as <<type>>, and fields as <<type, field>>, with a policy that reads the viewer

ASSUME ProjectionAssumption ==
  /\ {DefaultFirst, MaxFirst} \subseteq Nat
  /\ \A t \in DOMAIN CacheOf : {CacheOf[t].age, CacheOf[t].swr} \subseteq Nat \cup {None}

VARIABLES
  shape,        \* the shape asked for, or the default view of the result
  explicit,     \* whether one was asked for
  world,
  position,
  answered,     \* whether it was
  frames        \* the answer: the op's frames, and whether it failed after them

projectionVars == <<shape, explicit, world, position, answered, frames>>

Null == "null"

\* The length of the longest list there is.
LongestList == Max(UNION {{Len(Data[o].fields[n]) : n \in DOMAIN Data[o].fields} : o \in DOMAIN Data})

IsUnion(t)  == t \in DOMAIN Unions
IsScalar(f) == f.kind = "scalar"
Field(t, n) == Schema[t][n]

-----------------------------------------------------------------------------
(* Shapes                                                                   *)

\* Every scalar of a type, and the rows of a page.
DefaultShape(t) ==
  IF IsUnion(t) THEN <<>>
  ELSE
  LET names == SetToSortSeq({n \in DOMAIN Schema[t] : IsScalar(Field(t, n)) \/ n = "items"}, LAMBDA a, b : a # b) IN
       [i \in DOMAIN names |->
          [kind |-> "field", name |-> names[i], bare |-> TRUE, partial |-> FALSE, eager |-> FALSE, first |-> 0, sub |-> <<>>]]

\* Type conditions that hold are spread, others dropped.
RECURSIVE Spread(_, _)
Spread(items, t) ==
  FlattenSeq([i \in DOMAIN items |->
    CASE items[i].kind # "on" -> <<items[i]>>
      [] items[i].name = t -> Spread(items[i].sub, t)
      [] OTHER -> <<>>])

\* A union hands what it is asked for to each member; one that is asked for
\* nothing answers its default view.
MemberShape(items, t) ==
  LET handed == FlattenSeq([i \in DOMAIN items |->
        CASE items[i].kind # "on" -> <<items[i]>>
          [] items[i].name = t -> items[i].sub
          [] OTHER -> <<>>])
  IN IF handed = <<>> THEN DefaultShape(t) ELSE handed

\* Selections of a field are one, with all they select.
Selections(items, n) == SelectSeq(items, LAMBDA it : it.kind = "field" /\ it.name = n)
Group(items, n) ==
  LET ss == Selections(items, n) IN
  [it |-> ss[1],
   clash   |-> \E i \in DOMAIN ss : ss[i].first # ss[1].first,
   eager   |-> \E i \in DOMAIN ss : ss[i].eager,
   partial |-> \E i \in DOMAIN ss : ss[i].partial,
   bare    |-> \A i \in DOMAIN ss : ss[i].bare,
   sub     |-> FlattenSeq([i \in DOMAIN ss |-> ss[i].sub])]

-----------------------------------------------------------------------------
(* projectMany.  A projection in part: whether it fails, the leaves it      *)
(* wrote, the errors of partial fields, and what it put off.                *)

Nothing == [fails |-> FALSE, leaves |-> {}, errors |-> {}, jobs |-> <<>>]
Failure == [Nothing EXCEPT !.fails = TRUE]
Wrote(ls)  == [Nothing EXCEPT !.leaves = ls]
PutOff(js) == [Nothing EXCEPT !.jobs = js]
Both(a, b) == [fails |-> a.fails \/ b.fails, leaves |-> a.leaves \cup b.leaves,
               errors |-> a.errors \cup b.errors, jobs |-> a.jobs \o b.jobs]
All(parts) == FoldLeft(Both, Nothing, parts)

Leaf(p, v)    == [path |-> p, leaf |-> v]
Below(s, n)   == Append(s.path, n)
NullAt(ss, n) == {Leaf(Below(s, n), Null) : s \in ss}

\* What a resolver returns for a field: of a page, rows up to its size.
PageSize(first) == IF first = 0 THEN DefaultFirst ELSE IF first > MaxFirst THEN MaxFirst ELSE first
Loaded(s, n) ==
  CASE s.obj \in world.nulls /\ n \in world.nullFields -> <<Null>>
    [] n = "items" -> SubSeq(Data[s.obj].fields[n], 1, s.first)
    [] OTHER -> Data[s.obj].fields[n]

\* Where a denied object reads as null: an element of a list never does.
MayReadNull(f) == f.kind = "one" /\ f.null

\* A partial field that fails is null, and says so.
FailsAlone(ss, n, g) ==
  CASE ss = {} -> Nothing
    [] g.partial -> [Wrote(NullAt(ss, n)) EXCEPT !.errors = {Below(s, n) : s \in ss}]
    [] OTHER -> Failure

RECURSIVE ProjectMany(_, _, _, _, _)

\* A field's values, and what is below them.
FieldValues(ss, f, n, g, exp) ==
  LET nulls == {s \in ss : f.kind = "one" /\ Loaded(s, n) = <<Null>>}
      cells == {<<s, i>> \in (ss \ nulls) \X (1..LongestList) : i \in DOMAIN Loaded(s, n)}
      pathOf(s, i) == IF f.kind = "list" THEN Append(Below(s, n), ToString(i - 1)) ELSE Below(s, n)
      gaps  == {<<s, i>> \in cells : Loaded(s, n)[i] = Null}
      below == {[obj |-> Loaded(s, n)[i], path |-> pathOf(s, i), first |-> PageSize(g.it.first)] : <<s, i>> \in cells \ gaps}
  IN CASE IsScalar(f) -> Wrote({Leaf(Below(s, n), "value") : s \in ss})
       [] f.kind = "list" /\ gaps # {} /\ ~f.gaps -> Failure
       [] OTHER -> All(<<
            IF f.null THEN Wrote(NullAt(nulls, n)) ELSE FailsAlone(nulls, n, g),
            Wrote({Leaf(Below(s, n), "list") : s \in IF f.kind = "list" THEN ss ELSE {}}
                  \cup {Leaf(pathOf(s, i), Null) : <<s, i>> \in gaps}),
            ProjectMany(below, f.of, MayReadNull(f), IF g.bare THEN DefaultShape(f.of) ELSE g.sub, exp /\ ~g.bare)>>)

\* One field of objects of one type: put off, denied, not loaded, or what it is.
ProjectField(ss, t, n, g, exp) ==
  LET f == Field(t, n)
      hidden == {s \in ss : f.guarded /\ s.obj \in world.hidden}
      seen   == ss \ hidden
  IN IF f.lazy /\ ~g.eager
     THEN PutOff(<<[slots |-> ss, type |-> t, items |-> <<[g.it EXCEPT !.eager = TRUE]>>, explicit |-> exp]>>)
     ELSE Both(IF exp THEN FailsAlone(hidden, n, g) ELSE Nothing,
               CASE seen = {} -> Nothing
                 [] n \in world.failing -> FailsAlone(seen, n, g)
                 [] OTHER -> FieldValues(seen, f, n, g, exp))

\* Whom the type's read policy allows.
Allowed(ss, exp) == {s \in ss : s.obj \notin world.denied}

ProjectObjects(ss, t, nullable, items, exp) ==
  LET allowed == Allowed(ss, exp)
      spread  == Spread(items, t)
      asked   == SetToSeq({it.name : it \in {spread[i] : i \in {j \in DOMAIN spread : spread[j].kind = "field"}}})
      blocks  == SelectSeq(spread, LAMBDA it : it.kind = "defer")
      unfit(n) == n \notin DOMAIN Schema[t] \/ Group(spread, n).clash
  IN IF (exp /\ ~nullable /\ allowed # ss) \/ \E i \in DOMAIN asked : unfit(asked[i]) THEN Failure
     ELSE All(<<Wrote({Leaf(s.path, IF s \in allowed THEN t ELSE Null) : s \in ss})>>
              \o [i \in DOMAIN asked |-> ProjectField(allowed, t, asked[i], Group(spread, asked[i]), exp)]
              \o <<PutOff([i \in DOMAIN blocks |->
                     [slots |-> allowed, type |-> t, items |-> blocks[i].sub, explicit |-> exp]])>>)

\* A union's objects by their types; where one of them stands is not nullable any more.
ProjectMany(ss, t, nullable, items, exp) ==
  CASE ss = {} -> Nothing
    [] ~IsUnion(t) -> ProjectObjects(ss, t, nullable, items, exp)
    [] OTHER -> LET types == SetToSeq({Data[s.obj].type : s \in ss}) IN
         All([i \in DOMAIN types |->
           ProjectObjects({s \in ss : Data[s.obj].type = types[i]}, types[i], FALSE, MemberShape(items, types[i]), exp)])

-----------------------------------------------------------------------------
(* runQuery and flushDeferred                                               *)

\* A frame carries the errors at or below its path.
ErrorsBelow(p, at) == {e \in p.errors : IsPrefix(at, e)}

\* Jobs are done in turn, those they add after them.
JobsAfter(jobs, p) == Tail(jobs) \o p.jobs

\* A job's frames, one for each object it was put off at.
FramesOf(slots, p) ==
  {[at |-> s.path, leaves |-> {l \in p.leaves : IsPrefix(s.path, l.path)}, errors |-> ErrorsBelow(p, s.path)] : s \in slots}

RECURSIVE FlushDeferred(_)
FlushDeferred(jobs) ==
  LET Then(job, p) == IF p.fails THEN [fails |-> TRUE, sent |-> {}]
                      ELSE [FlushDeferred(JobsAfter(jobs, p)) EXCEPT !.sent = @ \cup FramesOf(job.slots, p)]
      Do(job) == Then(job, ProjectMany(job.slots, job.type, FALSE, job.items, job.explicit))
  IN IF jobs = <<>> THEN [fails |-> FALSE, sent |-> {}] ELSE Do(Head(jobs))

Root == [obj |-> position.obj, path |-> <<>>, first |-> 0]

\* The first frame, then what was put off.
Answer(items) ==
  LET Then(p) == IF p.fails THEN [fails |-> TRUE, sent |-> {}]
                 ELSE [FlushDeferred(p.jobs) EXCEPT !.sent = @ \cup {[at |-> <<>>, leaves |-> p.leaves, errors |-> p.errors]}]
  IN Then(ProjectMany({Root}, position.type, position.nullable, items, explicit))

RunQuery ==
  /\ ~answered /\ answered' = TRUE /\ frames' = Answer(shape)
  /\ UNCHANGED <<shape, explicit, world, position>>

-----------------------------------------------------------------------------
(* estimateCost                                                             *)

\* One for what has objects, and one for each row of a page.
FieldCost(f, it) ==
  CASE IsScalar(f) -> 0
    [] f.page -> 1 + PageSize(it.first)
    [] OTHER -> 1

RECURSIVE CostOf(_, _, _, _)

Sum(s) == FoldLeft(LAMBDA a, b : a + b, 0, s)

\* What `it` adds at a type, `mult` of which there are, each with `first` rows.
CostOfItem(it, t, mult, first) ==
  CASE it.kind = "on" -> CostOf(it.sub, it.name, mult, first)
    [] it.kind = "defer" -> CostOf(it.sub, t, mult, first)
    [] it.name \notin DOMAIN Schema[t] -> 0
    [] OTHER ->
         LET f == Field(t, it.name) IN
         mult * FieldCost(f, it) +
           IF IsScalar(f) THEN 0
           ELSE CostOf(IF it.bare THEN DefaultShape(f.of) ELSE it.sub, f.of,
                       IF it.name = "items" THEN mult * first ELSE mult, IF f.page THEN PageSize(it.first) ELSE 1)

\* It is charged as its dearest member would answer it.
OfTheDearest(items, t, mult, first) == Max({CostOf(items, m, mult, first) : m \in Unions[t]})

CostOf(items, t, mult, first) ==
  LET isOn(it) == it.kind = "on"
      apart == IF IsUnion(t) THEN SelectSeq(items, isOn) ELSE items
  IN Sum([i \in DOMAIN apart |-> CostOfItem(apart[i], t, mult, first)])
     + IF IsUnion(t) THEN OfTheDearest(SelectSeq(items, LAMBDA it : ~isOn(it)), t, mult, first) ELSE 0

EstimateCost == 1 + CostOf(shape, position.type, 1, 1)

-----------------------------------------------------------------------------

ProjectionInit ==
  /\ position \in Positions /\ world \in Worlds /\ answered = FALSE
  /\ frames = [fails |-> FALSE, sent |-> {}]
  /\ \/ explicit = TRUE /\ shape \in Shapes
     \/ explicit = FALSE /\ shape = DefaultShape(position.type)

ProjectionNext == RunQuery

ProjectionSpec == ProjectionInit /\ [][ProjectionNext]_projectionVars

-----------------------------------------------------------------------------

Sent     == UNION {fr.leaves : fr \in frames.sent}
Errors   == UNION {fr.errors : fr \in frames.sent}

\* The field a path ends in, past the index of an element, and the object that
\* stands at a path, from the data alone.
Index == {ToString(i - 1) : i \in 1..LongestList}
RECURSIVE ObjectAt(_)
FieldAt(p) ==
  LET q == IF Last(p) \in Index THEN Front(p) ELSE p IN Field(Data[ObjectAt(Front(q))].type, Last(q))
ObjectAt(p) ==
  IF p = <<>> THEN position.obj
  ELSE IF Last(p) \in Index
  THEN Data[ObjectAt(Front(Front(p)))].fields[Last(Front(p))][CHOOSE i \in 1..LongestList : ToString(i - 1) = Last(p)]
  ELSE Data[ObjectAt(Front(p))].fields[Last(p)][1]
IsList(p) == p # <<>> /\ Last(p) \notin Index /\ FieldAt(p).kind = "list"
HiddenAt(p) == p # <<>> /\ Last(p) \notin Index /\ FieldAt(p).guarded /\ ObjectAt(Front(p)) \in world.hidden

\* Nothing of a denied object or field is in any frame, of an op that failed as
\* of one that did not: where it would stand there is null and nothing below
\* (spec 06, section 3).
NothingDeniedIsShown ==
  answered => \A l \in Sent : \A k \in 0..Len(l.path) :
    LET p == SubSeq(l.path, 1, k) IN
    ((~IsList(p) /\ ObjectAt(p) \in world.denied) \/ HiddenAt(p)) => (l.path = p /\ l.leaf = Null)

\* Every object in a shape says what of it is asked for.
RECURSIVE NothingBare(_)
NothingBare(items) ==
  \A i \in DOMAIN items :
    /\ (items[i].kind = "field" /\ items[i].bare) =>
         \A t \in DOMAIN Schema : items[i].name \in DOMAIN Schema[t] => IsScalar(Field(t, items[i].name))
    /\ NothingBare(items[i].sub)

\* A null in what was asked for says why: an error of the same frame names it,
\* the data is null there, or a denied object stands where it reads as one that
\* does not exist.  A list never hides an element (spec 06, section 3).
EveryNullIsExplained ==
  (answered /\ explicit /\ NothingBare(shape)) =>
    \A fr \in frames.sent : \A l \in fr.leaves : l.leaf = Null =>
      \/ l.path \in fr.errors
      \/ l.path = <<>> /\ position.nullable /\ position.obj \in world.denied
      \/ l.path # <<>> /\ LET p == l.path IN
           \/ Last(p) \in Index /\ ObjectAt(p) = Null
           \/ /\ Last(p) \notin Index /\ FieldAt(p).null
              /\ \/ ObjectAt(p) \in world.denied
                 \/ ObjectAt(Front(p)) \in world.nulls /\ Last(p) \in world.nullFields

\* The errors of a frame are those of the fields it delivers, and no others
\* (spec 04, section 3).
ErrorsAreOfTheirFrame ==
  answered => \A fr \in frames.sent : \A e \in fr.errors : Leaf(e, Null) \in fr.leaves

\* A shape with nothing put off.
RECURSIVE Inline(_)
Inline(items) ==
  FlattenSeq([i \in DOMAIN items |->
    IF items[i].kind = "defer" THEN Inline(items[i].sub)
    ELSE <<[items[i] EXCEPT !.sub = Inline(@), !.eager = TRUE]>>])

\* To put a part of an answer off moves it and changes nothing: the frames say
\* together what one would say, and fail where it would (spec 02, section 2).
DeferringOnlyMoves ==
  answered =>
    LET Say(whole) ==
          /\ frames.fails <=> whole.fails
          /\ ~whole.fails => /\ Sent = UNION {fr.leaves : fr \in whole.sent}
                             /\ Errors = UNION {fr.errors : fr \in whole.sent}
    IN Say(Answer(Inline(shape)))

\* A path without the places in lists that are no page: what these hold is charged
\* for once, however much it is.
PagedPath(p) == FlattenSeq([k \in DOMAIN p |-> IF p[k] \in Index /\ p[k - 1] # "items" THEN <<>> ELSE <<p[k]>>])

\* No answer has more objects, every row a page can return and every list that is
\* no page counted as one, than the shape was charged for before it ran (spec 06,
\* section 5).
CostCoversTheWork ==
  answered => Cardinality({PagedPath(l.path) : l \in {x \in Sent : x.leaf \in DOMAIN Schema}}) <= EstimateCost

-----------------------------------------------------------------------------
(* What the frames show of types                                            *)

Parent(p) == IF Last(p) \in Index THEN Front(Front(p)) ELSE Front(p)
NameAt(p) == IF Last(p) \in Index THEN Last(Front(p)) ELSE Last(p)

\* fieldsOf: of what is known to have fields.
DeclaredAt(t, n) == IF t \in DOMAIN Schema /\ n \in DOMAIN Schema[t] THEN Field(t, n).of ELSE ""

\* typeAt: what the schema declares at a path, which ends at a union.
RECURSIVE TypeAt(_)
TypeAt(p) == IF p = <<>> THEN position.type ELSE DeclaredAt(TypeAt(Parent(p)), NameAt(p))

\* stripTypes: `$type` stays where the schema does not fix it.
TypeStays(p) ==
  IsUnion(IF p = <<>> THEN position.type ELSE DeclaredAt(Data[ObjectAt(Parent(p))].type, NameAt(p)))

\* A delta never repeats the `$type` of what it completes.
Typed(fr, p, compact) == (p # fr.at \/ fr.at = <<>>) /\ (compact => TypeStays(p))

\* walk: the type an object in a frame is known by.
RECURSIVE Ref(_, _, _)
Ref(fr, p, compact) ==
  CASE Typed(fr, p, compact) -> Data[ObjectAt(p)].type
    [] p = fr.at -> IF fr.at = <<>> THEN position.type ELSE TypeAt(p)
    [] OTHER -> DeclaredAt(Ref(fr, Parent(p), compact), NameAt(p))

\* Mutant: a type is known only by its `$type`.
ConsideredTyped(fr, compact) ==
  {<<"op">>}
  \cup {<<l.leaf>> : l \in {x \in fr.leaves : x.leaf \in DOMAIN Schema /\ Typed(fr, x.path, compact)}}

\* What is considered: the op, the types, and the fields with a policy.
Considered(fr, compact) ==
  {<<"op">>}
  \cup {<<Ref(fr, l.path, compact)>> : l \in {x \in fr.leaves : x.leaf \in DOMAIN Schema}}
  \cup {<<Ref(fr, Parent(l.path), compact), NameAt(l.path)>> : l \in {x \in fr.leaves : x.path # fr.at}}

ConsideredOfAll(compact) == UNION {Considered(fr, compact) : fr \in frames.sent}

\* The least of what is declared; nothing declared is nothing kept.
LeastOf(ages) == IF ages \ {None} = {} THEN 0 ELSE Min(ages \ {None})

\* The scope is public only if all are.
CacheHeaders(compact, identified) ==
  LET of == ConsideredOfAll(compact)
      declared == {t \in DOMAIN CacheOf : <<t>> \in of}
  IN [public |-> ~identified /\ of \cap OfViewer = {} /\ \A t \in declared : ~CacheOf[t].private,
      age    |-> LeastOf({CacheOf[t].age : t \in declared}),
      swr    |-> LeastOf({CacheOf[t].swr : t \in declared})]

-----------------------------------------------------------------------------
(* One result                                                               *)

\* Object.assign: a field the frame has replaces all that was there of it.
Assigned(leaves, fr) ==
  LET below == {l \in fr.leaves : l.path # fr.at}
      names == {l.path[Len(fr.at) + 1] : l \in below}
      replaced(l) == Len(l.path) > Len(fr.at) /\ IsPrefix(fr.at, l.path) /\ l.path[Len(fr.at) + 1] \in names
  IN {l \in leaves : ~replaced(l)} \cup below

\* The first frame, and what was deferred in the order it was sent; a frame
\* below another is sent after it.
InOrder(frs) == SetToSortSeq(frs, LAMBDA a, b : Len(a.at) < Len(b.at))
Folded == LET s == InOrder(frames.sent) IN FoldLeft(Assigned, Head(s).leaves, Tail(s))

-----------------------------------------------------------------------------

\* No part of the answer below a union was put off: there a frame shows no type.
RECURSIVE NothingLate(_)
NothingLate(p) == p = <<>> \/ (~TypeStays(p) /\ NothingLate(Parent(p)))
TypesAreKnown == \A fr \in frames.sent : fr.at # <<>> => NothingLate(fr.at) /\ ~IsUnion(position.type)

\* A safe answer is public only if nothing in it is anyone's own, and is kept no
\* longer than anything in it may be, whether its frames name their types or
\* not and however they were sent (spec 07, sections 1 and 2).
CacheHeadersCoverTheAnswer ==
  (answered /\ ~frames.fails /\ TypesAreKnown) =>
    \A compact \in BOOLEAN :
      LET h == CacheHeaders(compact, FALSE)
          present == {Data[ObjectAt(l.path)].type : l \in {x \in Sent : x.leaf \in DOMAIN Schema}}
          touched == {<<Data[ObjectAt(Parent(l.path))].type, NameAt(l.path)>> : l \in {x \in Sent : x.path # <<>>}} IN
      /\ h.public => /\ ({<<t>> : t \in present} \cup touched) \cap OfViewer = {}
                     /\ \A t \in present \cap DOMAIN CacheOf : ~CacheOf[t].private
      /\ \A t \in (present \cup {"op"}) \cap DOMAIN CacheOf : CacheOf[t].age # None => h.age <= CacheOf[t].age

\* No field is selected both at once and put off, which is replaced and not added to.
Fields(fr) == {l.path[Len(fr.at) + 1] : l \in {x \in fr.leaves : x.path # fr.at}}
NothingTwice ==
  \A fr, gr \in frames.sent : fr # gr /\ IsPrefix(gr.at, fr.at) =>
    \A l \in gr.leaves : ~(Len(l.path) > Len(fr.at) /\ IsPrefix(fr.at, l.path) /\ l.path[Len(fr.at) + 1] \in Fields(fr))

\* A REST-shaped route answers in one result all that the frames say.
FoldedIsWhole ==
  (answered /\ ~frames.fails /\ NothingTwice) => Folded = Sent

\* An answer shows what may be seen and says why where it does not, whichever
\* parts of it are put off, however it is folded, and within its price; and
\* its headers let no cache keep what is somebody's own.
AnswersHold ==
  /\ NothingDeniedIsShown /\ EveryNullIsExplained /\ ErrorsAreOfTheirFrame /\ DeferringOnlyMoves
  /\ CostCoversTheWork /\ CacheHeadersCoverTheAnswer /\ FoldedIsWhole
=============================================================================
