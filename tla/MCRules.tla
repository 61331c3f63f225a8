-------------------------------- MODULE MCRules --------------------------------
(* The rules the servers, clients and tools decide by, one at a time, and the  *)
(* stores they share (MCStores).  Schema: three versions of one member, in     *)
(* each use and of every type; three locks of a type of up to three members.   *)
EXTENDS MCStores, SchemaDiff, Projection, PolicySql, RbCodec, ShapeText, HttpEntry, PgPages, TLC

-----------------------------------------------------------------------------
(* Two entities that refer to each other, by pages, by a list with a gap and   *)
(* through a union, and every shape of three levels out of a few selections a  *)
(* level, a part of it put off.  A lazy field is selected once at a level.     *)

Scalar  == [kind |-> "scalar", of |-> "", null |-> FALSE, gaps |-> FALSE, guarded |-> FALSE, lazy |-> FALSE, page |-> FALSE]
To(t)   == [Scalar EXCEPT !.kind = "one", !.of = t]
ListOf(t) == [To(t) EXCEPT !.kind = "list"]

MCSchema ==
  [A |-> [id |-> Scalar, name |-> [Scalar EXCEPT !.guarded = TRUE], big |-> [Scalar EXCEPT !.lazy = TRUE],
          link |-> [To("U") EXCEPT !.null = TRUE], twin |-> [To("A") EXCEPT !.null = TRUE],
          rows |-> [To("P") EXCEPT !.page = TRUE]],
   B |-> [id |-> Scalar, name |-> Scalar, all |-> [ListOf("A") EXCEPT !.gaps = TRUE], rows |-> [To("P") EXCEPT !.page = TRUE]],
   P |-> [items |-> ListOf("A")]]
MCUnions == [U |-> {"A", "B"}]

V == <<"v">>
MCData ==
  [a1 |-> [type |-> "A", fields |-> [id |-> V, name |-> V, big |-> V, link |-> <<"b1">>, twin |-> <<"a2">>, rows |-> <<"p1">>]],
   a2 |-> [type |-> "A", fields |-> [id |-> V, name |-> V, big |-> V, link |-> <<"a1">>, twin |-> <<"a1">>, rows |-> <<"p1">>]],
   b1 |-> [type |-> "B", fields |-> [id |-> V, name |-> V, all |-> <<"a2", "a1", Null>>, rows |-> <<"p1">>]],
   p1 |-> [type |-> "P", fields |-> [items |-> <<"a2", "a1">>]]]

MCPositions == {[obj |-> "a1", type |-> "A", nullable |-> TRUE], [obj |-> "b1", type |-> "U", nullable |-> TRUE]}

AllWell == [denied |-> {}, hidden |-> {}, failing |-> {}, nulls |-> {}, nullFields |-> {}]
MCWorlds ==
  {AllWell} \cup {[AllWell EXCEPT !.denied = d] : d \in {{"a1"}, {"a2"}, {"b1"}}}
  \cup {[AllWell EXCEPT !.hidden = {"a2"}, !.denied = d] : d \in {{}, {"b1"}}}
  \cup {[AllWell EXCEPT !.failing = {n}, !.hidden = {"a1"}] : n \in {"big", "link", "rows"}}
  \cup {[AllWell EXCEPT !.nulls = {"a2"}, !.nullFields = n] : n \in {{"name", "link"}, {"twin", "rows"}}}

Item  == [kind |-> "field", name |-> "id", bare |-> FALSE, partial |-> FALSE, eager |-> FALSE, first |-> 0, sub |-> <<>>]
Plain(n)     == [Item EXCEPT !.name = n, !.bare = TRUE]
Partial(i)   == [i EXCEPT !.partial = TRUE]
Of(n, sub)   == [Item EXCEPT !.name = n, !.sub = sub]
On(t, sub)   == [Item EXCEPT !.kind = "on", !.name = t, !.sub = sub]
Defer(sub)   == [Item EXCEPT !.kind = "defer", !.sub = sub]
Rows(n, sub) == [Of("rows", <<Of("items", sub)>>) EXCEPT !.first = n]

Low == {<<Plain("id")>>, <<Partial(Plain("name"))>>, <<Plain("id"), Defer(<<Plain("name")>>)>>,
        <<Plain("id"), Defer(<<Partial(Plain("name"))>>)>>}
LowA == Low \cup {<<Plain("big"), Plain("id")>>, <<Plain("id"), Partial(Plain("big"))>>}
Middle ==
  {Of("link", <<On("A", s)>>) : s \in LowA} \cup {Of("link", <<On("B", s), On("A", s)>>) : s \in Low}
  \cup {Of("link", s) : s \in Low} \cup {Of("link", <<Rows(2, s)>>) : s \in Low}
  \cup {Partial(Of("twin", s)) : s \in LowA} \cup {Rows(n, s) : n \in {0, 1, 9}, s \in LowA}
  \cup {Plain("link"), Plain("rows"), Plain("twin")}
MiddleB == {Of("all", s) : s \in LowA} \cup {Plain("all")}
High ==
  {<<m>> : m \in Middle} \cup {<<Plain("id"), Defer(<<m>>)>> : m \in Middle}
  \cup {<<Of("twin", <<Plain("id")>>), Defer(<<Of("twin", t), Of("link", t)>>)>> : t \in Low}
  \cup {<<Of("link", <<On("B", <<m>>)>>)>> : m \in MiddleB} \cup {<<Defer(<<Of("link", <<On("B", <<m>>)>>)>>)>> : m \in MiddleB}
MCShapes ==
  High \cup {<<Partial(Of("twin", h))>> : h \in High} \cup {<<Rows(2, h)>> : h \in High} \cup {<<Defer(<<Rows(1, h)>>)>> : h \in High}
  \cup {<<On("A", h)>> : h \in High} \cup {<<On("B", <<m>>)>> : m \in MiddleB} \cup {<<Rows(2, s), Plain("id")>> : s \in LowA}

-----------------------------------------------------------------------------
(* A field of every kind against values of every kind, on either side, under a *)
(* negation or beside another comparison.  "1" and "1.0" are texts of one      *)
(* value.                                                                      *)

A1 == Text(3, 0)
T1 == Text(1, 1)
T10 == Text(2, 1)
MCColumns == [text |-> "text", num |-> "num", flag |-> "bool", dec |-> "dec", when |-> "other", gone |-> "none"]
MCRecords ==
  [text : {NullV, A1, T1}, num : {NullV, Num(1), Num(2)}, flag : {NullV, Bool(TRUE), Bool(FALSE)},
   dec : {NullV, T1, T10}, when : {NullV, A1}, gone : {A1}]

Lit(v)  == <<"lit", v>>
Fld(n)  == <<"field", n>>
Bin(op, l, r) == <<"bin", op, l, r>>
Given == {NullV, A1, T1, T10, Num(1), Bool(TRUE), List(<<A1, T1>>), List(<<Num(1), Num(2)>>), List(<<NullV, A1>>)}
Ops   == {"==", "!=", "<", ">=", "in"}

Tests == {Bin(op, Fld(n), Lit(v)) : op \in Ops, n \in DOMAIN MCColumns, v \in Given}
         \cup {Bin(op, Lit(v), Fld(n)) : op \in Ops, n \in DOMAIN MCColumns, v \in Given}
Plains == {Fld(n) : n \in DOMAIN MCColumns} \cup {Lit(Bool(TRUE)), Lit(NullV), Bin("<", Lit(A1), Lit(Bool(TRUE)))}
          \cup {Bin("==", Fld("text"), Fld("dec")), Bin("!=", Fld("num"), <<"not", Fld("flag")>>)}
Others == Plains \cup {Bin("==", Fld("dec"), Lit(T1)), Bin("<", Fld("num"), Lit(Num(2))), Bin("<", Fld("text"), Lit(Num(1))),
                       Bin("in", Fld("num"), Lit(List(<<Num(1)>>))), <<"not", Bin("==", Fld("dec"), Lit(T10))>>}
Nots(s) == {<<"not", e>> : e \in s}
Pairs   == {Bin(op, l, r) : op \in {"&&", "||"}, l \in Others, r \in Others}
           \cup {Bin(op, l, r) : op \in {"&&", "||"}, l \in Tests, r \in {Fld("flag"), Bin("==", Fld("dec"), Lit(T1))}}
MCPolicies == Tests \cup Plains \cup Nots(Tests) \cup Nots(Plains) \cup Pairs \cup Nots(Pairs)

-----------------------------------------------------------------------------
(* What those answers say about caching.                                      *)

MCCacheOf ==
  [t \in {"op", "A", "P"} |->
     CASE t = "op" -> [age |-> 60, swr |-> 300, private |-> FALSE]
       [] t = "A" -> [age |-> 30, swr |-> None, private |-> FALSE]
       [] OTHER -> [age |-> 5, swr |-> 10, private |-> FALSE]]
MCOfViewer == {<<"A", "name">>, <<"B">>}

-----------------------------------------------------------------------------
(* Integers on both sides of every boundary, texts that repeat and ones that   *)
(* no Unicode text holds, nesting to the bound, pings anywhere, and every      *)
(* short message of the bytes that mean something.                             *)

MCKeyNames == <<<<"a">>, <<"u">>>>
Str(s) == <<"str", s>>
Numbers == {<<"int", n>> : n \in {0, 1, 15, 16, 63, 64, 65, 100, 126, 127}} \cup {<<"int", -n>> : n \in {1, 15, 16, 63, 64, 65, 66, 126, 127}}
Singles == Numbers \cup {<<"null">>, <<"nan">>, <<"bool", TRUE>>, <<"bool", FALSE>>, <<"float", <<7, 20>>>>, <<"bytes", <<1, 31>>>>}
           \cup {Str(<<>>), Str(<<"a">>), Str(<<"lone">>), <<"arr", <<>>>>, <<"obj", <<>>>>}
Repeats == {<<"arr", <<Str(a), Str(b), Str(a), Str(b)>>>> : a \in {<<"a">>, <<"u", "u">>, <<"lone">>}, b \in {<<"a">>, <<>>, <<"fffd">>}}
Objects == {<<"obj", <<<<k, x>>, <<<<"a", "a">>, y>>>>>> : k \in {<<"a">>, <<"u">>, <<"lone">>}, x \in {Str(<<"u">>), <<"int", 64>>}, y \in {Str(<<"u">>), <<"arr", <<<<"int", -127>>>>>>}}
Long    == <<"arr", [i \in 1..18 |-> <<"int", i>>]>>
MCMessages ==
  {<<v>> : v \in Singles \cup Repeats \cup Objects \cup {Long}} \cup {<<>>, <<Ping>>, <<Ping, Ping>>}
  \cup {<<Ping, Long, Ping, Str(<<"a">>)>>, <<Str(<<"a">>), Ping, Str(<<"a">>)>>, <<Long, Long>>}
  \cup {<<v, w>> : v \in Objects, w \in {<<"null">>, Str(<<"u">>)}}
Meaning == {0, 1, 2, 3, 5, 6, 7, 8, 17, 31}
MCGarbage == SeqOf(Meaning, 5) \cup {<<7, n, 5, 15>> \o [i \in 1..15 |-> 1] \o s : n \in 1..4, s \in SeqOf({0, 6}, 6)}

-----------------------------------------------------------------------------
(* Fields with and without aliases, arguments of every kind, modifiers and      *)
(* shapes of their own; spreads, deferred parts and type conditions; nested up  *)
(* to the limit and past it, and a view that spreads itself.                    *)

Named(n)       == [Anything EXCEPT !.name = n]
With(n, args)  == [Anything EXCEPT !.name = n, !.args = args]
Holding(i, is) == [i EXCEPT !.shape = Selecting(is)]
Spreading(v)   == [Anything EXCEPT !.kind = "spread", !.name = "T", !.label = v]
Deferred(l, is) == [Anything EXCEPT !.kind = "defer", !.label = l, !.shape = Selecting(is)]
OnType(t, is)  == [Anything EXCEPT !.kind = "on", !.name = t, !.shape = Selecting(is)]

Scalar1 == <<"scalar", "1">>
Deep    == <<"list", <<<<"list", <<Scalar1>>>>>>>>
Arguments ==
  {<<<<"a", Scalar1>>>>, <<<<"a", <<"scalar", "2">>>>>>, <<<<"b", <<"var", "a">>>>, <<"a", <<"scalar", "a">>>>>>,
   <<<<"a", <<"object", <<<<"b", Scalar1>>, <<"a", <<"list", <<>>>>>>>>>>>>>>, <<<<"a", <<"list", <<Scalar1, <<"var", "b">>>>>>>>>>, <<<<"a", Deep>>>>}

Parts ==
  {Named("a"), Named("b"), [Named("a") EXCEPT !.alias = "b"], [Named("a") EXCEPT !.eager = TRUE], [Named("b") EXCEPT !.eager = TRUE, !.partial = TRUE],
   Holding(Named("a"), <<>>), Holding(Named("a"), <<Named("b")>>), Holding(Named("a"), <<Named("b"), Named("a")>>),
   Holding(Named("a"), <<With("b", <<<<"a", Scalar1>>>>)>>), Holding(Named("a"), <<Holding(Named("a"), <<With("a", <<<<"a", Scalar1>>>>)>>)>>),
   Spreading("v"), Spreading("w"), Spreading("x"), Deferred("", <<Named("b")>>), Deferred("x", <<Named("b")>>), OnType("T", <<Named("a")>>), OnType("U", <<Spreading("v")>>)}
  \cup {With("a", as) : as \in Arguments}

MCWrittenShapes == {Selecting(<<>>)} \cup {Selecting(<<i>>) : i \in Parts} \cup {Selecting(<<i, j>>) : i \in Parts, j \in Parts}
MCRegistered == {Selecting(<<Named("a")>>), Selecting(<<Named("b"), Named("a")>>), Selecting(<<Spreading("v")>>), Selecting(<<Named("c")>>)}
MCNamedViews == (<<"T", "v">> :> Selecting(<<Named("b"), Named("a")>>)) @@ (<<"T", "w">> :> Selecting(<<Holding(Named("a"), <<Spreading("w")>>)>>))

-----------------------------------------------------------------------------
(* Requests of every method, route and origin, around a few that are well.    *)

Plainly ==
  [bound |-> FALSE, method |-> "POST", place |-> "mount", host |-> "app", origin |-> "none", tls |-> FALSE, media |-> "json",
   safe |-> FALSE, body |-> "batch", ops |-> {"query"}, accept |-> "frames", viewer |-> TRUE, key |-> TRUE]

Kinds == {{"query"}, {"command"}, {"query", "command"}, {"stream"}, {"query", "live"}}
Origins == {"none", "own http", "own https", "listed", "foreign"}

Batches ==
  {[Plainly EXCEPT !.method = m, !.origin = o, !.tls = t, !.media = md, !.safe = s, !.ops = k, !.accept = a] :
     m \in {"POST", "QUERY"}, o \in Origins, t \in BOOLEAN, md \in {"json", "form"}, s \in BOOLEAN, k \in Kinds, a \in {"frames", "single"}}
  \cup {[Plainly EXCEPT !.body = b, !.origin = o, !.media = "rb", !.safe = s] :
     b \in {"over", "broken", "no batch"}, o \in {"none", "foreign"}, s \in BOOLEAN}
OtherRoutes ==
  {[Plainly EXCEPT !.method = m, !.place = p, !.origin = o, !.ops = k, !.media = "octet", !.viewer = v, !.safe = s] :
     m \in {"GET", "HEAD", "POST", "PUT", "OPTIONS"}, p \in {"outside", "mount", "manifest", "health", "ready", "stats", "uploads", "op", "ws"},
     o \in {"none", "foreign"}, k \in {{"query"}, {"command"}, {"stream"}}, v \in BOOLEAN, s \in BOOLEAN}
  \cup {[Plainly EXCEPT !.place = "uploads", !.media = md, !.body = b, !.safe = s, !.origin = o, !.tls = t] :
          md \in {"form", "octet"}, b \in {"batch", "over"}, s \in BOOLEAN, o \in Origins, t \in BOOLEAN}
OtherHosts == {[Plainly EXCEPT !.host = h, !.place = p, !.method = m] :
                 h \in {"none", "localhost", "evil"}, p \in {"mount", "ready", "op"}, m \in {"GET", "POST"}}
Bindings ==
  {[Plainly EXCEPT !.bound = TRUE, !.method = m, !.origin = o, !.media = md, !.ops = k, !.key = y] :
     m \in {"GET", "HEAD", "QUERY", "POST", "PUT", "PATCH", "DELETE"}, o \in {"none", "own https", "foreign"},
     md \in {"json", "merge", "form"}, k \in {{"query"}, {"command"}}, y \in BOOLEAN}
  \cup {[Plainly EXCEPT !.bound = TRUE, !.ops = {"command"}, !.body = b] : b \in {"over", "broken"}}

MCRequests == Batches \cup OtherRoutes \cup OtherHosts \cup Bindings

Usual == [loopback |-> FALSE, hosts |-> {}, manifest |-> "redacted", stats |-> "off", ready |-> TRUE, draining |-> FALSE,
          uploads |-> TRUE, viewerRequired |-> TRUE]
MCServers ==
  {Usual, [Usual EXCEPT !.draining = TRUE, !.stats = "granted", !.viewerRequired = FALSE],
   [Usual EXCEPT !.loopback = TRUE, !.uploads = FALSE, !.manifest = "off", !.stats = "denied", !.ready = FALSE],
   [Usual EXCEPT !.hosts = {"app"}, !.viewerRequired = FALSE, !.stats = "granted"]}

-----------------------------------------------------------------------------
VARIABLE rule

rulesVars == <<rule, storesVars, schemaVars, projectionVars, policyVars, rbVars, shapeVars,
  httpEntryVars, pagesVars>>

Rules == {"members", "ordinals", "projection", "policy", "rb", "shapes", "registry",
          "http", "pages"}

\* A part that is not the one looked at rests.
ProjectionRests ==
  /\ position = "none" /\ world = "none" /\ explicit = FALSE /\ shape = <<>>
  /\ answered = FALSE /\ frames = [fails |-> FALSE, sent |-> {}]
PolicyRests == policy = <<"lit", NullV>> /\ fragment = LOOSE(<<>>) /\ ktFragment = LOOSE(<<>>)
RbRests == rbSent = <<Ping>> /\ wire = <<>> /\ buffer = <<>> /\ received = <<>>

HttpRests ==
  /\ request = "none" /\ server = "none" /\ drains = FALSE /\ outcome = Asked /\ ktOutcome = Asked
  /\ saying = 0 /\ took = 0 /\ keeps = <<>> /\ revalidated = NotAsked

PagesRest ==
  /\ tableRows = <<>> /\ tableWrites = 0 /\ reader = [st |-> "resting"]
  /\ lastPage = NoPage /\ gathered = <<>> /\ stayed = {}

RulesInit ==
  /\ StoresInit /\ rule \in (IF part = "none" THEN Rules ELSE {"none"})
  /\ SchemaInit /\ (rule # "members" => use = "result")
  /\ IF rule = "projection" THEN ProjectionInit ELSE ProjectionRests
  /\ IF rule = "policy" THEN PolicyInit ELSE PolicyRests
  /\ IF rule = "rb" THEN RbInit ELSE RbRests
  /\ IF rule = "http" THEN HttpEntryInit ELSE HttpRests
  /\ IF rule = "pages" THEN PagesInit ELSE PagesRest
  /\ IF rule = "shapes" THEN TextInit ELSE RegistryInit

OthersRest(r) ==
  /\ IF r \in {"members", "ordinals"} THEN TRUE ELSE UNCHANGED schemaVars
  /\ IF r = "projection" THEN TRUE ELSE UNCHANGED projectionVars
  /\ IF r = "policy" THEN TRUE ELSE UNCHANGED policyVars
  /\ IF r = "rb" THEN TRUE ELSE UNCHANGED rbVars
  /\ IF r = "http" THEN TRUE ELSE UNCHANGED httpEntryVars
  /\ IF r = "pages" THEN TRUE ELSE UNCHANGED pagesVars
  /\ IF r = "registry" THEN TRUE ELSE UNCHANGED shapeVars

InRule(r, A) == rule = r /\ A /\ UNCHANGED <<rule, storesVars>> /\ OthersRest(r)

RulesNext ==
  \/ InRule("members", MemberNext)
  \/ InRule("ordinals", OrdinalNext)
  \/ InRule("projection", ProjectionNext)
  \/ InRule("policy", PolicyNext)
  \/ InRule("rb", RbNext)
  \/ InRule("registry", RegistryNext)
  \/ InRule("http", HttpEntryNext)
  \/ InRule("pages", PagesNext)
  \/ StoresNext /\ UNCHANGED rule /\ OthersRest("none")

RulesSpec == RulesInit /\ [][RulesNext]_rulesVars /\ StoresRun

-----------------------------------------------------------------------------
(* Properties                                                                *)

\* What goes over the wire means the same at both ends: values in Rayfold
\* Binary, and shapes by their text and id.
WireFormsHold == BinaryHolds /\ ShapesHold
=============================================================================
