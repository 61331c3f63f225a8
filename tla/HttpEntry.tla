------------------------------- MODULE HttpEntry -------------------------------
(***************************************************************************)
(* What an HTTP request comes to before and after its batch runs: the      *)
(* fetch handler (packages/server/src/fetch.ts), the REST-shaped routes    *)
(* (bindings.ts), the checks of both (guard.ts), and the Kotlin handler    *)
(* (RayfoldHttp.kt).  And how a kept answer is revalidated.                *)
(***************************************************************************)
EXTENDS Integers, Sequences, FiniteSets

CONSTANTS
  Requests,     \* the requests looked at
  Servers,      \* and the servers they are sent to
  MaxChanges    \* how often what a kept answer says changes

ASSUME HttpAssumption == MaxChanges \in Nat

VARIABLES
  request, server,
  drains,       \* whether the server drains by now
  outcome,      \* of the fetch handler or the bindings: a status, what was done, and whether a cache may keep it
  ktOutcome,    \* of the Kotlin handler
  saying,       \* what a query would be answered now
  took,         \* and how long that takes
  keeps,        \* the answers a client keeps, with their tags
  revalidated   \* what the client was told when it asked again: nothing yet, 200 or 304; and whether it asked for any answer

httpEntryVars == <<request, server, drains, outcome, ktOutcome, saying, took, keeps, revalidated>>

-----------------------------------------------------------------------------
(* guard.ts                                                                 *)

HostProblem(r) ==
  \/ r.host = "none"
  \/ server.hosts # {} /\ r.host \notin server.hosts
  \/ server.hosts = {} /\ server.loopback /\ r.host # "localhost"

\* One that is neither listed nor the host's own; a page served over plain http
\* is not the host's own where the request came over TLS.
OriginProblem(r) == r.origin = "foreign" \/ (r.origin = "own http" /\ r.tls)

-----------------------------------------------------------------------------
(* What comes of a request: the first that applies.                         *)

Outcome(status, does) == [status |-> status, does |-> does, kept |-> FALSE]
TurnedAway(status) == Outcome(status, "nothing")
\* Let in; the body is on its way.
Reading == Outcome(0, "reading")
If(when, then) == <<when, then>>
FirstOf(steps) == steps[CHOOSE i \in DOMAIN steps : steps[i][1] /\ \A j \in 1..(i - 1) : ~steps[j][1]][2]

BodyTypes  == {"json", "rb"}
SafeAsked(r) == r.method = "QUERY" \/ r.safe
Endless(r) == r.ops \cap {"live", "stream"} # {}
QueriesOnly(r) == r.ops \subseteq {"query", "live"}

\* Mutant: whatever is safe is answered whole.
BufferedIfSafe(r, safe) == (r.accept = "single" \/ safe)

\* One answer, or the answer to a safe request, is complete before it is sent;
\* what never ends is streamed whatever was asked.
Buffered(r, safe) == (r.accept = "single" \/ safe) /\ ~Endless(r)

\* A batch that was read: what is safe holds queries only, and what was
\* answered whole to it may be kept.
Run(r, safe) ==
  FirstOf(<<
    If(r.body = "no batch" \/ (safe /\ ~QueriesOnly(r)), TurnedAway(400)),
    If(Buffered(r, safe), [Outcome(200, "ran") EXCEPT !.kept = safe]),
    If(TRUE, Outcome(200, "streamed"))>>)

\* The routes that are answered without a batch, for GET.
Routes(r) == <<
  If(r.place = "manifest", IF server.manifest = "off" THEN TurnedAway(404) ELSE Outcome(200, "told")),
  If(r.place = "health", Outcome(200, "told")),
  If(r.place = "ready", IF drains \/ ~server.ready THEN Outcome(503, "told") ELSE Outcome(200, "told")),
  If(r.place = "stats" /\ server.stats = "off", TurnedAway(404)),
  If(r.place = "stats", IF server.stats = "granted" THEN Outcome(200, "told") ELSE TurnedAway(403))>>
Served == {"manifest", "health", "ready", "stats"}

Upload(r) ==
  FirstOf(<<
    If(OriginProblem(r), TurnedAway(403)),
    If(r.media # "octet", TurnedAway(415)),
    If(server.viewerRequired /\ ~r.viewer, TurnedAway(401)),
    If(TRUE, Reading)>>)

\* A batch in a body.  Only what may change data needs an origin.
Post(r) ==
  FirstOf(<<
    If(r.media \notin BodyTypes, TurnedAway(415)),
    If(~SafeAsked(r) /\ OriginProblem(r), TurnedAway(403)),
    If(TRUE, Reading)>>)

\* The body was read, and counted as it was, whatever length was declared.
BodyRead(r) ==
  FirstOf(<<
    If(r.body = "over", TurnedAway(413)),
    If(r.place = "uploads", Outcome(201, "kept")),
    If(r.body = "broken", TurnedAway(400)),
    If(TRUE, Run(r, SafeAsked(r)))>>)

\* One query in a path, if no route of the endpoint has its name.
GetQuery(r) ==
  FirstOf(<<
    If(r.place # "op", TurnedAway(404)),
    If(r.body = "broken", TurnedAway(400)),
    If(TRUE, Run(r, TRUE))>>)

\* createFetchHandler
Endpoint(r) ==
  FirstOf(<<
    If(HostProblem(r), TurnedAway(403)),
    If(r.place = "outside", TurnedAway(404)),
    If(r.method = "OPTIONS", Outcome(204, "told")),
    If(r.method = "GET" /\ r.place \in Served, FirstOf(Append(Routes(r), If(TRUE, TurnedAway(404))))),
    If(drains, TurnedAway(503)),
    If(r.place = "uploads" /\ server.uploads, IF r.method = "POST" THEN Upload(r) ELSE TurnedAway(501)),
    If(r.place = "mount", IF r.method \in {"POST", "QUERY"} THEN Post(r) ELSE TurnedAway(501)),
    If(r.method = "GET", GetQuery(r)),
    If(TRUE, TurnedAway(404))>>)

\* createBindingHandler: a route of an op, by a method that suits its kind.  A
\* body that is there has a type no form has.
Bound(r) ==
  LET suits == IF QueriesOnly(r) THEN {"GET", "QUERY"} ELSE {"POST", "PUT", "PATCH", "DELETE"} IN
  FirstOf(<<
    If(HostProblem(r) \/ (r.method \notin {"GET", "HEAD", "QUERY"} /\ OriginProblem(r)), TurnedAway(403)),
    If(r.method \notin suits, TurnedAway(405)),
    If(r.body = "over", TurnedAway(413)),
    If(r.method \in {"POST", "PUT", "PATCH", "QUERY"} /\ r.media \notin {"json"} \cup (IF r.method = "PATCH" THEN {"merge"} ELSE {}), TurnedAway(415)),
    If(r.body # "batch", TurnedAway(400)),
    If(r.method = "POST" /\ ~r.key, TurnedAway(400)),
    If(TRUE, [Outcome(200, "ran") EXCEPT !.kept = QueriesOnly(r)])>>)

-----------------------------------------------------------------------------
(* RayfoldHttp.kt                                                           *)

\* Whatever its route, what may change data needs an origin.
KtCheckOrigin(r) == ~(r.method \in {"GET", "QUERY"} \/ (r.method = "POST" /\ r.safe)) /\ OriginProblem(r)

KtUpload(r) ==
  FirstOf(<<
    If(r.media # "octet", TurnedAway(415)),
    If(server.viewerRequired /\ ~r.viewer, TurnedAway(401)),
    If(TRUE, Reading)>>)

KtPost(r) == IF r.media \notin BodyTypes THEN TurnedAway(415) ELSE Reading

\* RayfoldHttp.serve
KtServe(r) ==
  FirstOf(<<
    If(HostProblem(r), TurnedAway(403)),
    If(r.place = "outside", TurnedAway(404)),
    If(r.method = "OPTIONS", Outcome(204, "told")),
    If(KtCheckOrigin(r), TurnedAway(403)),
    If(r.method = "GET" /\ r.place \in Served, FirstOf(Append(Routes(r), If(TRUE, TurnedAway(404))))),
    If(drains, TurnedAway(503)),
    If(r.place = "uploads" /\ server.uploads /\ r.method = "POST", KtUpload(r)),
    If(r.place = "mount", IF r.method \in {"POST", "QUERY"} THEN KtPost(r) ELSE TurnedAway(501)),
    If(r.method = "GET", GetQuery(r)),
    If(TRUE, TurnedAway(404))>>)

Asked == [status |-> 0, does |-> "nothing", kept |-> FALSE]

\* Everything up to the body, draining included, is looked at at once.
HttpServe ==
  /\ outcome = Asked
  /\ IF request.bound
     THEN outcome' = Bound(request) /\ UNCHANGED ktOutcome
     ELSE outcome' = Endpoint(request) /\ ktOutcome' = KtServe(request)
  /\ UNCHANGED <<request, server, drains, saying, took, keeps, revalidated>>

\* A drain that begins meanwhile.
HttpDrain ==
  /\ Reading \in {outcome, ktOutcome} /\ ~drains /\ drains' = TRUE
  /\ UNCHANGED <<request, server, outcome, ktOutcome, saying, took, keeps, revalidated>>

AfterBody(o) == IF o = Reading THEN BodyRead(request) ELSE o
HttpBody ==
  /\ Reading \in {outcome, ktOutcome}
  /\ outcome' = AfterBody(outcome) /\ ktOutcome' = AfterBody(ktOutcome)
  /\ UNCHANGED <<request, server, drains, saying, took, keeps, revalidated>>

-----------------------------------------------------------------------------
(* A kept answer.  Its tag is of what the frames say but for how long they  *)
(* took.                                                                    *)

Digest(says, ms) == <<says, 0>>
Tag(says, ms)    == [weak |-> FALSE, of |-> Digest(says, ms)]

\* A tag without its `W/`.
Opaque(tag) == tag.of

\* `*`, or a list that names it.
EtagMatches(header, etag) == header.any \/ \E t \in header.tags : Opaque(t) = Opaque(etag)

\* A client keeps two answers at most.
Fetch ==
  /\ outcome.kept /\ revalidated.status = 0 /\ Len(keeps) < 2
  /\ \A i \in DOMAIN keeps : keeps[i].says # saying
  /\ keeps' = Append(keeps, [says |-> saying, tag |-> Tag(saying, took)])
  /\ UNCHANGED <<request, server, drains, outcome, ktOutcome, saying, took, revalidated>>

\* A proxy that compresses the answer.
Weaken ==
  /\ revalidated.status = 0
  /\ \E i \in DOMAIN keeps : ~keeps[i].tag.weak /\ keeps' = [keeps EXCEPT ![i].tag.weak = TRUE]
  /\ UNCHANGED <<request, server, drains, outcome, ktOutcome, saying, took, revalidated>>

Passes ==
  /\ keeps # <<>> /\ revalidated.status = 0
  /\ \/ \E n \in 0..MaxChanges : n # saying /\ saying' = n /\ UNCHANGED took
     \/ took = 0 /\ took' = 1 /\ UNCHANGED saying
  /\ UNCHANGED <<request, server, drains, outcome, ktOutcome, keeps, revalidated>>

\* The client names what it keeps, or asks whether there is an answer at all.
Revalidate ==
  /\ keeps # <<>> /\ revalidated.status = 0
  /\ \E any \in BOOLEAN :
       LET header == [any |-> any, tags |-> {keeps[i].tag : i \in DOMAIN keeps}] IN
       revalidated' = [status |-> IF EtagMatches(header, Tag(saying, took)) THEN 304 ELSE 200, any |-> any]
  /\ UNCHANGED <<request, server, drains, outcome, ktOutcome, saying, took, keeps>>

NotAsked == [status |-> 0, any |-> FALSE]

HttpEntryInit ==
  /\ request \in Requests /\ server \in Servers /\ drains = server.draining
  /\ outcome = Asked /\ ktOutcome = Asked
  /\ saying = 0 /\ took = 0 /\ keeps = <<>> /\ revalidated = NotAsked

HttpEntryNext == HttpServe \/ HttpDrain \/ HttpBody \/ Fetch \/ Weaken \/ Passes \/ Revalidate

HttpEntrySpec == HttpEntryInit /\ [][HttpEntryNext]_httpEntryVars

-----------------------------------------------------------------------------

Changes(r, o) == o.does = "kept" \/ (o.does \in {"ran", "streamed"} /\ "command" \in r.ops)

\* A request a page of another site made; none is looked at before it is served.
ForeignPage == outcome # Asked /\ OriginProblem(request)
Over(o) == o \notin {Asked, Reading}

\* What the Kotlin handler exempts from the rule for what may change data: an
\* upload sent as safe.
TakenAtItsWord == request.place = "uploads" /\ request.method = "POST" /\ request.safe

\* What a page of another site sends, whatever its method, headers and route,
\* stores nothing and runs no command, but for that upload in Kotlin; and what it
\* sends as a form would, with no preflight, runs nothing at all (spec 12,
\* section 2).
ForeignPagesOnlyRead ==
  ForeignPage =>
    /\ ~Changes(request, outcome) /\ (~TakenAtItsWord => ~Changes(request, ktOutcome))
    /\ (request.method = "POST" /\ ~request.safe) => {outcome.does, ktOutcome.does} = {"nothing"}

\* "Every check the batch endpoint applies to a write applies here too, because
\* this is one: the Host and Origin rules" (RayfoldHttp.kt, upload): the Kotlin
\* handler keeps nothing a foreign page uploads either.
ForeignUploadsRefused == ForeignPage => ktOutcome.does # "kept"

\* The two runtimes do the same with a request, and agree on what may be kept,
\* but for that upload.  A request one refuses the other refuses.
RuntimesAdmitAlike ==
  (Over(outcome) /\ Over(ktOutcome) /\ ~(ForeignPage /\ TakenAtItsWord)) =>
    outcome.does = ktOutcome.does /\ outcome.kept = ktOutcome.kept

\* A server that is about to stop says so where it is asked, and lets no request
\* in any more; it lives, until it is gone (spec 04, section 4).  One let in
\* before, whose body was still on its way, is served all the same.
DrainingIsSeen ==
  \A o \in {outcome, ktOutcome} : (Over(o) /\ ~request.bound) =>
    /\ server.draining => o.does \in {"nothing", "told"}
    /\ (o.status = 503 /\ request.place # "ready") => server.draining
    /\ (server.draining /\ request.method = "GET" /\ ~HostProblem(request)) =>
         /\ request.place = "health" => o.status = 200
         /\ request.place = "ready" => o.status = 503 /\ o.does = "told"

\* What a cache may keep is the whole answer to a request that changed nothing
\* (spec 07, section 2).
KeptAnswersAreWhole ==
  \A o \in {outcome, ktOutcome} : o.kept => o.does = "ran" /\ QueriesOnly(request) /\ "live" \notin request.ops

\* A client that asks again is told one of its answers still holds exactly if one
\* does, however long it took to say, and whatever a proxy did to its tags; to one
\* that asks for any answer, any does.
NotModifiedIsTrue ==
  revalidated.status # 0 =>
    (revalidated.status = 304 <=> revalidated.any \/ \E i \in DOMAIN keeps : keeps[i].says = saying)

\* Who may ask for what over HTTP, and what may be kept of the answer.
RequestsHold ==
  /\ ForeignPagesOnlyRead /\ RuntimesAdmitAlike /\ DrainingIsSeen
  /\ KeptAnswersAreWhole /\ NotModifiedIsTrue
=============================================================================
