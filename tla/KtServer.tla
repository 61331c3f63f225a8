------------------------------ MODULE KtServer ------------------------------
(***************************************************************************)
(* A Kotlin server under its WebSocket sessions (RayfoldServer.kt,         *)
(* WsSession.kt and RayfoldWebSocket.kt in kotlin/rayfold-core): the count *)
(* of batches in flight that drain() waits for, and sessions whose         *)
(* messages are read on one thread, whose batches are coroutines on        *)
(* others, and whose end is called by whoever finds them idle.             *)
(*                                                                         *)
(* The other runtime runs the same protocol on one thread (ServerWire):    *)
(* there is no step between a test and what follows it there.              *)
(***************************************************************************)
EXTENDS Naturals, FiniteSets

CONSTANTS
  KsBatches,
  KsOpsOf,      \* of each, the ids of its ops
  KsLive,       \* those ops, as <<batch, id>>, that end only when they are stopped
  KsConns,
  KsConnOf,     \* the session a batch is sent on, or KsHttp
  KsHttp,
  KsDrains,     \* calls of drain()
  KsWorkloads   \* what may be done: [sent, drains, opens, ends, leaves]

KsIds == UNION {KsOpsOf[b] : b \in KsBatches}
ASSUME KtServerAssumption ==
  /\ IsFiniteSet(KsBatches) /\ \A b \in KsBatches : KsOpsOf[b] # {} /\ KsConnOf[b] \in KsConns \cup {KsHttp}
  /\ KsHttp \notin KsConns /\ KsLive \subseteq KsBatches \X KsIds
  /\ KsWorkloads \subseteq [sent : SUBSET KsBatches, drains : SUBSET KsDrains, opens : SUBSET KsConns,
                      ends : SUBSET KsConns,
                      leaves : SUBSET (KsConns \cup {KsHttp})]

VARIABLES
  ksPlan,       \* what of the above is done
  ksStage,      \* of a batch: unsent, read, passed, kept, launched, runs, writes, handing, over, left, refused, dropped
  ksOps,        \* `ops` of a session, as <<id, batch>>
  ksFreed,      \* of a batch, the ops that ended: their id is free again
  ksTold,       \* and those whose last frame went out, before the socket was ended
  ksStopped,    \* the ops whose cancel job is complete, as <<batch, id>>
  ksRunning,    \* of a session
  ksActive, ksDraining,
  ksClock,      \* of a session: unopened, and its capability: valid, past, or fired, which is the coroutine that waits for its end
  ksRevoked,    \* sessions
  ksDue,        \* goingAway() or endWhenIdle() called on a session and not yet begun
  ksLooked,     \* those that found it idle
  ksEnded,      \* those that ended the socket
  ksClosed,     \* sessions
  ksDrain,      \* of a call: out, told, adds, joined, waits, intime, late
  ksIdle,       \* calls waiting for the last batch
  ksDone,       \* calls that were told of it
  ksBefore,     \* (history) what was in flight when drain() was called
  ksRaced,      \* (history) calls that joined while a batch was telling those before them
  ksSlipped,    \* (history) batches that began on a session someone had found idle
  ksUnheard     \* (history) batches whose ops were kept when revoke() had gone through them

ksBatchVars == <<ksStage, ksOps, ksFreed, ksTold, ksStopped, ksRunning, ksActive, ksSlipped, ksUnheard>>
ksConnVars  == <<ksClock, ksRevoked, ksDue, ksLooked, ksEnded, ksClosed>>
ksDrainVars == <<ksDraining, ksDrain, ksIdle, ksDone, ksBefore, ksRaced>>
ksVars == <<ksPlan, ksBatchVars, ksConnVars, ksDrainVars>>

On(c) == {b \in KsBatches : KsConnOf[b] = c}
KsInFlight == {b \in KsBatches : ksStage[b] \in {"runs", "writes"}}
RunningOn(c) == {b \in On(c) : ksStage[b] \in {"launched", "runs", "writes", "handing", "over", "dropped"}}
Reading(c) == \E b \in On(c) : ksStage[b] \in {"read", "passed", "kept"}
Over(b) == KsConnOf[b] \in ksClosed
Opened(c) == c \in KsConns \ ksClosed /\ ksClock[c] # "unopened"

KsInit ==
  /\ ksPlan \in KsWorkloads
  /\ ksStage = [b \in KsBatches |-> "unsent"] /\ ksOps = [c \in KsConns |-> {}]
  /\ ksFreed = [b \in KsBatches |-> {}] /\ ksTold = [b \in KsBatches |-> {}] /\ ksStopped = {}
  /\ ksRunning = [c \in KsConns |-> 0] /\ ksActive = 0 /\ ksDraining = FALSE
  /\ ksClock = [c \in KsConns |-> "unopened"] /\ ksRevoked = {}
  /\ ksDue = [c \in KsConns |-> {}] /\ ksLooked = [c \in KsConns |-> {}]
  /\ ksEnded = [c \in KsConns |-> {}] /\ ksClosed = {}
  /\ ksDrain = [d \in KsDrains |-> "out"] /\ ksIdle = {} /\ ksDone = {}
  /\ ksBefore = [d \in KsDrains |-> {}] /\ ksRaced = {} /\ ksSlipped = {} /\ ksUnheard = {}

-----------------------------------------------------------------------------
(* A session's reader                                                       *)

To(b, s) == ksStage' = [ksStage EXCEPT ![b] = s]
InUse(c, i) == \E b \in KsBatches : <<i, b>> \in ksOps[c]

\* A session that is opened while the server drains goes away at once.
Connect(c) ==
  /\ c \in ksPlan.opens /\ ksClock[c] = "unopened" /\ ksClock' = [ksClock EXCEPT ![c] = "valid"]
  /\ ksDue' = IF ksDraining THEN [ksDue EXCEPT ![c] = @ \cup {"away"}] ELSE ksDue
  /\ UNCHANGED <<ksPlan, ksBatchVars, ksRevoked, ksLooked, ksEnded, ksClosed, ksDrainVars>>

\* onMessage: a batch may not use an id that is in use.
KsMessage(b) ==
  LET c == KsConnOf[b] IN
  /\ b \in ksPlan.sent /\ ksStage[b] = "unsent" /\ Opened(c) /\ ~Reading(c)
  /\ To(b, IF \E i \in KsOpsOf[b] : InUse(c, i) THEN "refused" ELSE "read")
  /\ UNCHANGED <<ksPlan, ksOps, ksFreed, ksTold, ksStopped, ksRunning, ksActive, ksSlipped, ksUnheard, ksConnVars, ksDrainVars>>

OpenOn(c) == {p \in KsBatches \X KsIds : <<p[2], p[1]>> \in ksOps[c]}
\* revoke(): once; the socket ends when the session is idle.
KsRevoke(c) ==
  /\ ksRevoked' = ksRevoked \cup {c}
  /\ ksStopped' = IF c \in ksRevoked THEN ksStopped ELSE ksStopped \cup OpenOn(c)
  /\ ksDue' = [ksDue EXCEPT ![c] = @ \cup {"expired"}]

\* Nothing is taken on past the capability.
KsAccept(b) ==
  /\ ksStage[b] = "read" /\ KsConnOf[b] \notin ksRevoked /\ ksClock[KsConnOf[b]] = "valid"
  /\ To(b, "passed")
  /\ UNCHANGED <<ksPlan, ksOps, ksFreed, ksTold, ksStopped, ksRunning, ksActive, ksSlipped, ksUnheard, ksConnVars, ksDrainVars>>
KsRefuse(b) ==
  LET c == KsConnOf[b] IN
  /\ ksStage[b] = "read" /\ (c \in ksRevoked \/ ksClock[c] # "valid")
  /\ To(b, "refused") /\ KsRevoke(c)
  /\ UNCHANGED <<ksPlan, ksOps, ksFreed, ksTold, ksRunning, ksActive, ksSlipped, ksUnheard, ksClock, ksLooked, ksEnded, ksClosed, ksDrainVars>>

\* ops.putAll, running.incrementAndGet and launch.
Keep(b) ==
  /\ ksStage[b] = "passed" /\ To(b, "kept")
  /\ ksOps' = [ksOps EXCEPT ![KsConnOf[b]] = @ \cup (KsOpsOf[b] \X {b})]
  /\ ksUnheard' = IF KsConnOf[b] \in ksRevoked THEN ksUnheard \cup {b} ELSE ksUnheard
  /\ UNCHANGED <<ksPlan, ksFreed, ksTold, ksStopped, ksRunning, ksActive, ksSlipped, ksConnVars, ksDrainVars>>
Launch(b) ==
  LET c == KsConnOf[b] IN
  /\ ksStage[b] = "kept" /\ To(b, "launched")
  /\ ksRunning' = [ksRunning EXCEPT ![c] = @ + 1]
  /\ ksSlipped' = IF ksLooked[c] # {} THEN ksSlipped \cup {b} ELSE ksSlipped
  /\ UNCHANGED <<ksPlan, ksOps, ksFreed, ksTold, ksStopped, ksActive, ksUnheard, ksConnVars, ksDrainVars>>

\* { "cancel": id }
KsCancel(c, i) ==
  /\ Opened(c) /\ ~Reading(c) /\ InUse(c, i)
  /\ ksStopped' = ksStopped \cup {p \in OpenOn(c) : p[2] = i}
  /\ UNCHANGED <<ksPlan, ksStage, ksOps, ksFreed, ksTold, ksRunning, ksActive, ksSlipped, ksUnheard, ksConnVars, ksDrainVars>>

-----------------------------------------------------------------------------
(* A batch                                                                  *)

\* An HTTP request runs its batch without a session, unless the server drains.
KsRequest(b) ==
  /\ b \in ksPlan.sent /\ ksStage[b] = "unsent" /\ KsConnOf[b] = KsHttp
  /\ To(b, IF ksDraining THEN "refused" ELSE "launched")
  /\ UNCHANGED <<ksPlan, ksOps, ksFreed, ksTold, ksStopped, ksRunning, ksActive, ksSlipped, ksUnheard, ksConnVars, ksDrainVars>>

\* A coroutine whose scope was cancelled before it began never does.
KsStart(b) ==
  /\ ksStage[b] = "launched" /\ ~Over(b) /\ To(b, "runs") /\ ksActive' = ksActive + 1
  /\ UNCHANGED <<ksPlan, ksOps, ksFreed, ksTold, ksStopped, ksRunning, ksSlipped, ksUnheard, ksConnVars, ksDrainVars>>
Drop(b) ==
  /\ ksStage[b] = "launched" /\ Over(b) /\ To(b, "dropped")
  /\ UNCHANGED <<ksPlan, ksOps, ksFreed, ksTold, ksStopped, ksRunning, ksActive, ksSlipped, ksUnheard, ksConnVars, ksDrainVars>>

MayEnd(b, i) == <<b, i>> \in KsLive => (<<b, i>> \in ksStopped \/ ksDraining)

\* Mutant: the id stays in use until the batch has left.
FreeLater(b, i) == ksOps
\* The id is free before the last frame goes out: a client that has seen that
\* frame may use it again.
Free(b, i) == IF KsConnOf[b] = KsHttp THEN ksOps ELSE [ksOps EXCEPT ![KsConnOf[b]] = @ \ {<<i, b>>}]
KsAnswer(b, i) ==
  /\ ksStage[b] = "runs" /\ ~Over(b) /\ i \in KsOpsOf[b] \ ksFreed[b] /\ MayEnd(b, i)
  /\ ksOps' = Free(b, i) /\ ksFreed' = [ksFreed EXCEPT ![b] = @ \cup {i}] /\ To(b, "writes")
  /\ UNCHANGED <<ksPlan, ksTold, ksStopped, ksRunning, ksActive, ksSlipped, ksUnheard, ksConnVars, ksDrainVars>>
\* What is written to a socket that was ended is lost, and nobody is told.
Hears(b) == IF KsConnOf[b] = KsHttp THEN TRUE ELSE ksEnded[KsConnOf[b]] = {}
KsWrite(b) ==
  /\ ksStage[b] = "writes" /\ ~Over(b) /\ To(b, "runs")
  /\ ksTold' = IF Hears(b) THEN [ksTold EXCEPT ![b] = ksFreed[b]] ELSE ksTold
  /\ UNCHANGED <<ksPlan, ksOps, ksFreed, ksStopped, ksRunning, ksActive, ksSlipped, ksUnheard, ksConnVars, ksDrainVars>>

\* execute's finally: the last one in flight tells those who wait for it.
KsEnds(b) == Over(b) \/ (ksStage[b] = "runs" /\ ksFreed[b] = KsOpsOf[b])
Leaves(b) ==
  /\ b \in KsInFlight
  /\ ksActive' = ksActive - 1 /\ To(b, IF ksActive = 1 THEN "handing" ELSE "over")
  /\ UNCHANGED <<ksPlan, ksOps, ksFreed, ksTold, ksStopped, ksRunning, ksSlipped, ksUnheard, ksConnVars, ksDrainVars>>
KsCountOff(b) == KsEnds(b) /\ Leaves(b)
\* A collector that is cancelled with the request it answers.
KsHangUp(b) == KsConnOf[b] = KsHttp /\ KsHttp \in ksPlan.leaves /\ Leaves(b)
HandOver(b, d) ==
  /\ ksStage[b] = "handing" /\ d \in ksIdle
  /\ ksIdle' = ksIdle \ {d} /\ ksDone' = ksDone \cup {d}
  /\ UNCHANGED <<ksPlan, ksBatchVars, ksConnVars, ksDraining, ksDrain, ksBefore, ksRaced>>
HandedOver(b) ==
  /\ ksStage[b] = "handing" /\ ksIdle = {} /\ To(b, "over")
  /\ UNCHANGED <<ksPlan, ksOps, ksFreed, ksTold, ksStopped, ksRunning, ksActive, ksSlipped, ksUnheard, ksConnVars, ksDrainVars>>

\* onMessage's finally: the last one looks whether the socket is to end.
Leave(b) ==
  LET c == KsConnOf[b] IN
  /\ ksStage[b] = "over" /\ c \in KsConns /\ To(b, "left")
  /\ ksOps' = [ksOps EXCEPT ![c] = @ \ (KsOpsOf[b] \X {b})]
  /\ ksRunning' = [ksRunning EXCEPT ![c] = @ - 1]
  /\ ksDue' = [ksDue EXCEPT ![c] = @ \cup {IF ksDraining THEN "away" ELSE "expired"}]
  /\ UNCHANGED <<ksPlan, ksFreed, ksTold, ksStopped, ksActive, ksSlipped, ksUnheard, ksClock, ksRevoked, ksLooked, ksEnded, ksClosed, ksDrainVars>>

-----------------------------------------------------------------------------
(* A session's end                                                          *)

KsClockPasses(c) ==
  /\ c \in ksPlan.ends /\ ksClock[c] = "valid" /\ ksClock' = [ksClock EXCEPT ![c] = "past"]
  /\ UNCHANGED <<ksPlan, ksBatchVars, ksRevoked, ksDue, ksLooked, ksEnded, ksClosed, ksDrainVars>>
KsExpire(c) ==
  /\ ksClock[c] = "past" /\ c \notin ksClosed /\ ksClock' = [ksClock EXCEPT ![c] = "fired"] /\ KsRevoke(c)
  /\ UNCHANGED <<ksPlan, ksStage, ksOps, ksFreed, ksTold, ksRunning, ksActive, ksSlipped, ksUnheard, ksLooked, ksEnded, ksClosed, ksDrainVars>>

\* goingAway() and endWhenIdle(): a test, and only then the flag that one of
\* those who passed it may set.
IdleFor(c, w) == ksRunning[c] = 0 /\ c \notin ksClosed /\ (w = "expired" => c \in ksRevoked)
Look(c, w) ==
  /\ w \in ksDue[c] /\ ksDue' = [ksDue EXCEPT ![c] = @ \ {w}]
  /\ ksLooked' = IF IdleFor(c, w) THEN [ksLooked EXCEPT ![c] = @ \cup {w}] ELSE ksLooked
  /\ UNCHANGED <<ksPlan, ksBatchVars, ksClock, ksRevoked, ksEnded, ksClosed, ksDrainVars>>
EndSocket(c, w) ==
  /\ w \in ksLooked[c] \ ksEnded[c] /\ ksEnded' = [ksEnded EXCEPT ![c] = @ \cup {w}]
  /\ UNCHANGED <<ksPlan, ksBatchVars, ksClock, ksRevoked, ksDue, ksLooked, ksClosed, ksDrainVars>>

\* close(): by the reader when the client has left, by the listener, or by
\* whoever ended the socket.
CloseSession(c) ==
  /\ Opened(c) /\ ksClosed' = ksClosed \cup {c}
  /\ ksStopped' = ksStopped \cup OpenOn(c)
  /\ ksOps' = [ksOps EXCEPT ![c] = {}]
  /\ UNCHANGED <<ksPlan, ksStage, ksFreed, ksTold, ksRunning, ksActive, ksSlipped, ksUnheard, ksClock, ksRevoked, ksDue, ksLooked, ksEnded, ksDrainVars>>
ServerCloses(c) == ksEnded[c] # {} /\ CloseSession(c)
PeerLeaves(c) == c \in ksPlan.leaves /\ CloseSession(c)

-----------------------------------------------------------------------------
(* drain()                                                                  *)

DrainTo(d, s) == ksDrain' = [ksDrain EXCEPT ![d] = s]

\* The first call has every open session look whether it may go.
DrainCalled(d) ==
  /\ d \in ksPlan.drains /\ ksDrain[d] = "out" /\ DrainTo(d, "told")
  /\ ksDraining' = TRUE /\ ksBefore' = [ksBefore EXCEPT ![d] = KsInFlight]
  /\ ksDue' = IF ksDraining THEN ksDue
              ELSE [c \in KsConns |-> IF Opened(c) THEN ksDue[c] \cup {"away"} ELSE ksDue[c]]
  /\ UNCHANGED <<ksPlan, ksBatchVars, ksClock, ksRevoked, ksLooked, ksEnded, ksClosed, ksIdle, ksDone, ksRaced>>
DrainCounts(d) ==
  /\ ksDrain[d] = "told" /\ DrainTo(d, IF ksActive = 0 THEN "intime" ELSE "adds")
  /\ UNCHANGED <<ksPlan, ksBatchVars, ksConnVars, ksDraining, ksIdle, ksDone, ksBefore, ksRaced>>
DrainJoins(d) ==
  /\ ksDrain[d] = "adds" /\ DrainTo(d, "joined") /\ ksIdle' = ksIdle \cup {d}
  /\ ksRaced' = IF \E b \in KsBatches : ksStage[b] = "handing" THEN ksRaced \cup {d} ELSE ksRaced
  /\ UNCHANGED <<ksPlan, ksBatchVars, ksConnVars, ksDraining, ksDone, ksBefore>>
\* The last batch may have ended between the count and the hand-over.
DrainCountsAgain(d) ==
  /\ ksDrain[d] = "joined"
  /\ DrainTo(d, IF ksActive = 0 THEN "intime" ELSE "waits")
  /\ ksIdle' = IF ksActive = 0 THEN ksIdle \ {d} ELSE ksIdle
  /\ UNCHANGED <<ksPlan, ksBatchVars, ksConnVars, ksDraining, ksDone, ksBefore, ksRaced>>
DrainTold(d) ==
  /\ ksDrain[d] = "waits" /\ d \in ksDone /\ DrainTo(d, "intime")
  /\ UNCHANGED <<ksPlan, ksBatchVars, ksConnVars, ksDraining, ksIdle, ksDone, ksBefore, ksRaced>>
DrainLate(d) ==
  /\ ksDrain[d] = "waits" /\ DrainTo(d, "late") /\ ksIdle' = ksIdle \ {d}
  /\ UNCHANGED <<ksPlan, ksBatchVars, ksConnVars, ksDraining, ksDone, ksBefore, ksRaced>>

-----------------------------------------------------------------------------

\* What threads and coroutines do by themselves, resolvers included.
BatchWork(b) ==
  \/ KsAccept(b) \/ KsRefuse(b) \/ Keep(b) \/ Launch(b) \/ KsStart(b) \/ Drop(b)
  \/ \E i \in KsIds : KsAnswer(b, i)
  \/ KsWrite(b) \/ KsCountOff(b) \/ HandedOver(b) \/ Leave(b) \/ \E d \in KsDrains : HandOver(b, d)
ConnWork(c) ==
  KsExpire(c) \/ ServerCloses(c) \/ \E w \in {"away", "expired"} : Look(c, w) \/ EndSocket(c, w)
DrainWork(d) == DrainCounts(d) \/ DrainJoins(d) \/ DrainCountsAgain(d) \/ DrainTold(d) \/ DrainLate(d)

KsNext ==
  \/ \E b \in KsBatches : KsMessage(b) \/ KsRequest(b) \/ KsHangUp(b) \/ BatchWork(b)
  \/ \E c \in KsConns : ConnWork(c) \/ KsClockPasses(c) \/ PeerLeaves(c) \/ Connect(c) \/ \E i \in KsIds : KsCancel(c, i)
  \/ \E d \in KsDrains : DrainCalled(d) \/ DrainWork(d)

KsSpec == KsInit /\ [][KsNext]_ksVars

\* Threads run on and resolvers return, and none of it goes on for ever;
\* nobody has to send, cancel, leave or drain, and no timeout has to pass.
KsWork == (\E b \in KsBatches : BatchWork(b)) \/ (\E c \in KsConns : ConnWork(c))
KsFairSpec == KsSpec /\ WF_ksVars(KsWork)

-----------------------------------------------------------------------------
(* Properties                                                               *)

KsTypeOK ==
  /\ ksPlan \in KsWorkloads
  /\ ksStage \in [KsBatches -> {"unsent", "read", "passed", "kept", "launched", "runs", "writes", "handing", "over",
                                "left", "refused", "dropped"}]
  /\ ksOps \in [KsConns -> SUBSET (KsIds \X KsBatches)]
  /\ ksFreed \in [KsBatches -> SUBSET KsIds] /\ ksTold \in [KsBatches -> SUBSET KsIds]
  /\ ksStopped \subseteq KsBatches \X KsIds
  /\ ksRunning \in [KsConns -> Nat] /\ ksActive \in Nat /\ ksDraining \in BOOLEAN
  /\ ksClock \in [KsConns -> {"unopened", "valid", "past", "fired"}] /\ ksRevoked \subseteq KsConns
  /\ ksDue \in [KsConns -> SUBSET {"away", "expired"}] /\ ksLooked \in [KsConns -> SUBSET {"away", "expired"}]
  /\ ksEnded \in [KsConns -> SUBSET {"away", "expired"}] /\ ksClosed \subseteq KsConns
  /\ ksDrain \in [KsDrains -> {"out", "told", "adds", "joined", "waits", "intime", "late"}]
  /\ ksIdle \subseteq KsDrains /\ ksDone \subseteq KsDrains /\ ksBefore \in [KsDrains -> SUBSET KsBatches]
  /\ ksRaced \subseteq KsDrains /\ ksSlipped \subseteq KsBatches /\ ksUnheard \subseteq KsBatches

\* The counts of a server and of its sessions are what runs there
\* (RayfoldServer.kt execute, WsSession.kt onMessage).
KtCounted ==
  /\ ksActive = Cardinality(KsInFlight)
  /\ \A c \in KsConns : ksRunning[c] = Cardinality(RunningOn(c))

\* drain() returns in time only when what was in flight as it was called has
\* ended, unless it joined while a batch was telling those who waited before
\* it; and a caller that still waits when nothing runs is being told
\* (RayfoldServer.kt drain).
KtDrainWaits ==
  \A d \in KsDrains :
    /\ ksDrain[d] = "intime" /\ d \notin ksRaced => ksBefore[d] \cap KsInFlight = {}
    /\ ksDrain[d] = "waits" /\ d \notin ksDone /\ ksActive = 0 =>
         d \in ksIdle /\ \E b \in KsBatches : ksStage[b] = "handing"

\* An id has one batch, and is free for another once its last frame is out
\* (WsSession.kt 147-149); a socket is ended after the last frames of every
\* batch, but for one that began when it had been found idle.
KtAnswersFirst ==
  /\ \A c \in KsConns, i \in KsIds, b, o \in KsBatches : <<i, b>> \in ksOps[c] /\ <<i, o>> \in ksOps[c] => b = o
  /\ \A c \in KsConns, b \in KsBatches : \A i \in ksTold[b] : <<i, b>> \notin ksOps[c]
  /\ \A b \in KsBatches : KsConnOf[b] \in KsConns /\ ksStage[b] \in {"launched", "runs", "writes", "handing", "over", "left"} =>
       (ksLooked[KsConnOf[b]] = {} \/ b \in ksSlipped \/ ksTold[b] = KsOpsOf[b])

KtSessionsKept == KtCounted /\ KtDrainWaits /\ KtAnswersFirst

\* A server that drains sends every session elsewhere (WsSession.kt 36-38), and
\* a socket is served until its capability ends, live queries included, and
\* ends there (73-74), unless an op was kept too late for revoke() to stop it.
KtSessionsEnd ==
  \A c \in KsConns :
    Opened(c) /\ (ksDraining \/ ksClock[c] = "fired")
      ~> ~Opened(c) \/ (~ksDraining /\ \E b \in ksUnheard : KsConnOf[b] = c)
=============================================================================
