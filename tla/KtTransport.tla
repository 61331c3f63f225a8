----------------------------- MODULE KtTransport -----------------------------
(***************************************************************************)
(* The WebSocket transport of the Kotlin client: WebSocketTransportBase in *)
(* Transport.kt.  A batch is a coroutine that puts itself among those      *)
(* pending, takes the socket, awaits it and sends; the socket's thread     *)
(* routes frames and, once it ended, runs closed().  Only the socket field *)
(* and the frames without an op id are guarded by the lock, so a batch may *)
(* take any of its steps between two of closed().                          *)
(***************************************************************************)
EXTENDS Attribution, Sequences

CONSTANTS
  Frames,       \* frames that answer a batch, the last one with `fin`
  KtSockets,    \* sockets that may be opened, one after the other
  Racing        \* whether a batch may begin while closed() runs

ASSUME KtAssumption == Frames \in Nat \ {0} /\ KtSockets \in Nat /\ Racing \in BOOLEAN

KtSocket == 1..KtSockets

VARIABLES
  inUse,        \* the field `socket`, or 0
  future,       \* of each socket: "none", "opening", "open", "failed" or "cancelled"
  line,         \* the connection itself: "none", "up", or where its closed() stands
  step,         \* each batch: "new", "added", "awaits", "collects" or "over"
  ended,        \* how its channel was closed, or "no"
  rides,        \* the socket it took
  pending,      \* the batches frames are routed to
  written,      \* those whose envelope was sent
  due,          \* frames a batch has not received
  unowned,      \* frames without an op id
  asked, toSend,\* the server: what became of each envelope, and the frames it owes
  ktWire        \* frames on their way, by socket

ktConns == <<inUse, future, line>>
ktBatch == <<step, rides, written>>
ktServer == <<asked, toSend>>
ktVars  == <<ktConns, ktBatch, ended, pending, due, unowned, ktServer, ktWire>>

KtInit ==
  /\ inUse = 0 /\ future = [s \in KtSocket |-> "none"] /\ line = [s \in KtSocket |-> "none"]
  /\ step = [b \in Batch |-> "new"] /\ rides = [b \in Batch |-> 0] /\ written = {}
  /\ ended = [b \in Batch |-> "no"] /\ pending = {}
  /\ due = [b \in Batch |-> Frames] /\ unowned = {}
  /\ asked = [b \in Batch |-> "no"] /\ toSend = [b \in Batch |-> Frames]
  /\ ktWire = [s \in KtSocket |-> <<>>]

Open(b)  == ended[b] = "no"
Begun    == {b \in Batch : due[b] < Frames}
Ends(bs, how) == ended' = [b \in Batch |-> IF b \in bs /\ Open(b) THEN how ELSE ended[b]]
Steps(b, to)  == step' = [step EXCEPT ![b] = to]
ClosedRuns == \E s \in KtSocket : line[s] \in {"ending", "clearing"}

-----------------------------------------------------------------------------
(* send                                                                     *)

\* Among those pending first, so that a socket that ends finds it.
KtAdd(b) ==
  /\ step[b] = "new" /\ (Racing \/ ~ClosedRuns)
  /\ Steps(b, "added") /\ pending' = pending \cup {b}
  /\ UNCHANGED <<ktConns, rides, written, ended, due, unowned, ktServer, ktWire>>

KtUnopened == {s \in KtSocket : future[s] = "none"}

\* socket(): the one there is, or a new one, under the lock.
KtTake(b) ==
  /\ step[b] = "added"
  /\ IF inUse # 0
     THEN rides' = [rides EXCEPT ![b] = inUse] /\ UNCHANGED ktConns
     ELSE \E s \in KtUnopened :
            /\ \A t \in KtUnopened : s <= t
            /\ rides' = [rides EXCEPT ![b] = s] /\ inUse' = s
            /\ future' = [future EXCEPT ![s] = "opening"]
            /\ UNCHANGED line
  /\ Steps(b, "awaits")
  /\ UNCHANGED <<written, ended, pending, due, unowned, ktServer, ktWire>>

KtOpened(s) ==
  /\ future[s] = "opening"
  /\ future' = [future EXCEPT ![s] = "open"] /\ line' = [line EXCEPT ![s] = "up"]
  /\ UNCHANGED <<inUse, ktBatch, ended, pending, due, unowned, ktServer, ktWire>>

KtNotOpened(s) ==
  /\ future[s] = "opening"
  /\ future' = [future EXCEPT ![s] = "failed"]
  /\ UNCHANGED <<inUse, line, ktBatch, ended, pending, due, unowned, ktServer, ktWire>>

\* A connection whose future was cancelled comes up all the same.
KtUpForNobody(s) ==
  /\ future[s] = "cancelled" /\ line[s] = "none"
  /\ line' = [line EXCEPT ![s] = "up"]
  /\ UNCHANGED <<inUse, future, ktBatch, ended, pending, due, unowned, ktServer, ktWire>>

\* Marked before it is written; a socket that ended meanwhile swallows it.
KtWrite(b) ==
  /\ step[b] = "awaits" /\ future[rides[b]] = "open"
  /\ Steps(b, "collects") /\ written' = written \cup {b}
  /\ asked' = [asked EXCEPT ![b] = IF line[rides[b]] = "up" THEN "got" ELSE "no"]
  /\ UNCHANGED <<ktConns, rides, ended, pending, due, unowned, toSend, ktWire>>

\* The await throws: the field is cleared, whichever socket it names by now.
KtNoConnection(b) ==
  /\ step[b] = "awaits" /\ future[rides[b]] \in {"failed", "cancelled"}
  /\ inUse' = 0 /\ Ends({b}, "unavailable") /\ Steps(b, "collects")
  /\ UNCHANGED <<future, line, rides, written, pending, due, unowned, ktServer, ktWire>>

\* A collector that leaves while its socket opens cancels the future it awaits,
\* with everyone who awaits it, and stays among those pending.
KtLeftOpening(b) ==
  /\ step[b] = "awaits" /\ future[rides[b]] = "opening" /\ Open(b)
  /\ future' = [future EXCEPT ![rides[b]] = "cancelled"]
  /\ inUse' = 0 /\ Ends({b}, "left") /\ Steps(b, "over")
  /\ UNCHANGED <<line, rides, written, pending, due, unowned, ktServer, ktWire>>

KtLeft(b) ==
  /\ step[b] = "collects" /\ Open(b)
  /\ Ends({b}, "left")
  /\ UNCHANGED <<ktConns, ktBatch, pending, due, unowned, ktServer, ktWire>>

\* attribute(): the frames whose owner is known close their batches.
GivesOut(os, ps) ==
  LET a == Attributed(os, ps \ Begun') IN
  /\ unowned' = a.orphans
  /\ pending' = ps \ a.given
  /\ ended' = [b \in Batch |-> IF b \in a.given /\ Open(b) THEN "refused"
                               ELSE IF b \in ps /\ due'[b] = 0 /\ Open(b) THEN "answered" ELSE ended[b]]

\* awaitClose: one batch fewer may leave another the only owner.
KtOver(b) ==
  /\ step[b] = "collects" /\ ~Open(b)
  /\ Steps(b, "over") /\ UNCHANGED due
  /\ GivesOut(unowned, pending \ {b})
  /\ UNCHANGED <<ktConns, rides, written, ktServer, ktWire>>

-----------------------------------------------------------------------------
(* receive and closed                                                       *)

\* The batches a frame without an op id may be the answer to.
MayOwn == (pending \cap written) \ Begun

KtReceive(s) ==
  /\ line[s] = "up" /\ ktWire[s] # <<>>
  /\ ktWire' = [ktWire EXCEPT ![s] = Tail(ktWire[s])]
  /\ LET f == Head(ktWire[s]) IN
     IF f.refusal
     THEN /\ UNCHANGED due
          /\ GivesOut(unowned \cup {[of |-> f.of, among |-> MayOwn]}, pending)
     ELSE /\ due' = IF f.of \in pending THEN [due EXCEPT ![f.of] = due[f.of] - 1] ELSE due
          /\ GivesOut(unowned, pending)
  /\ UNCHANGED <<ktConns, ktBatch, ktServer>>

\* closed(), under the lock: the socket is forgotten, whichever it is.
KtEnding(s) ==
  /\ line[s] = "up"
  /\ line' = [line EXCEPT ![s] = "ending"] /\ inUse' = 0 /\ unowned' = {}
  /\ ktWire' = [ktWire EXCEPT ![s] = <<>>]
  /\ UNCHANGED <<future, ktBatch, ended, pending, due, ktServer>>

\* Mutant: those that wait for a socket are left alone.
EndedByClosed == written

\* The batches closed() ends, outside the lock: all that are pending.
AllPending == pending

KtFails(s) ==
  /\ line[s] = "ending"
  /\ line' = [line EXCEPT ![s] = "clearing"]
  /\ Ends(AllPending, "unavailable")
  /\ UNCHANGED <<inUse, future, ktBatch, pending, due, unowned, ktServer, ktWire>>

\* And forgets, those that came meanwhile too.
KtClears(s) ==
  /\ line[s] = "clearing"
  /\ line' = [line EXCEPT ![s] = "gone"] /\ pending' = {}
  /\ UNCHANGED <<inUse, future, ktBatch, ended, due, unowned, ktServer, ktWire>>

-----------------------------------------------------------------------------
(* The server.                                                              *)

Gives(b, refusal) == ktWire' = [ktWire EXCEPT ![rides[b]] = Append(@, [of |-> b, refusal |-> refusal])]

KtRefuse(b) ==
  /\ asked[b] = "got" /\ line[rides[b]] = "up"
  /\ asked' = [asked EXCEPT ![b] = "refused"] /\ Gives(b, TRUE)
  /\ UNCHANGED <<ktConns, ktBatch, ended, pending, due, unowned, toSend>>

KtAnswer(b) ==
  /\ asked[b] \in {"got", "answering"} /\ toSend[b] > 0 /\ line[rides[b]] = "up"
  /\ asked' = [asked EXCEPT ![b] = "answering"] /\ toSend' = [toSend EXCEPT ![b] = @ - 1]
  /\ Gives(b, FALSE)
  /\ UNCHANGED <<ktConns, ktBatch, ended, pending, due, unowned>>

-----------------------------------------------------------------------------

KtClosing(s) == KtFails(s) \/ KtClears(s)
KtProceeds(b) == KtTake(b) \/ KtWrite(b) \/ KtNoConnection(b) \/ KtOver(b)

KtNext ==
  \/ \E b \in Batch :
       KtAdd(b) \/ KtProceeds(b) \/ KtLeftOpening(b) \/ KtLeft(b) \/ KtRefuse(b) \/ KtAnswer(b)
  \/ \E s \in KtSocket :
       KtOpened(s) \/ KtNotOpened(s) \/ KtUpForNobody(s) \/ KtReceive(s) \/ KtEnding(s) \/ KtClosing(s)

KtSpec == KtInit /\ [][KtNext]_ktVars

-----------------------------------------------------------------------------

\* Sockets, batches and frames are in their domains, and only a batch that was
\* sent may own a frame without an op id.
KtTypeOK ==
  /\ inUse \in 0..KtSockets
  /\ future \in [KtSocket -> {"none", "opening", "open", "failed", "cancelled"}]
  /\ line \in [KtSocket -> {"none", "up", "ending", "clearing", "gone"}]
  /\ step \in [Batch -> {"new", "added", "awaits", "collects", "over"}]
  /\ ended \in [Batch -> {"no", "answered", "refused", "unavailable", "left"}]
  /\ rides \in [Batch -> 0..KtSockets] /\ pending \cup written \subseteq Batch
  /\ due \in [Batch -> 0..Frames] /\ toSend \in [Batch -> 0..Frames]
  /\ unowned \subseteq [of : Batch, among : (SUBSET written) \ {{}}]
  /\ asked \in [Batch -> {"no", "got", "refused", "answering"}]
  /\ ktWire \in [KtSocket -> Seq([of : Batch, refusal : BOOLEAN])]

\* A frame without an op id fails the batch it refuses and no other one, on
\* whichever of two sockets it comes (the comment above attribute), while those
\* the server refused are still there to be told.
KtOnlyRefusedFail ==
  (\A b \in Batch : asked[b] = "refused" => ended[b] \in {"no", "refused"}) =>
    \A b \in Batch : ended[b] = "refused" => asked[b] = "refused"

\* A socket that ends ends every batch on it (the comment above the class): once
\* its closed() is through, no batch that rode it still waits for frames.
SocketEndsItsBatches ==
  \A b \in Batch : (step[b] = "collects" /\ line[rides[b]] = "gone") => ~Open(b)

\* What the Kotlin transport owes its batches: a refusal that is their own, and
\* an end when their socket ends.
KtSocketsKept == KtTypeOK /\ KtOnlyRefusedFail /\ SocketEndsItsBatches
=============================================================================
