----------------------------- MODULE WsTransport -----------------------------
(***************************************************************************)
(* One client, its WebSockets and the batches that share them:             *)
(* createWebSocketTransport in packages/client/src/ws-transport.ts.  A     *)
(* server answers a batch op by op, or refuses it with a single frame that *)
(* names no op, which the client attributes.  A batch is sent once; ids    *)
(* are unique, so a frame with an id names its batch.                      *)
(***************************************************************************)
EXTENDS Attribution, Sequences

CONSTANTS
  Ops,          \* ops in each
  MaxSockets,   \* sockets it may open, one after the other
  Overlap       \* whether a batch may be sent while an old socket's close event is due

ASSUME WsAssumption ==
  /\ Ops \in Nat \ {0} /\ MaxSockets \in Nat
  /\ Overlap \in BOOLEAN

Socket == 1..MaxSockets

VARIABLES
  ready,        \* readyState of each socket; "gone" once its close event was handled
  socket,       \* the socket in use, or 0
  opening,      \* the one being opened, or 0
  state,        \* each batch: "new", "pending", or how it was closed
  on,           \* the socket a batch waits for or was sent on
  sent,         \* its envelope is on the socket
  left,         \* its ops without a last frame
  orphans,      \* frames without an op id, each the refusal of `of`, and whose they may be
  serving,      \* the server: "none", "got", "refused" or "answering" for each batch
  owed,         \* last frames the server has yet to send
  wire          \* frames on their way to the client, by socket

conns == <<ready, socket, opening>>
server == <<serving, owed>>
wsVars == <<conns, state, on, sent, left, orphans, server, wire>>

Pending  == {b \in Batch : state[b] = "pending"}
AnsweredSome == {b \in Batch : left[b] < Ops}

WsInit ==
  /\ ready = [s \in Socket |-> "none"] /\ socket = 0 /\ opening = 0
  /\ state = [b \in Batch |-> "new"] /\ on = [b \in Batch |-> 0]
  /\ sent = {} /\ left = [b \in Batch |-> Ops] /\ orphans = {}
  /\ serving = [b \in Batch |-> "none"] /\ owed = [b \in Batch |-> Ops]
  /\ wire = [s \in Socket |-> <<>>]

Closed(bs, how) == state' = [b \in Batch |-> IF b \in bs THEN how ELSE state[b]]

-----------------------------------------------------------------------------
(* send and connect                                                         *)

Unopened == {s \in Socket : ready[s] = "none"}
Closing  == {s \in Socket : ready[s] = "closing"}

\* On the socket that is open, at once.
SendNow(b) ==
  /\ state[b] = "new" /\ socket # 0 /\ ready[socket] = "open"
  /\ state' = [state EXCEPT ![b] = "pending"]
  /\ on' = [on EXCEPT ![b] = socket] /\ sent' = sent \cup {b}
  /\ serving' = [serving EXCEPT ![b] = "got"]
  /\ UNCHANGED <<conns, left, orphans, owed, wire>>

\* Mutant: every batch that finds none open opens one.
SendFresh(b) ==
  /\ state[b] = "new" /\ ~(socket # 0 /\ ready[socket] = "open")
  /\ Closing # {} => Overlap
  /\ state' = [state EXCEPT ![b] = "pending"]
  /\ \E s \in Unopened : on' = [on EXCEPT ![b] = s] /\ opening' = s /\ ready' = [ready EXCEPT ![s] = "connecting"]
  /\ UNCHANGED <<socket, sent, left, orphans, server, wire>>

\* Otherwise on the one being opened, for which a new one is opened if none is.
SendLater(b) ==
  /\ state[b] = "new" /\ ~(socket # 0 /\ ready[socket] = "open")
  /\ Closing # {} => Overlap
  /\ state' = [state EXCEPT ![b] = "pending"]
  /\ IF opening # 0
     THEN on' = [on EXCEPT ![b] = opening] /\ UNCHANGED <<ready, opening>>
     ELSE \E s \in Unopened :
            /\ \A t \in Unopened : s <= t
            /\ on' = [on EXCEPT ![b] = s] /\ opening' = s
            /\ ready' = [ready EXCEPT ![s] = "connecting"]
  /\ UNCHANGED <<socket, sent, left, orphans, server, wire>>

\* Those that wait for the socket are sent, also one that was failed meanwhile.
Opened(s) ==
  /\ ready[s] = "connecting"
  /\ ready' = [ready EXCEPT ![s] = "open"] /\ socket' = s /\ opening' = 0
  /\ LET waiting == {b \in Batch : on[b] = s} IN
     /\ sent' = sent \cup waiting
     /\ serving' = [b \in Batch |-> IF b \in waiting THEN "got" ELSE serving[b]]
  /\ UNCHANGED <<state, on, left, orphans, owed, wire>>

\* A refused connection fails those that waited for it and is forgotten, so
\* that the next request tries again.
NotOpened(s) ==
  /\ ready[s] = "connecting"
  /\ ready' = [ready EXCEPT ![s] = "gone"] /\ opening' = 0
  /\ Closed({b \in Pending : on[b] = s}, "unavailable")
  /\ UNCHANGED <<socket, on, sent, left, orphans, server, wire>>

-----------------------------------------------------------------------------
(* What a socket brings.                                                    *)

\* A last frame of one of a batch's ops; the batch's readers end with the last.
RouteId(b) ==
  LET n == left[b] - 1
      open == {c \in Pending : c # b} \ AnsweredSome
      a == Attributed(orphans, open)
  IN IF b \in Pending
     THEN /\ left' = [left EXCEPT ![b] = n]
          /\ orphans' = a.orphans
          /\ state' = [c \in Batch |-> CASE c \in a.given -> "refused"
                                         [] c = b /\ n = 0 -> "answered"
                                         [] OTHER -> state[c]]
     ELSE UNCHANGED <<left, orphans, state>>

\* A frame without an op id: the batches sent and not answered may own it.
RouteOrphan(b) ==
  LET a == Attributed(orphans \cup {[of |-> b, among |-> (Pending \cap sent) \ AnsweredSome]}, Pending \ AnsweredSome)
  IN /\ orphans' = a.orphans
     /\ Closed(a.given, "refused")
     /\ UNCHANGED left

ReceiveFrame(s) ==
  /\ ready[s] = "open" /\ wire[s] # <<>>
  /\ wire' = [wire EXCEPT ![s] = Tail(wire[s])]
  /\ LET f == Head(wire[s]) IN
     IF f.refusal THEN RouteOrphan(f.of) ELSE RouteId(f.of)
  /\ UNCHANGED <<conns, on, sent, server>>

\* The connection ends (the server, the network, or close()); frames that come
\* from now on are not delivered, and the close event is due.
Close(s) ==
  /\ ready[s] = "open"
  /\ ready' = [ready EXCEPT ![s] = "closing"]
  /\ wire' = [wire EXCEPT ![s] = <<>>]
  /\ UNCHANGED <<socket, opening, state, on, sent, left, orphans, server>>

\* The close event: everything pending fails, and what was an orphan is dropped.
CloseEvent(s) ==
  /\ ready[s] = "closing"
  /\ ready' = [ready EXCEPT ![s] = "gone"]
  /\ socket' = IF socket = s THEN 0 ELSE socket
  /\ Closed(Pending, "unavailable")
  /\ orphans' = {}
  /\ UNCHANGED <<opening, on, sent, left, server, wire>>

\* The reader leaves: the batch is closed, and one fewer may leave another the
\* only owner.
Return(b) ==
  /\ b \in Pending
  /\ LET a == Attributed(orphans, (Pending \ {b}) \ AnsweredSome) IN
     /\ orphans' = a.orphans
     /\ state' = [c \in Batch |-> IF c = b THEN "returned" ELSE IF c \in a.given THEN "refused" ELSE state[c]]
  /\ UNCHANGED <<conns, on, sent, left, server, wire>>

-----------------------------------------------------------------------------
(* The server.                                                              *)

OnTheWire(b, refusal) == wire' = [wire EXCEPT ![on[b]] = Append(wire[on[b]], [of |-> b, refusal |-> refusal])]

RefuseEnvelope(b) ==
  /\ serving[b] = "got" /\ ready[on[b]] = "open"
  /\ serving' = [serving EXCEPT ![b] = "refused"]
  /\ OnTheWire(b, TRUE)
  /\ UNCHANGED <<conns, state, on, sent, left, orphans, owed>>

AnswerOp(b) ==
  /\ serving[b] \in {"got", "answering"} /\ owed[b] > 0 /\ ready[on[b]] = "open"
  /\ serving' = [serving EXCEPT ![b] = "answering"] /\ owed' = [owed EXCEPT ![b] = owed[b] - 1]
  /\ OnTheWire(b, FALSE)
  /\ UNCHANGED <<conns, state, on, sent, left, orphans>>

-----------------------------------------------------------------------------

WsNext ==
  \/ \E b \in Batch : SendNow(b) \/ SendLater(b) \/ Return(b) \/ RefuseEnvelope(b) \/ AnswerOp(b)
  \/ \E s \in Socket : Opened(s) \/ NotOpened(s) \/ ReceiveFrame(s) \/ Close(s) \/ CloseEvent(s)

WsSpec == WsInit /\ [][WsNext]_wsVars

\* What ReceiveFrame(s) does to the wire: fairness of it is that of ReceiveFrame(s).
FrameTaken(s) ==
  /\ ready[s] = "open" /\ wire[s] # <<>>
  /\ wire' = [wire EXCEPT ![s] = Tail(wire[s])]

\* A socket opens or does not, brings its frames or closes, and the server
\* answers or refuses what it got.
FairWs ==
  /\ WsSpec
  /\ \A b \in Batch : WF_wsVars(RefuseEnvelope(b) \/ AnswerOp(b))
  /\ \A s \in Socket :
       WF_wsVars(Opened(s) \/ NotOpened(s)) /\ WF_wire(FrameTaken(s)) /\ WF_wsVars(CloseEvent(s))

-----------------------------------------------------------------------------

\* Sockets, batches and frames are in their domains, and an orphan may only be
\* of batches that are pending and not answered.
WsTypeOK ==
  /\ ready \in [Socket -> {"none", "connecting", "open", "closing", "gone"}]
  /\ socket \in {0} \cup Socket /\ opening \in {0} \cup Socket
  /\ state \in [Batch -> {"new", "pending", "answered", "refused", "unavailable", "returned"}]
  /\ on \in [Batch -> {0} \cup Socket] /\ sent \subseteq Batch
  /\ left \in [Batch -> 0..Ops] /\ owed \in [Batch -> 0..Ops]
  /\ orphans \subseteq [of : Batch, among : (SUBSET (Pending \ AnsweredSome)) \ {{}}]
  /\ serving \in [Batch -> {"none", "got", "refused", "answering"}]
  /\ wire \in [Socket -> Seq([of : Batch, refusal : BOOLEAN])]

\* The connection a batch goes on is one: at most one opens, and none beside
\* one that is open.
OneConnection ==
  /\ \A s \in Socket : ready[s] = "connecting" => opening = s
  /\ \A s, t \in Socket : (ready[s] = "open" /\ ready[t] \in {"open", "connecting"}) => s = t

\* A frame without an op id fails the batch it refuses and no other one (the
\* comment above attribute): while its readers stay, the batches it is given to
\* are ones the server refused.
OnlyRefusedFail ==
  (\A b \in Batch : state[b] # "returned") =>
    \A b \in Batch : state[b] = "refused" => serving[b] = "refused"

\* A batch told the server is not there was on a socket that is gone (spec 04
\* section 5: the client fails the batches it sent on that socket).
UnavailableOnItsSocket ==
  \A b \in Batch : state[b] = "unavailable" => ready[on[b]] = "gone"

\* Every batch ends for its reader: refused and answered in any order, on any
\* number of failing sockets, no reader waits for ever.  A batch is sent once.
EveryBatchEnds == []<>(Pending = {})

\* What the transport owes its batches: one connection to go on, and a failure
\* that is their own, a refusal of them or the loss of the socket they were on.
SocketsKept == WsTypeOK /\ OneConnection /\ OnlyRefusedFail /\ UnavailableOnItsSocket
=============================================================================
