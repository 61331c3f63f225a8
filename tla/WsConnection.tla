---------------------------- MODULE WsConnection ----------------------------
(* The server's end of a WebSocket (server/src/ws.ts handleConnection): ops  *)
(* tracked by their ids, { cancel: id }, a client that reuses ids, stops     *)
(* reading or goes away, a capability that expires, and the two ways in      *)
(* which the server ends a connection, once the ops on it have ended.        *)
EXTENDS ServerLife

CONSTANTS
  Conns,     \* connections
  ConnOf,    \* the connection each batch is sent on, or none for another transport
  NoOne

ASSUME NoOneIsNoBatch == NoOne \notin Batches

WsBatches == {b \in Batches : ConnOf[b] \in Conns}

VARIABLES
  sock,      \* open, ended (by the server) or left (by the client): writes are over; gone: so are reads
  ops,       \* by connection and id: the batch whose controller is kept for it
  ending,    \* no, away (1001), expired (1008)
  expired,   \* whether the capability's exp has passed
  latest     \* history: the last batch taken on for an id
connVars == <<sock, ops, ending, expired, latest>>

ConnInit ==
  /\ sock = [c \in Conns |-> "open"]
  /\ ops = [c \in Conns |-> [i \in Ids |-> NoOne]]
  /\ ending = [c \in Conns |-> "no"]
  /\ expired = [c \in Conns |-> FALSE]
  /\ latest = [c \in Conns |-> [i \in Ids |-> NoOne]]

Idle(ids) == \A i \in Ids : ids[i] = NoOne
NoOps == [i \in Ids |-> NoOne]
OpsOfConn(c, b) == {i \in Ids : ops[c][i] = b}

\* abortAll: the controllers kept for c, whichever batches they belong to.
AbortAll(c) == stopped' = [b \in Batches |-> stopped[b] \union OpsOfConn(c, b)]

\* endWhenIdle, with the ending and the ops that c has by then.
EndWhenIdle(c, why, ids) ==
  sock' = [sock EXCEPT ![c] = IF why # "no" /\ Idle(ids) /\ @ = "open" THEN "ended" ELSE @]

\* What c says before it closes: going away, unless it is ending already.
Away(c) == IF ending[c] = "no" THEN "away" ELSE ending[c]
Revoked(c) == IF ending[c] = "no" THEN "expired" ELSE ending[c]

-----------------------------------------------------------------------------
(* onMessage                                                                 *)

TurnAway(b) == run' = [run EXCEPT ![b] = "turned"]

\* An id that is in use is refused without an id, which would end the other op.
RefuseTaken(c, b) ==
  /\ \E i \in OpsOf[b] : ops[c][i] # NoOne
  /\ TurnAway(b)
  /\ UNCHANGED <<left, sink, reader, stopped, answered, drainVars, connVars>>

\* refuseAll, then revoke.
RefuseExpired(c, b) ==
  /\ \A i \in OpsOf[b] : ops[c][i] = NoOne
  /\ expired[c]
  /\ TurnAway(b)
  /\ answered' = [answered EXCEPT ![b] = IF sock[c] = "open" THEN OpsOf[b] ELSE @]
  /\ ending' = [ending EXCEPT ![c] = Revoked(c)]
  /\ AbortAll(c)
  /\ EndWhenIdle(c, Revoked(c), ops[c])
  /\ UNCHANGED <<left, sink, reader, drainVars, ops, expired, latest>>

\* Mutant: ids in use are not looked at.
Unchecked(c, b) == ~expired[c]
Acceptable(c, b) == ~expired[c] /\ \A i \in OpsOf[b] : ops[c][i] = NoOne

Accept(c, b) ==
  /\ Acceptable(c, b)
  /\ Execute(b)
  /\ ops' = [ops EXCEPT ![c] = [i \in Ids |-> IF i \in OpsOf[b] THEN b ELSE @[i]]]
  /\ latest' = [latest EXCEPT ![c] = [i \in Ids |-> IF i \in OpsOf[b] THEN b ELSE @[i]]]
  /\ UNCHANGED <<sink, stopped, answered, draining, drain, sock, ending, expired>>

\* An envelope arrives. Messages are read as long as the socket is there, also
\* when its writes are over; a client sends none after its close frame.
Message(c, b) ==
  /\ ConnOf[b] = c /\ run[b] = "new" /\ sock[c] \in {"open", "ended"}
  /\ RefuseTaken(c, b) \/ RefuseExpired(c, b) \/ Accept(c, b)
  /\ UNCHANGED relayVars

Cancel(c, i) ==
  /\ sock[c] \in {"open", "ended"} /\ ops[c][i] # NoOne
  /\ stopped' = [stopped EXCEPT ![ops[c][i]] = @ \union {i}]
  /\ UNCHANGED <<run, left, sink, reader, answered, drainVars, relayVars, connVars>>

-----------------------------------------------------------------------------
(* The loop that writes a batch's frames                                     *)

Written(c, b, ids) == [answered EXCEPT ![b] = IF sock[c] = "open" THEN @ \union ids ELSE @]

\* The next frame: a refusal goes to every id of the batch, the last frame of
\* an op gives its id free.
Write(c, b) ==
  /\ ConnOf[b] = c /\ reader[b] = "reading" /\ sink[b] # <<>>
  /\ LET f == Head(sink[b]) IN
       /\ answered' = Written(c, b, IF f = 0 THEN OpsOf[b] ELSE {f})
       /\ ops' = IF f = 0 THEN ops ELSE [ops EXCEPT ![c][f] = NoOne]
  /\ sink' = [sink EXCEPT ![b] = Tail(@)]
  /\ UNCHANGED <<run, left, reader, stopped, drainVars, relayVars, sock, ending, expired, latest>>

\* What is kept after the loop: the controllers of other batches.
Kept(c, b) == [i \in Ids |-> IF ops[c][i] = b THEN NoOne ELSE ops[c][i]]

WriteEnds(c, b) ==
  /\ ConnOf[b] = c /\ reader[b] = "reading" /\ FramesOver(b)
  /\ ReaderIsDone(b)
  /\ ops' = [ops EXCEPT ![c] = Kept(c, b)]
  /\ ending' = [ending EXCEPT ![c] = IF draining THEN Away(c) ELSE @]
  /\ EndWhenIdle(c, ending'[c], Kept(c, b))
  /\ UNCHANGED <<run, left, sink, stopped, answered, draining, relayVars, expired, latest>>

-----------------------------------------------------------------------------
(* What ends a connection                                                    *)

\* Mutant: idle connections are left open.
GoAwayLater ==
  /\ ending' = [c \in Conns |-> IF sock[c] = "open" THEN Away(c) ELSE ending[c]]
  /\ UNCHANGED sock

\* goingAway, on every connection that still listens to the drainer.
GoAway ==
  /\ ending' = [c \in Conns |-> IF sock[c] = "open" THEN Away(c) ELSE ending[c]]
  /\ sock' = [c \in Conns |-> IF sock[c] = "open" /\ Idle(ops[c]) THEN "ended" ELSE sock[c]]

DrainConns(d) ==
  /\ Drain(d)
  /\ IF draining THEN UNCHANGED <<sock, ending>> ELSE GoAway
  /\ UNCHANGED <<batchVars, active, relayVars, ops, expired, latest>>

Expire(c) ==
  /\ ~expired[c]
  /\ expired' = [expired EXCEPT ![c] = TRUE]
  /\ UNCHANGED <<batchVars, drainVars, relayVars, sock, ops, ending, latest>>

\* watchExpiry's timer.
Revoke(c) ==
  /\ expired[c] /\ sock[c] = "open"
  /\ ending' = [ending EXCEPT ![c] = Revoked(c)]
  /\ AbortAll(c)
  /\ EndWhenIdle(c, Revoked(c), ops[c])
  /\ UNCHANGED <<run, left, sink, reader, answered, drainVars, relayVars, ops, expired, latest>>

\* stopAll, from the close event, the client's close frame, a message that is
\* too big, or a client that stopped reading: the ops are no longer tracked.
StopAll(c) ==
  /\ AbortAll(c)
  /\ ops' = [ops EXCEPT ![c] = NoOps]
  /\ UNCHANGED <<run, left, sink, reader, answered, drainVars, relayVars, ending, expired, latest>>

CloseFrame(c) ==
  /\ sock[c] = "open"
  /\ sock' = [sock EXCEPT ![c] = "left"]
  /\ StopAll(c)

\* The socket is destroyed: flushed after its end, or failed at any time.
Gone(c) ==
  /\ sock[c] # "gone"
  /\ sock' = [sock EXCEPT ![c] = "gone"]
  /\ StopAll(c)
=============================================================================
