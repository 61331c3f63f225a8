----------------------------- MODULE ServerWire -----------------------------
(* One server with its transports: WebSocket connections and streamed HTTP   *)
(* responses over the batches of ServerLife, and the shutdown of all of it   *)
(* (server/src/http.ts shutdown).                                            *)
EXTENDS WsConnection

-----------------------------------------------------------------------------
(* A batch answered by an HTTP response (server/src/fetch.ts): the body is   *)
(* written as frames come, until the client hangs up, cancels it, or leaves  *)
(* too much of it unread.                                                    *)

CONSTANT HttpBatches   \* the batches sent as a request of their own

VARIABLES
  body,      \* none, accepted (past the draining check), open, closed, errored, canceled
  overflow   \* whether a frame found the queue full
httpVars == <<body, overflow>>

HttpInit ==
  /\ body = [b \in HttpBatches |-> "none"]
  /\ overflow = [b \in HttpBatches |-> FALSE]

\* The request is refused with 503 while the server drains.
Request(b) ==
  /\ body[b] = "none" /\ run[b] = "new"
  /\ IF draining
     THEN run' = [run EXCEPT ![b] = "turned"] /\ UNCHANGED body
     ELSE body' = [body EXCEPT ![b] = "accepted"] /\ UNCHANGED run
  /\ UNCHANGED <<left, sink, reader, stopped, answered, drainVars, relayVars, overflow>>

\* The viewer hook and the request's body have been awaited since.
Respond(b) ==
  /\ body[b] = "accepted"
  /\ Execute(b)
  /\ body' = [body EXCEPT ![b] = "open"]
  /\ UNCHANGED <<sink, stopped, answered, draining, drain, relayVars, overflow>>

\* stop: the signal of the whole batch.
Stop(b) == stopped' = [stopped EXCEPT ![b] = OpsOf[b]]

\* A frame is judged before it joins the queue; past a full one the batch is
\* stopped, and what it still says is skipped.
Enqueue(b) ==
  /\ b \in HttpBatches /\ reader[b] = "reading" /\ sink[b] # <<>> /\ body[b] = "open"
  /\ sink' = [sink EXCEPT ![b] = Tail(@)]
  /\ \/ overflow[b] /\ UNCHANGED <<answered, overflow, stopped>>
     \/ /\ ~overflow[b]
        /\ answered' = [answered EXCEPT ![b] = @ \union (IF Head(sink[b]) = 0 THEN OpsOf[b] ELSE {Head(sink[b])})]
        /\ \E full \in BOOLEAN :
             /\ overflow' = [overflow EXCEPT ![b] = full]
             /\ IF full THEN Stop(b) ELSE UNCHANGED stopped
  /\ UNCHANGED <<run, left, reader, drainVars, relayVars, body>>

\* A long answer of one op finds the queue full between two of its frames.
Overflow(b) ==
  /\ body[b] = "open" /\ ~overflow[b] /\ left[b] # {}
  /\ overflow' = [overflow EXCEPT ![b] = TRUE]
  /\ Stop(b)
  /\ UNCHANGED <<run, left, sink, reader, answered, drainVars, relayVars, body>>

\* Nobody is there to take the frame: enqueue throws, which ends the loop.
EnqueueThrows(b) ==
  /\ b \in HttpBatches /\ reader[b] = "reading" /\ sink[b] # <<>> /\ body[b] = "canceled" /\ ~overflow[b]
  /\ ReaderIsDone(b)
  /\ sink' = [sink EXCEPT ![b] = <<>>]
  /\ UNCHANGED <<run, left, stopped, answered, draining, relayVars, httpVars>>
\* ... unless it skips what a stopped batch says.
Skip(b) ==
  /\ b \in HttpBatches /\ reader[b] = "reading" /\ sink[b] # <<>> /\ body[b] = "canceled" /\ overflow[b]
  /\ sink' = [sink EXCEPT ![b] = Tail(@)]
  /\ UNCHANGED <<run, left, reader, stopped, answered, drainVars, relayVars, httpVars>>

Outcome(b) == IF overflow[b] THEN "errored" ELSE "closed"

BodyEnds(b) ==
  /\ b \in HttpBatches /\ reader[b] = "reading" /\ FramesOver(b)
  /\ ReaderIsDone(b)
  /\ body' = [body EXCEPT ![b] = IF @ = "open" THEN Outcome(b) ELSE @]
  /\ UNCHANGED <<run, left, sink, stopped, answered, draining, relayVars, overflow>>

\* The request's signal aborts, or whoever reads the body cancels it.
HangUp(b) ==
  /\ body[b] = "open"
  /\ Stop(b)
  /\ UNCHANGED <<run, left, sink, reader, answered, drainVars, relayVars, httpVars>>
CancelBody(b) ==
  /\ body[b] = "open"
  /\ body' = [body EXCEPT ![b] = "canceled"]
  /\ Stop(b)
  /\ UNCHANGED <<run, left, sink, reader, answered, drainVars, relayVars, overflow>>

-----------------------------------------------------------------------------

CONSTANTS
  AtShutdown,    \* the call of drain() that shutdown() makes
  ClientsRead    \* whether what is written to a socket is taken in the end

ASSUME ShutdownDrains == AtShutdown \in Drains
ASSUME OneTransport == HttpBatches \subseteq Batches /\ WsBatches \intersect HttpBatches = {}

VARIABLE shutdown   \* no, draining, closing (http.close was called), stopping (close() was)

vars == <<batchVars, drainVars, relayVars, connVars, httpVars, shutdown>>

Init == LifeInit /\ ConnInit /\ HttpInit /\ shutdown = "no"

TypeOK ==
  /\ run \in [Batches -> {"new", "turned", "running", "over", "settled"}]
  /\ left \in [Batches -> SUBSET Ids]
  /\ sink \in [Batches -> Seq(Ids \union {0})]
  /\ reader \in [Batches -> {"none", "reading", "read"}]
  /\ stopped \in [Batches -> SUBSET Ids]
  /\ answered \in [Batches -> SUBSET Ids]
  /\ active \in Nat
  /\ draining \in BOOLEAN
  /\ drain \in [Drains -> {"uncalled", "waiting", "drained", "late"}]
  /\ relay \in {"none", "pending", "listening", "failed"} /\ hears \in BOOLEAN
  /\ closing \in {"uncalled", "waiting", "done"}
  /\ sock \in [Conns -> {"open", "ended", "left", "gone"}]
  /\ ops \in [Conns -> [Ids -> Batches \union {NoOne}]]
  /\ ending \in [Conns -> {"no", "away", "expired"}]
  /\ expired \in [Conns -> BOOLEAN]
  /\ latest \in [Conns -> [Ids -> Batches \union {NoOne}]]
  /\ body \in [HttpBatches -> {"none", "accepted", "open", "closed", "errored", "canceled"}]
  /\ overflow \in [HttpBatches -> BOOLEAN]
  /\ shutdown \in {"no", "draining", "closing", "stopping"}

-----------------------------------------------------------------------------
(* shutdown()                                                                *)

Shutdown ==
  /\ shutdown = "no"
  /\ shutdown' = "draining"
  /\ DrainConns(AtShutdown)
  /\ UNCHANGED httpVars

CloseHttp ==
  /\ shutdown = "draining" /\ drain[AtShutdown] \in {"drained", "late"}
  /\ shutdown' = "closing"
  /\ UNCHANGED <<batchVars, drainVars, relayVars, connVars, httpVars>>

\* closeAllConnections, which does not reach a socket that was upgraded.
ForceHttp ==
  /\ shutdown = "closing" /\ \E b \in HttpBatches : body[b] = "open"
  /\ body' = [b \in HttpBatches |-> IF body[b] = "open" THEN "canceled" ELSE body[b]]
  /\ stopped' = [b \in Batches |-> IF b \in HttpBatches /\ body[b] = "open" THEN OpsOf[b] ELSE stopped[b]]
  /\ UNCHANGED <<run, left, sink, reader, answered, drainVars, relayVars, connVars, overflow, shutdown>>

\* http.close calls back when no connection is left, and close() follows.
HttpClosed ==
  /\ shutdown = "closing"
  /\ \A c \in Conns : sock[c] = "gone"
  /\ \A b \in HttpBatches : body[b] \notin {"accepted", "open"}
  /\ shutdown' = "stopping"
  /\ Close
  /\ UNCHANGED <<batchVars, drainVars, relay, hears, connVars, httpVars>>

-----------------------------------------------------------------------------
BatchStep ==
  /\ \E b \in Batches :
       \/ RefuseEnvelope(b)
       \/ \E i \in Ids : OpEnds(b, i)
       \/ Settle(b)
  /\ UNCHANGED <<connVars, httpVars, shutdown>>
CallDrain(d) == d # AtShutdown /\ DrainConns(d) /\ UNCHANGED <<httpVars, shutdown>>
LifeStep ==
  /\ (\E d \in Drains : DrainTimesOut(d)) \/ RelayListens \/ RelayFails \/ CloseEnds
  /\ UNCHANGED <<connVars, httpVars, shutdown>>
ConnStep(c) ==
  /\ \/ \E b \in Batches : Message(c, b) \/ Write(c, b) \/ WriteEnds(c, b)
     \/ \E i \in Ids : Cancel(c, i)
     \/ Expire(c) \/ Revoke(c) \/ CloseFrame(c) \/ Gone(c)
  /\ UNCHANGED <<httpVars, shutdown>>
HttpStep(b) ==
  /\ \/ Request(b) \/ Respond(b) \/ Enqueue(b) \/ Overflow(b) \/ EnqueueThrows(b)
     \/ Skip(b) \/ BodyEnds(b) \/ HangUp(b) \/ CancelBody(b)
  /\ UNCHANGED <<connVars, shutdown>>

Next ==
  \/ BatchStep
  \/ \E d \in Drains : CallDrain(d)
  \/ LifeStep
  \/ \E c \in Conns : ConnStep(c)
  \/ \E b \in HttpBatches : HttpStep(b)
  \/ Shutdown \/ CloseHttp \/ ForceHttp \/ HttpClosed

Spec == Init /\ [][Next]_vars

\* Loops go on, resolvers return, live ops heed their signal, timers fire, and
\* a socket whose writes are over is closed once its client took them. None of
\* this can go on for ever, so it is fair to all of it together.
OfBatch(b) == Settle(b) \/ \E i \in Ids : OpEnds(b, i)
OfHttp(b) == Respond(b) \/ Enqueue(b) \/ EnqueueThrows(b) \/ Skip(b) \/ BodyEnds(b)
OfConn(c) ==
  \/ \E b \in Batches : Write(c, b) \/ WriteEnds(c, b)
  \/ ClientsRead /\ sock[c] \in {"ended", "left"} /\ Gone(c)
Work ==
  \/ (\E b \in Batches : OfBatch(b)) /\ UNCHANGED <<connVars, httpVars, shutdown>>
  \/ (DrainTimesOut(AtShutdown) \/ CloseEnds) /\ UNCHANGED <<connVars, httpVars, shutdown>>
  \/ (\E c \in Conns : OfConn(c)) /\ UNCHANGED <<httpVars, shutdown>>
  \/ (\E b \in HttpBatches : OfHttp(b)) /\ UNCHANGED <<connVars, shutdown>>
  \/ CloseHttp \/ ForceHttp \/ HttpClosed
FairSpec == Spec /\ WF_vars(Work)

-----------------------------------------------------------------------------
(* Properties                                                                *)

InFlight == {b \in Batches : \/ run[b] \in {"running", "over"}
                             \/ run[b] = "settled" /\ reader[b] = "reading"}

\* A batch counts from execute() until it has run and its reader is done with
\* it, and is counted off once, whichever of the two is last.
InFlightIsCounted == active = Cardinality(InFlight)

\* drain() resolves in time only when nothing is running and nobody still
\* reads: a frame that ends an op is not lost to a connection that closes next.
DrainWaitsForReaders ==
  [][\A d \in Drains : drain[d] # "drained" /\ drain'[d] = "drained" => InFlight' = {}]_vars

\* The server ends a connection, to drain or because its capability expired,
\* only when every op taken on it has been answered.
EndsAfterAnswers ==
  [][\A c \in Conns : sock[c] = "open" /\ sock'[c] = "ended" =>
       \A b \in Batches : ConnOf[b] = c /\ run'[b] \in {"running", "over", "settled"} => answered'[b] = OpsOf[b]]_vars

\* A client routes frames by op id: no batch writes an op's last frame under an
\* id that a later batch of the connection was taken on with.
NobodyElsesAnswer ==
  [][\A b \in WsBatches, i \in Ids :
       i \in answered'[b] \ answered[b] /\ run[b] # "new" => latest[ConnOf[b]][i] = b]_vars

\* A response that ends well has told of every op.
WholeBodies == \A b \in HttpBatches : body[b] = "closed" => answered[b] = OpsOf[b]

\* Live queries and streams do not outlive the client they were opened for.
NobodyTakes(b) ==
  IF b \in HttpBatches THEN body[b] = "canceled" \/ overflow[b] ELSE sock[ConnOf[b]] = "gone"
NothingGoesOnForTheGone ==
  \A b \in Batches : (run[b] = "running" /\ NobodyTakes(b)) ~> (run[b] # "running")

\* shutdown() ends: the drain in time or late, the connections, the relay.
ShutdownEnds == (shutdown = "draining") ~> (closing = "done")

\* Every batch in flight is counted, and a body that ends well is whole.
FlightsCounted == TypeOK /\ InFlightIsCounted /\ WholeBodies

\* Answers come through: a drain waits for who still reads, an op's answer comes
\* before its connection is ended, and under its own id.
AnswersComeThrough == DrainWaitsForReaders /\ EndsAfterAnswers /\ NobodyElsesAnswer

\* What must stop does: what nobody reads any more, and the server itself.
WhatStopsEnds == NothingGoesOnForTheGone /\ ShutdownEnds
=============================================================================
