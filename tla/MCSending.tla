------------------------------ MODULE MCSending ------------------------------
(* A client and the key of its commands, one part at a time.  Queue: three    *)
(* commands, two outages and a reload, enough for a command to be lost on the *)
(* way, wait behind another and be resent by a new page.  Sockets: three      *)
(* batches, the least number at which two refusals and an answer may be told  *)
(* in any order, and two sockets, one after the other.  Key: two attempts on  *)
(* two servers that use one key for different arguments.  Screen: the live    *)
(* query or the watch of MCLiveClient beside its commands.                    *)
EXTENDS OfflineQueue, WsTransport, Commands, MCLiveClient

VARIABLE part

CONSTANTS b1, b2, b3, a1, a2, k1, s1, s2
MCBatches == {b1, b2, b3}
PairOf    == (a1 :> k1) @@ (a2 :> k1)
PairHash  == (a1 :> 1) @@ (a2 :> 2)
PairOn    == (a1 :> s1) @@ (a2 :> s2)

\* The screen's run is one of those the theorems of LiveClientProofs are about.
ASSUME ProvedOf == LinksToOthers /\ OneReader

all == <<part, queueVars, wsVars, vars, clientVars>>
MCInit ==
  /\ part \in {"queue", "sockets", "key", "screen"} /\ QueueInit /\ WsInit /\ Init /\ ClientInit
  /\ part # "queue" => accept = [c \in Command |-> TRUE]
  /\ part # "screen" => uses = NothingOpen
InQueue(A)   == part = "queue" /\ UNCHANGED part /\ A /\ UNCHANGED <<wsVars, vars, clientVars>>
InSockets(A) == part = "sockets" /\ UNCHANGED part /\ A /\ UNCHANGED <<queueVars, vars, clientVars>>
InKey(A)     == part = "key" /\ UNCHANGED part /\ A /\ UNCHANGED <<queueVars, wsVars, clientVars>>
InScreen(A)  == part = "screen" /\ UNCHANGED part /\ A /\ UNCHANGED <<queueVars, wsVars, vars>>
MCNext == InQueue(QueueNext) \/ InSockets(WsNext) \/ InKey(Next) \/ InScreen(ClientNext)
MCSpec ==
  /\ MCInit /\ [][MCNext]_all
  /\ WF_queueVars(InQueue(DrainSteps))
  /\ \A c \in Command : WF_queueVars(InQueue(Delivers(Serve(c) \/ Lose(c))))
  /\ \A b \in Batch : WF_wsVars(InSockets(RefuseEnvelope(b) \/ AnswerOp(b)))
  /\ \A s \in Socket :
       /\ WF_wsVars(InSockets(Opened(s) \/ NotOpened(s))) /\ WF_wsVars(InSockets(CloseEvent(s)))
       /\ WF_wire(InSockets(FrameTaken(s)))
  /\ WF_vars(InKey(Tick)) /\ \A a \in Attempts : WF_vars(InKey(Step(a))) /\ WF_vars(InKey(Renew(a)))
  /\ WF_control(InScreen(ClientWork))

\* What is being sent comes to its end: a drain that is asked for empties the
\* queue, a batch ends for its reader, and an attempt is answered.
SentEnds == CalledDrainEmpties /\ EveryBatchEnds /\ EveryAttemptEnds
=============================================================================
