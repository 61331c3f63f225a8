------------------------------- MODULE KtBatch -------------------------------
(* The schedule of one batch in Kotlin: runBatch, untilCancelled, untilDrained *)
(* and runOp in Batch.kt, over the state of Batch.  Every op is a coroutine of *)
(* one scope.  What stops it, a cancel, its deadline or the batch's, cancels   *)
(* its work and then waits until that work has ended: a resolver that notices  *)
(* ends early, one that does not runs on, and answers although it was stopped. *)
EXTENDS Naturals, FiniteSets

CONSTANTS
  KbIds, KbKinds,     \* the batch's op ids and the kinds of op in play
  KbRenewalsThrow     \* TRUE: the store may fail to renew the key of a command that has answered

ASSUME KbAssumption ==
  /\ KbIds \subseteq Nat \ {0} /\ IsFiniteSet(KbIds)
  /\ KbKinds \subseteq {"query", "command", "stream", "live"} /\ KbRenewalsThrow \in BOOLEAN

VARIABLES
  kbKind, kbDeps,                 \* the envelope
  kbPc, kbStatus, kbStarted,
  kbAborted,                      \* it was stopped: its work was cancelled
  kbBatchAborted, kbDraining,
  kbSent,                         \* the first frame that ended it
  kbTwice,                        \* the ops that were sent an error after that frame
  kbClosed, kbSettled

kbFrames == <<kbSent, kbTwice>>
kbVars == <<kbKind, kbDeps, kbPc, kbStatus, kbStarted, kbAborted, kbBatchAborted, kbDraining, kbFrames, kbClosed, kbSettled>>

Schedule == INSTANCE Batch WITH
  Ids <- KbIds, Kinds <- KbKinds,
  kind <- kbKind, deps <- kbDeps, pc <- kbPc, status <- kbStatus, started <- kbStarted, aborted <- kbAborted,
  batchAborted <- kbBatchAborted, draining <- kbDraining, sent <- kbSent, closed <- kbClosed, settled <- kbSettled

KbCommands == Schedule!Commands
KbLongLived == Schedule!LongLived

\* A frame that ends an op.  Nothing is asked before it is sent.
KtPush(i, f) ==
  IF kbSent[i] = "none" THEN kbSent' = [kbSent EXCEPT ![i] = f] /\ UNCHANGED kbTwice
  ELSE kbTwice' = kbTwice \union {i} /\ UNCHANGED kbSent
\* Whoever stops an op asks first (Sink.ended).
KtPushUnlessEnded(i, f) == IF kbSent[i] = "none" THEN KtPush(i, f) ELSE UNCHANGED kbFrames

KtFails(i) == KtPush(i, "error") /\ kbStatus' = [kbStatus EXCEPT ![i] = "failed"]
KtStopped(i) == KtPushUnlessEnded(i, "error") /\ kbStatus' = [kbStatus EXCEPT ![i] = "failed"]
KtGoes(i, l) == kbPc' = [kbPc EXCEPT ![i] = l]
KtShared == UNCHANGED <<kbKind, kbDeps, kbBatchAborted, kbDraining, kbClosed, kbSettled>>

KtTurn(i) == kbPc[i] = "waiting" /\ ~kbAborted[i] /\ Schedule!Ready(i)

\* Told in its turn: planning failed, what it refers to failed, or it would be
\* long-lived and the server drains.
KtRefused(i) ==
  /\ KtTurn(i) /\ KtFails(i) /\ KtGoes(i, "done")
  /\ KtShared /\ UNCHANGED <<kbStarted, kbAborted>>

KtStart(i) ==
  /\ KtTurn(i) /\ Schedule!RefsOk(i) /\ ~(kbDraining /\ i \in KbLongLived)
  /\ KtGoes(i, "run") /\ kbStarted' = kbStarted \cup {i}
  /\ KtShared /\ UNCHANGED <<kbStatus, kbAborted, kbFrames>>

\* The last frame of a command or a stream goes out before the scope that
\* renews its key, or watches for the drain, has ended.
KtAnswers(i) ==
  /\ kbPc[i] = "run" /\ (i \in KbCommands \/ kbKind[i] = "stream") /\ kbSent[i] = "none"
  /\ KtPush(i, "ok")
  /\ KtShared /\ UNCHANGED <<kbPc, kbStatus, kbStarted, kbAborted>>

\* A run may fail; once it has answered, when the server drains as its stream
\* ends, or when a renewal that throws ends the scope its command ran in.
KtMayFail(i) ==
  \/ kbSent[i] = "none"
  \/ kbKind[i] = "stream" /\ kbDraining /\ ~kbAborted[i]
  \/ i \in KbCommands /\ KbRenewalsThrow

\* The run ends by itself.  What it leaves in `status` is replaced when the op
\* was stopped meanwhile, whatever its frame says.
KtRunEnds(i) ==
  /\ kbPc[i] = "run"
  /\ \/ /\ kbSent[i] = "ok" \/ (kbKind[i] = "query" /\ kbSent[i] = "none")
        /\ KtPushUnlessEnded(i, "ok")
        /\ kbStatus' = [kbStatus EXCEPT ![i] = IF kbAborted[i] THEN "failed" ELSE "ok"]
     \/ KtMayFail(i) /\ KtFails(i)
  /\ KtGoes(i, IF kbAborted[i] THEN "gate" ELSE "done")
  /\ KtShared /\ UNCHANGED <<kbStarted, kbAborted>>

\* Mutant: an op that is stopped goes on at once, its work still running.
KtStopLeaves(i) ==
  /\ kbAborted[i] /\ ~kbBatchAborted /\ kbPc[i] \in {"waiting", "run"}
  /\ KtStopped(i) /\ KtGoes(i, "done")
  /\ KtShared /\ UNCHANGED <<kbStarted, kbAborted>>
\* Its work has ended by the cancellation: the batch answers for it.
KtStops(i) ==
  /\ kbAborted[i] /\ ~kbBatchAborted /\ kbPc[i] \in {"waiting", "run"}
  /\ KtStopped(i) /\ KtGoes(i, "gate")
  /\ KtShared /\ UNCHANGED <<kbStarted, kbAborted>>

\* A later command still waits for the earlier one.
KtPass(i) ==
  /\ kbPc[i] = "gate" /\ Schedule!GateOpen(i)
  /\ KtGoes(i, "done")
  /\ KtShared /\ UNCHANGED <<kbStatus, kbStarted, kbAborted, kbFrames>>

\* The whole batch is stopped: its ops end without a frame.
KtCut(i) ==
  /\ kbBatchAborted /\ kbPc[i] # "done"
  /\ KtGoes(i, "done")
  /\ KtShared /\ UNCHANGED <<kbStatus, kbStarted, kbAborted, kbFrames>>

\* The server drains: long-lived work watches for it and fails by itself.
KtDrain ==
  /\ ~kbDraining /\ kbDraining' = TRUE
  /\ UNCHANGED <<kbKind, kbDeps, kbPc, kbStatus, kbStarted, kbAborted, kbBatchAborted, kbFrames, kbClosed, kbSettled>>

\* A cancel or a deadline, of an op or of the batch.
KtAborts == ((\E i \in KbIds : Schedule!AbortOp(i)) \/ Schedule!AbortBatch) /\ UNCHANGED kbTwice

\* The flow's collector is gone, and with it the scope the batch runs in.
KtReaderGone ==
  /\ ~kbClosed /\ kbClosed' = TRUE /\ kbBatchAborted' = TRUE
  /\ kbAborted' = [i \in KbIds |-> kbAborted[i] \/ kbPc[i] # "done"]
  /\ UNCHANGED <<kbKind, kbDeps, kbPc, kbStatus, kbStarted, kbDraining, kbFrames, kbSettled>>

\* awaitAll is through; the ops that have no answer get the batch's reason.
KtSettle ==
  /\ ~kbSettled /\ \A i \in KbIds : kbPc[i] = "done"
  /\ kbSettled' = TRUE /\ kbSent' = [i \in KbIds |-> IF kbSent[i] = "none" THEN "error" ELSE kbSent[i]]
  /\ UNCHANGED <<kbKind, kbDeps, kbPc, kbStatus, kbStarted, kbAborted, kbBatchAborted, kbDraining, kbTwice, kbClosed>>

KtBatchNext ==
  \/ \E i \in KbIds : KtRefused(i) \/ KtStart(i) \/ KtAnswers(i) \/ KtRunEnds(i) \/ KtStops(i) \/ KtPass(i) \/ KtCut(i)
  \/ KtAborts \/ KtDrain \/ KtReaderGone \/ KtSettle

KtBatchInit == Schedule!Init /\ kbTwice = {}
KtBatchSpec == KtBatchInit /\ [][KtBatchNext]_kbVars

\* What the scopes do by themselves.
KtScheduled(i) == KtRefused(i) \/ KtStart(i) \/ KtPass(i) \/ (kbPc[i] # "run" /\ (KtStops(i) \/ KtCut(i)))

\* A short resolver ends, and a long-lived one when it is cancelled: stopped or drained.
KtRunsReturn ==
  \A i \in KbIds :
    WF_kbVars((i \notin KbLongLived \/ kbAborted[i] \/ kbDraining) /\ kbPc[i] = "run"
            /\ (KtRunEnds(i) \/ KtStops(i) \/ KtCut(i)))

-----------------------------------------------------------------------------

\* Whoever still reads when the batch is over was told how each op ended, also
\* of those its deadline cut off, and no dependent ran on an op that was told of
\* an error, first or last.  None is told twice but a stream that ends as the
\* server drains and a command whose key could not be renewed.
KtEveryOpAnswered ==
  /\ (kbSettled /\ ~kbClosed) => \A i \in KbIds : kbSent[i] # "none"
  /\ \A i \in KbIds : kbStatus[i] = "ok" => kbSent[i] = "ok" /\ i \notin kbTwice
  /\ \A i \in KbIds : (kbStatus[i] # "none" /\ ~kbClosed) => kbSent[i] # "none"
  /\ \A i \in kbTwice : (kbKind[i] = "stream" /\ kbDraining) \/ (i \in KbCommands /\ KbRenewalsThrow)

\* "A frame with `fin: true` is the last frame for that id" (spec 04 section 2):
\* no op is sent a second frame that ends it.
KtOneAnswer == kbTwice = {}

\* Commands run in ascending order, whichever of them is refused, stopped or cut
\* off before its turn, and nothing runs on a result that is not there.
KtKeepsSchedule == Schedule!CommandsInOrder /\ Schedule!RefsHold

\* A later command never runs beside an earlier one, not even beside one that
\* was stopped and whose resolver has not noticed (spec 03 section 3).
KtCommandsAlone ==
  \A c, d \in KbCommands : c # d => ~(kbPc[c] = "run" /\ kbPc[d] = "run")

\* If resolvers return, a batch that is stopped, or of which every op is short
\* or drained, comes to its end.
KtStoppedBatchEnds == KtRunsReturn => []<>((kbDraining \/ kbBatchAborted) => kbSettled)

\* The schedule of the Kotlin runtime keeps what the other one's does, answers
\* every op, and keeps its commands apart.
KtScheduleKept == KtEveryOpAnswered /\ KtKeepsSchedule /\ KtCommandsAlone
=============================================================================
