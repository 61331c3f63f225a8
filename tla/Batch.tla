------------------------------- MODULE Batch --------------------------------
(***************************************************************************)
(* The schedule of one batch: validateEnvelope, runBatch, the ends of      *)
(* runOp and the FrameSink in packages/server/src/batch.ts.                *)
(*                                                                         *)
(* What an op does while it runs (keys, live loops, projection) is the     *)
(* subject of other modules; here it only ends, well or badly.  Init       *)
(* ranges over every envelope of the given ids that validation accepts.    *)
(***************************************************************************)
EXTENDS Integers, FiniteSets

CONSTANTS
  Ids,      \* op ids of the batch: a set of positive integers
  Kinds     \* the kinds of op in play, of "query", "command", "stream", "live"

ASSUME IdsAssumption ==
  /\ Ids \subseteq Nat \ {0} /\ IsFiniteSet(Ids)
  /\ Kinds \subseteq {"query", "command", "stream", "live"}

VARIABLES
  kind,      \* the envelope: what each op is
  deps,      \* the envelope: the ops each op's arguments refer to
  pc,        \* each op's task
  status,    \* the map the batch keeps: "ok" or "failed"
  started,   \* history: the op was let into its run
  aborted,   \* the op's own abort controller
  batchAborted, draining,
  sent,      \* the terminal frame each op has in the sink
  closed,    \* the sink is closed
  settled    \* the batch finished running (onSettled)

envelope == <<kind, deps>>
vars == <<envelope, pc, status, started, aborted, batchAborted, draining, sent, closed, settled>>

LongLived == {i \in Ids : kind[i] \in {"stream", "live"}}
Commands  == {i \in Ids : kind[i] = "command"}

\* A reference names an earlier op, and not a live one, which never finishes.
Reference(k, i, d) == d < i /\ k[d] # "live"

Init ==
  /\ kind \in [Ids -> Kinds]
  /\ deps \in [Ids -> SUBSET Ids]
  /\ \A i \in Ids : \A d \in deps[i] : Reference(kind, i, d)
  /\ pc = [i \in Ids |-> "waiting"]
  /\ status = [i \in Ids |-> "none"]
  /\ started = {}
  /\ aborted = [i \in Ids |-> FALSE]
  /\ batchAborted = FALSE /\ draining = FALSE
  /\ sent = [i \in Ids |-> "none"]
  /\ closed = FALSE /\ settled = FALSE

-----------------------------------------------------------------------------
(* The order ops run in.                                                    *)

\* The gate of a command is the task of the command before it alone
\* (prevCommand); another op has no gate.
GateOpen(i) ==
  i \in Commands =>
    \A c \in Commands :
      (c < i /\ \A b \in Commands : b < i => b <= c) => pc[c] = "done"

Ready(i) == GateOpen(i) /\ \A d \in deps[i] : pc[d] = "done"

\* An op's turn comes when it is ready or, while it waits, when it is aborted.
Turn(i) == pc[i] = "waiting" /\ (aborted[i] \/ Ready(i))

\* FrameSink.push of a terminal frame: not once the sink is closed, and no
\* second one for an op.
Push(i, f) ==
  sent' = IF closed \/ sent[i] # "none" THEN sent ELSE [sent EXCEPT ![i] = f]

\* fail() and the ok that ends a run.
EndRun(i, ok) ==
  /\ status' = [status EXCEPT ![i] = IF ok THEN "ok" ELSE "failed"]
  /\ Push(i, IF ok THEN "ok" ELSE "error")
  /\ pc' = [pc EXCEPT ![i] = "gate"]

\* The op does not run: planning failed, it is aborted, its deadline is not
\* valid, or an op it refers to failed.  (Planning and the deadline's value
\* are known before, and told in the op's turn.)
Refused(i) ==
  /\ Turn(i)
  /\ EndRun(i, FALSE)
  /\ UNCHANGED <<envelope, started, aborted, batchAborted, draining, closed, settled>>

RefsOk(i) == \A d \in deps[i] : status[d] = "ok"

\* The op runs.  A long-lived one that starts on a draining server is aborted
\* as it starts, and ends with the server's reason.
Start(i) ==
  /\ Turn(i) /\ ~aborted[i] /\ RefsOk(i)
  /\ pc' = [pc EXCEPT ![i] = "run"]
  /\ started' = started \cup {i}
  /\ aborted' = IF draining /\ i \in LongLived THEN [aborted EXCEPT ![i] = TRUE] ELSE aborted
  /\ UNCHANGED <<envelope, status, batchAborted, draining, sent, closed, settled>>

\* A query, a command and a stream may end well or badly, aborted or not; a
\* live query ends only with an error.
RunEnds(i) ==
  /\ pc[i] = "run"
  /\ \E ok \in BOOLEAN : (ok => kind[i] # "live") /\ EndRun(i, ok)
  /\ UNCHANGED <<envelope, started, aborted, batchAborted, draining, closed, settled>>

\* Mutant: a command that ended early lets the next one go at once.
PassNow(i) ==
  /\ pc[i] = "gate"
  /\ pc' = [pc EXCEPT ![i] = "done"]
  /\ UNCHANGED <<envelope, status, started, aborted, batchAborted, draining, sent, closed, settled>>

\* A later command still waits for the earlier one, even when this one ended
\* first; then those that refer to this op may go on.
Pass(i) ==
  /\ pc[i] = "gate" /\ GateOpen(i)
  /\ pc' = [pc EXCEPT ![i] = "done"]
  /\ UNCHANGED <<envelope, status, started, aborted, batchAborted, draining, sent, closed, settled>>

-----------------------------------------------------------------------------
(* Cancelling, draining and closing.                                        *)

\* { cancel: id } on a WebSocket, or the op's own deadline.
AbortOp(i) ==
  /\ pc[i] # "done" /\ ~aborted[i]
  /\ aborted' = [aborted EXCEPT ![i] = TRUE]
  /\ UNCHANGED <<envelope, pc, status, started, batchAborted, draining, sent, closed, settled>>

\* The caller went away, or meta.deadline passed: relayed to every op.
AbortBatch ==
  /\ ~settled /\ ~batchAborted
  /\ batchAborted' = TRUE
  /\ aborted' = [i \in Ids |-> aborted[i] \/ pc[i] # "done"]
  /\ UNCHANGED <<envelope, pc, status, started, draining, sent, closed, settled>>

\* Mutant: the server drains without telling the ops it is running.
DrainSilently ==
  /\ ~draining
  /\ draining' = TRUE
  /\ UNCHANGED <<envelope, pc, status, started, aborted, batchAborted, sent, closed, settled>>

\* The server shuts down: what would run for as long as its caller stays ends.
Drain ==
  /\ ~draining
  /\ draining' = TRUE
  /\ aborted' = [i \in Ids |-> aborted[i] \/ (i \in LongLived /\ pc[i] = "run")]
  /\ UNCHANGED <<envelope, pc, status, started, batchAborted, sent, closed, settled>>

\* Whoever read the frames stopped reading: the sink closes, the batch runs on.
ReaderGone ==
  /\ ~closed
  /\ closed' = TRUE
  /\ UNCHANGED <<envelope, pc, status, started, aborted, batchAborted, draining, sent, settled>>

Settle ==
  /\ ~settled /\ \A i \in Ids : pc[i] = "done"
  /\ settled' = TRUE /\ closed' = TRUE
  /\ UNCHANGED <<envelope, pc, status, started, aborted, batchAborted, draining, sent>>

-----------------------------------------------------------------------------

Next ==
  \/ \E i \in Ids : Refused(i) \/ Start(i) \/ RunEnds(i) \/ Pass(i) \/ AbortOp(i)
  \/ AbortBatch \/ Drain \/ ReaderGone \/ Settle

Spec == Init /\ [][Next]_vars

\* The promises the scheduler chains settle: it never withholds an op's turn.
Scheduling ==
  /\ \A i \in Ids : WF_vars(Refused(i) \/ Start(i)) /\ WF_vars(Pass(i))
  /\ WF_vars(Settle)

\* A resolver that is short ends, and a long-lived one ends when it is aborted
\* (raceAbort in runStream, the loop's condition in runLive).
RunsReturn ==
  \A i \in Ids : WF_vars((i \notin LongLived \/ aborted[i]) /\ RunEnds(i))

\* Resolvers may hang: that they return is the premise of what needs it.
FairSpec == Spec /\ Scheduling

-----------------------------------------------------------------------------

\* The envelope is as validated, and tasks, statuses and frames are in their domains.
TypeOK ==
  /\ kind \in [Ids -> Kinds] /\ deps \in [Ids -> SUBSET Ids]
  /\ \A i \in Ids : \A d \in deps[i] : d < i
  /\ pc \in [Ids -> {"waiting", "run", "gate", "done"}]
  /\ status \in [Ids -> {"none", "ok", "failed"}]
  /\ started \subseteq Ids
  /\ aborted \in [Ids -> BOOLEAN]
  /\ {batchAborted, draining, closed, settled} \subseteq BOOLEAN
  /\ sent \in [Ids -> {"none", "ok", "error"}]

\* Commands run one at a time in ascending id order, also when one between them
\* was cancelled or refused before its turn (spec 03 section 3).
CommandsInOrder ==
  \A c, d \in Commands : (c < d /\ d \in started) => pc[c] = "done"

\* No op runs on a result that is not there: whatever an op that ran refers to
\* has succeeded (spec 03 section 2).
RefsHold == \A i \in started : \A d \in deps[i] : status[d] = "ok"

\* A reader that stays is told how every op ended before the frames end, and is
\* told what the ops that depend on it were told (the map `status`); nothing of a
\* batch goes on, unseen, once the server has counted it as finished.
EveryOpAnswered ==
  /\ settled => \A i \in Ids : status[i] # "none"
  /\ \A i \in Ids : (status[i] # "none" /\ ~closed) =>
       sent[i] = (IF status[i] = "ok" THEN "ok" ELSE "error")

\* If resolvers return, the short ops end, whatever fails or is cancelled around
\* them, or a long-lived one still runs: no cycle of references and gates, none
\* waiting for a live query.
ShortOpsEnd ==
  RunsReturn => []<>((\A i \in Ids \ LongLived : pc[i] = "done") \/ \E d \in LongLived : pc[d] = "run")

\* If resolvers return, a draining or cancelled batch comes to its end,
\* long-lived ops included.
DrainEndsBatch == RunsReturn => []<>((draining \/ batchAborted) => settled)

\* A deadline or a cancel is answered while the op waits, even behind a command
\* that never returns (the comment above opAbort in runBatch): none stays there.
AbortAnsweredWhileWaiting == []<>(\A i \in Ids : ~(aborted[i] /\ pc[i] = "waiting"))

\* The envelope's schedule holds: the locals stay in their domains, commands run
\* in ascending order, nothing runs on a result that is not there, and every op
\* is answered once.
ScheduleKept == TypeOK /\ CommandsInOrder /\ RefsHold /\ EveryOpAnswered

\* A batch comes to its end: short ops always, a drained or cancelled batch even
\* with long-lived ones, and a cancelled op is answered while it waits.
StoppedBatchEnds == ShortOpsEnd /\ DrainEndsBatch /\ AbortAnsweredWhileWaiting
=============================================================================
