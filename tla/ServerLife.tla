----------------------------- MODULE ServerLife -----------------------------
(* The life of one server (server/src/server.ts): batches in flight with     *)
(* their readers, drain(), readiness, the relay's subscription, and close(). *)
(* What a batch does while it runs is module Batch; here its ops end, in     *)
(* any order, and push one last frame each. How frames are read is left to   *)
(* the modules that extend this one, one for each transport.                 *)
EXTENDS Naturals, FiniteSets, Sequences

CONSTANTS
  Batches,   \* calls of execute()
  Ids,       \* op ids
  OpsOf,     \* the op ids each batch names
  Workloads, \* of one life of the server: [sent: the batches clients may send, relay: none or pending, drains: the calls made]
  LiveOps,   \* pairs of a batch and an id: live queries and streams
  Drains     \* calls of drain()

ASSUME BatchesFinite == IsFiniteSet(Batches)
ASSUME IdsArePositive == Ids \subseteq Nat \ {0}
ASSUME OpsAreIds == OpsOf \in [Batches -> (SUBSET Ids) \ {{}}]
ASSUME WorkloadsFit == \A w \in Workloads : w.relay \in {"none", "pending"}

VARIABLES
  run,       \* new, turned (away), running, over (its sink is closed), settled (onSettled was called)
  left,      \* the ops of a running batch that have not ended
  sink,      \* frames nobody has read: the id of an op that ended, 0 for a refusal of the batch
  reader,    \* none, reading, read
  stopped,   \* the ops whose signal is aborted
  active,    \* RayfoldServer.active
  draining,  \* whether the drainer is aborted
  drain,     \* uncalled, waiting, drained, late
  answered,  \* history: the ops whose last frame was handed to the transport
  relay,     \* relayState
  hears,     \* whether the relay passes on what other servers say
  closing    \* of close(): uncalled, waiting, done
batchVars == <<run, left, sink, reader, stopped, answered>>
drainVars == <<active, draining, drain>>
relayVars == <<relay, hears, closing>>

LifeInit ==
  /\ \E w \in Workloads :
       /\ run = [b \in Batches |-> IF b \in w.sent THEN "new" ELSE "turned"]
       /\ relay = w.relay
       /\ drain = [d \in Drains |-> IF d \in w.drains THEN "uncalled" ELSE "late"]
  /\ left = [b \in Batches |-> {}]
  /\ sink = [b \in Batches |-> <<>>]
  /\ reader = [b \in Batches |-> "none"]
  /\ stopped = [b \in Batches |-> {}]
  /\ active = 0
  /\ draining = FALSE
  /\ answered = [b \in Batches |-> {}]
  /\ hears = FALSE
  /\ closing = "uncalled"

-----------------------------------------------------------------------------
(* execute(). Every transport starts to read as it calls it.                 *)

Execute(b) ==
  /\ run[b] = "new"
  /\ run' = [run EXCEPT ![b] = "running"]
  /\ left' = [left EXCEPT ![b] = OpsOf[b]]
  /\ reader' = [reader EXCEPT ![b] = "reading"]
  /\ active' = active + 1

\* The batch is counted off by the later of its end and its reader's, and the
\* one that brings the count to zero wakes whoever waits in drain().
CountOff ==
  /\ active' = active - 1
  /\ drain' = [d \in Drains |-> IF active = 1 /\ drain[d] = "waiting" THEN "drained" ELSE drain[d]]

\* Mutant: a batch is counted off when it has run, whoever still reads.
SettleUnread(b) ==
  /\ run[b] = "over"
  /\ run' = [run EXCEPT ![b] = "settled"]
  /\ IF active > 0 THEN CountOff ELSE UNCHANGED <<active, drain>>
  /\ UNCHANGED <<left, sink, reader, stopped, answered, draining, relayVars>>

\* onSettled: the batch has finished running.
Settle(b) ==
  /\ run[b] = "over"
  /\ run' = [run EXCEPT ![b] = "settled"]
  /\ IF reader[b] = "read" THEN CountOff ELSE UNCHANGED <<active, drain>>
  /\ UNCHANGED <<left, sink, reader, stopped, answered, draining, relayVars>>

\* The reader has the end of the frames, or returns before it.
ReaderIsDone(b) ==
  /\ reader' = [reader EXCEPT ![b] = "read"]
  /\ IF run[b] = "settled" /\ reader[b] = "reading" THEN CountOff ELSE UNCHANGED <<active, drain>>

FramesOver(b) == sink[b] = <<>> /\ run[b] \in {"over", "settled"}

\* FrameSink: what is pushed once the reader has returned goes nowhere.
Pushed(b, frame) == IF reader[b] = "read" THEN sink ELSE [sink EXCEPT ![b] = Append(@, frame)]

\* validateEnvelope refuses the batch: one frame without an op id.
RefuseEnvelope(b) ==
  /\ run[b] = "running" /\ left[b] = OpsOf[b]
  /\ run' = [run EXCEPT ![b] = "over"]
  /\ left' = [left EXCEPT ![b] = {}]
  /\ sink' = Pushed(b, 0)
  /\ UNCHANGED <<reader, stopped, answered, drainVars, relayVars>>

\* A live query or a stream ends only when it is told to: its own signal, or the drainer's.
OpEnds(b, i) ==
  /\ run[b] = "running" /\ i \in left[b]
  /\ <<b, i>> \in LiveOps => (i \in stopped[b] \/ draining)
  /\ left' = [left EXCEPT ![b] = @ \ {i}]
  /\ sink' = Pushed(b, i)
  /\ run' = [run EXCEPT ![b] = IF left[b] = {i} THEN "over" ELSE @]
  /\ UNCHANGED <<reader, stopped, answered, drainVars, relayVars>>

-----------------------------------------------------------------------------
(* drain(), the relay, close(), readiness()                                  *)

Drain(d) ==
  /\ drain[d] = "uncalled"
  /\ draining' = TRUE
  /\ drain' = [drain EXCEPT ![d] = IF active = 0 THEN "drained" ELSE "waiting"]

DrainTimesOut(d) ==
  /\ drain[d] = "waiting"
  /\ drain' = [drain EXCEPT ![d] = "late"]
  /\ UNCHANGED <<batchVars, active, draining, relayVars>>

\* subscribe resolves or rejects; a relay that was heard may be lost.
RelayListens ==
  /\ relay = "pending"
  /\ relay' = "listening" /\ hears' = TRUE
  /\ UNCHANGED <<batchVars, drainVars, closing>>
RelayFails ==
  /\ relay = "pending" \/ hears
  /\ relay' = "failed" /\ hears' = FALSE
  /\ UNCHANGED <<batchVars, drainVars, closing>>

\* close() stops what subscribe resolved to; a timer bounds its wait for that.
Close == closing' = IF relay = "none" THEN "done" ELSE "waiting"
CloseEnds ==
  /\ closing = "waiting"
  /\ closing' = "done"
  /\ hears' = FALSE
  /\ UNCHANGED <<batchVars, drainVars, relay>>

Ready == ~draining /\ relay \notin {"pending", "failed"}
=============================================================================
