---------------------------- MODULE BatchProofs ----------------------------
(* Proofs about Batch, and about the Kotlin runtime's KtBatch, for every set  *)
(* of ids, every kind of op and every envelope that validation accepts.      *)
EXTENDS Batch, KtBatch, FiniteSetTheorems, TLAPS

\* A set of op ids that has a member has a last one.
LEMMA LastId ==
  ASSUME NEW S \in SUBSET Nat, IsFiniteSet(S), S # {}
  PROVE  \E x \in S : \A y \in S : y <= x
<1> DEFINE After(x) == {y \in S : y > x}
           T == {After(x) : x \in S}
<1>1. IsWellFoundedOn(StrictSubsetOrdering(S), FiniteSubsetsOf(S))
  BY FS_StrictSubsetOrderingWellFounded
<1>2. T \subseteq FiniteSubsetsOf(S)
  <2> SUFFICES ASSUME NEW x \in S PROVE After(x) \in FiniteSubsetsOf(S)
    OBVIOUS
  <2>1. After(x) \subseteq S
    OBVIOUS
  <2>2. IsFiniteSet(After(x))
    BY <2>1, FS_Subset
  <2> QED BY <2>1, <2>2 DEF FiniteSubsetsOf
<1>3. T # {}
  OBVIOUS
<1>4. PICK U \in T : \A V \in T : ~(<<V, U>> \in StrictSubsetOrdering(S))
  <2> HIDE DEF T
  <2> QED BY <1>1, <1>2, <1>3, WFMin
<1>5. PICK x \in S : U = After(x)
  BY <1>4, Zenon
<1>6. ASSUME NEW z \in S, z > x PROVE FALSE
  <2>1. After(z) \in T /\ After(z) \subseteq S /\ After(x) \subseteq S
    OBVIOUS
  <2>2. After(z) \subseteq After(x)
    <3> SUFFICES ASSUME NEW y \in S, y > z PROVE y > x
      OBVIOUS
    <3>1. x \in Nat /\ y \in Nat /\ z \in Nat
      OBVIOUS
    <3> QED BY <1>6, <3>1
  <2>3. z \in After(x) /\ z \notin After(z)
    BY <1>6
  <2>4. After(z) # After(x)
    BY <2>3
  <2> HIDE DEF After, T
  <2>5. <<After(z), After(x)>> \in StrictSubsetOrdering(S)
    BY <2>1, <2>2, <2>4 DEF StrictSubsetOrdering
  <2> QED BY <1>4, <1>5, <2>1, <2>5
<1>7. \A y \in S : y <= x
  BY <1>6
<1> QED BY <1>7

-----------------------------------------------------------------------------

\* The commands that are done are the first ones.
DoneInOrder == \A b, c \in Commands : (b < c /\ pc[c] = "done") => pc[b] = "done"

\* An op is answered exactly when it has ended.
EndedAnswered == \A i \in Ids : (status[i] # "none") <=> pc[i] \in {"gate", "done"}

\* What else holds between the tasks, the statuses and the frames.
Bookkeeping ==
  /\ \A i \in started : pc[i] # "waiting"
  /\ \A i \in Ids : status[i] = "none" => sent[i] = "none"

\* The inductive invariant.
BInv ==
  /\ TypeOK
  /\ DoneInOrder /\ EndedAnswered /\ Bookkeeping
  /\ CommandsInOrder /\ RefsHold /\ EveryOpAnswered

\* Once the gate of a command is open, every earlier command is done.
LEMMA GateIsAfterAll ==
  ASSUME BInv, NEW i \in Commands, GateOpen(i), NEW b \in Commands, b < i
  PROVE  pc[b] = "done"
<1> DEFINE Below == {c \in Commands : c < i}
<1>1. Ids \in SUBSET Nat /\ IsFiniteSet(Ids) /\ Commands \subseteq Ids
  BY IdsAssumption DEF Commands
<1>2. Below \in SUBSET Nat /\ Below \subseteq Ids /\ b \in Below
  BY <1>1
<1>3. IsFiniteSet(Below)
  BY <1>1, <1>2, FS_Subset
<1>4. PICK c \in Below : \A y \in Below : y <= c
  <2> HIDE DEF Below
  <2> QED BY <1>2, <1>3, LastId
<1>5. pc[c] = "done"
  BY <1>4 DEF GateOpen
<1>6. b \in Nat /\ c \in Nat /\ b <= c
  BY <1>1, <1>2, <1>4
<1>7. CASE b = c
  BY <1>5, <1>7
<1>8. CASE b < c
  BY <1>5, <1>8, <1>4 DEF BInv, DoneInOrder
<1> QED BY <1>6, <1>7, <1>8

LEMMA InitBInv == Init => BInv
<1> SUFFICES ASSUME Init PROVE BInv
  OBVIOUS
<1>1. TypeOK
  BY IdsAssumption DEF Init, TypeOK, Reference
<1>2. DoneInOrder /\ EndedAnswered /\ Bookkeeping
  BY DEF Init, DoneInOrder, EndedAnswered, Bookkeeping, Commands
<1>3. CommandsInOrder /\ RefsHold /\ EveryOpAnswered
  BY DEF Init, CommandsInOrder, RefsHold, EveryOpAnswered
<1> QED BY <1>1, <1>2, <1>3 DEF BInv

\* The end of an op, whether it ran or was refused.
LEMMA EndRunBInv ==
  ASSUME BInv, NEW i \in Ids, NEW ok \in BOOLEAN, EndRun(i, ok),
         pc[i] \in {"waiting", "run"},
         UNCHANGED <<envelope, started, aborted, batchAborted, draining, closed, settled>>
  PROVE  BInv'
<1>1. /\ pc' = [pc EXCEPT ![i] = "gate"]
      /\ status' = [status EXCEPT ![i] = IF ok THEN "ok" ELSE "failed"]
      /\ UNCHANGED <<kind, deps, started, aborted, batchAborted, draining, closed, settled>>
  BY DEF EndRun, envelope
<1>2. sent' = IF closed \/ sent[i] # "none" THEN sent ELSE [sent EXCEPT ![i] = IF ok THEN "ok" ELSE "error"]
  BY DEF EndRun, Push
<1>3. status[i] = "none" /\ sent[i] = "none"
  BY DEF BInv, EndedAnswered, Bookkeeping
<1>4. TypeOK'
  BY <1>1, <1>2 DEF BInv, TypeOK
<1>5. Commands' = Commands /\ Commands \subseteq Ids
  BY <1>1 DEF Commands
<1>6. DoneInOrder'
  BY <1>1, <1>5 DEF BInv, DoneInOrder, TypeOK
<1>7. EndedAnswered'
  BY <1>1 DEF BInv, EndedAnswered, TypeOK
<1>8. Bookkeeping'
  <2>1. \A j \in started' : pc'[j] # "waiting"
    BY <1>1 DEF BInv, Bookkeeping, TypeOK
  <2>2. \A j \in Ids : status'[j] = "none" => sent'[j] = "none"
    BY <1>1, <1>2 DEF BInv, Bookkeeping, TypeOK
  <2> QED BY <2>1, <2>2 DEF Bookkeeping
<1>9. CommandsInOrder'
  BY <1>1, <1>5 DEF BInv, CommandsInOrder, TypeOK
<1>10. RefsHold'
  BY <1>1, <1>3 DEF BInv, RefsHold, TypeOK
<1>11. EveryOpAnswered'
  <2>1. settled' => \A j \in Ids : status'[j] # "none"
    BY <1>1 DEF BInv, EveryOpAnswered, TypeOK
  <2>2. ASSUME NEW j \in Ids, status'[j] # "none", ~closed'
        PROVE  sent'[j] = (IF status'[j] = "ok" THEN "ok" ELSE "error")
    <3>1. CASE j = i
      BY <1>1, <1>2, <1>3, <2>2, <3>1 DEF BInv, TypeOK
    <3>2. CASE j # i
      BY <1>1, <1>2, <2>2, <3>2 DEF BInv, EveryOpAnswered, TypeOK
    <3> QED BY <3>1, <3>2
  <2> QED BY <2>1, <2>2 DEF EveryOpAnswered
<1> QED BY <1>4, <1>6, <1>7, <1>8, <1>9, <1>10, <1>11 DEF BInv

LEMMA StartBInv == ASSUME BInv, NEW i \in Ids, Start(i) PROVE BInv'
<1>1. /\ pc[i] = "waiting" /\ Ready(i) /\ RefsOk(i)
      /\ pc' = [pc EXCEPT ![i] = "run"]
      /\ started' = started \cup {i}
      /\ UNCHANGED <<kind, deps, status, batchAborted, draining, sent, closed, settled>>
  BY DEF Start, Turn, envelope
<1>2. aborted' \in [Ids -> BOOLEAN]
  BY DEF Start, BInv, TypeOK
<1>3. TypeOK'
  BY <1>1, <1>2 DEF BInv, TypeOK
<1>4. Commands' = Commands /\ Commands \subseteq Ids
  BY <1>1 DEF Commands
<1>5. DoneInOrder' /\ EndedAnswered' /\ Bookkeeping'
  BY <1>1, <1>4 DEF BInv, DoneInOrder, EndedAnswered, Bookkeeping, TypeOK
<1>6. CommandsInOrder'
  <2> SUFFICES ASSUME NEW c \in Commands, NEW d \in Commands, c < d, d \in started' PROVE pc'[c] = "done"
    BY <1>4 DEF CommandsInOrder
  <2>1. pc[c] = "done"
    <3>1. CASE d = i
      BY <1>1, <3>1, GateIsAfterAll DEF Ready
    <3>2. CASE d # i
      BY <1>1, <3>2 DEF BInv, CommandsInOrder
    <3> QED BY <3>1, <3>2
  <2>2. c # i
    BY <1>1, <2>1
  <2> QED BY <1>1, <1>4, <2>1, <2>2 DEF BInv, TypeOK
<1>7. RefsHold'
  BY <1>1 DEF BInv, RefsHold, RefsOk
<1>8. EveryOpAnswered'
  BY <1>1 DEF BInv, EveryOpAnswered
<1> QED BY <1>3, <1>5, <1>6, <1>7, <1>8 DEF BInv

LEMMA PassBInv == ASSUME BInv, NEW i \in Ids, Pass(i) PROVE BInv'
<1>1. /\ pc[i] = "gate" /\ GateOpen(i)
      /\ pc' = [pc EXCEPT ![i] = "done"]
      /\ UNCHANGED <<kind, deps, status, started, aborted, batchAborted, draining, sent, closed, settled>>
  BY DEF Pass, envelope
<1>2. TypeOK'
  BY <1>1 DEF BInv, TypeOK
<1>3. Commands' = Commands /\ Commands \subseteq Ids
  BY <1>1 DEF Commands
<1>4. DoneInOrder'
  <2> SUFFICES ASSUME NEW b \in Commands, NEW c \in Commands, b < c, pc'[c] = "done" PROVE pc'[b] = "done"
    BY <1>3 DEF DoneInOrder
  <2>1. pc[b] = "done"
    <3>1. CASE c = i
      BY <1>1, <3>1, GateIsAfterAll
    <3>2. CASE c # i
      BY <1>1, <1>3, <3>2 DEF BInv, DoneInOrder, TypeOK
    <3> QED BY <3>1, <3>2
  <2> QED BY <1>1, <1>3, <2>1 DEF BInv, TypeOK
<1>5. EndedAnswered' /\ Bookkeeping'
  BY <1>1 DEF BInv, EndedAnswered, Bookkeeping, TypeOK
<1>6. CommandsInOrder'
  BY <1>1, <1>3 DEF BInv, CommandsInOrder, TypeOK
<1>7. RefsHold' /\ EveryOpAnswered'
  BY <1>1 DEF BInv, RefsHold, EveryOpAnswered
<1> QED BY <1>2, <1>4, <1>5, <1>6, <1>7 DEF BInv

\* Cancelling, draining and a reader that leaves touch no task and no status.
LEMMA SignalsBInv ==
  ASSUME BInv, aborted' \in [Ids -> BOOLEAN], {batchAborted, draining, closed}' \subseteq BOOLEAN,
         closed => closed',
         UNCHANGED <<envelope, pc, status, started, sent, settled>>
  PROVE  BInv'
<1>1. UNCHANGED <<kind, deps>>
  BY DEF envelope
<1>2. TypeOK'
  BY <1>1 DEF BInv, TypeOK
<1>3. Commands' = Commands
  BY <1>1 DEF Commands
<1>4. DoneInOrder' /\ EndedAnswered' /\ Bookkeeping'
  BY <1>3 DEF BInv, DoneInOrder, EndedAnswered, Bookkeeping
<1>5. CommandsInOrder' /\ RefsHold'
  BY <1>1, <1>3 DEF BInv, CommandsInOrder, RefsHold
<1>6. EveryOpAnswered'
  BY DEF BInv, EveryOpAnswered, TypeOK
<1> QED BY <1>2, <1>4, <1>5, <1>6 DEF BInv

LEMMA SettleBInv == ASSUME BInv, Settle PROVE BInv'
<1>1. /\ \A i \in Ids : pc[i] = "done"
      /\ settled' = TRUE /\ closed' = TRUE
      /\ UNCHANGED <<kind, deps, pc, status, started, aborted, batchAborted, draining, sent>>
  BY DEF Settle, envelope
<1>2. TypeOK'
  BY <1>1 DEF BInv, TypeOK
<1>3. Commands' = Commands
  BY <1>1 DEF Commands
<1>4. DoneInOrder' /\ EndedAnswered' /\ Bookkeeping' /\ CommandsInOrder' /\ RefsHold'
  BY <1>1, <1>3 DEF BInv, DoneInOrder, EndedAnswered, Bookkeeping, CommandsInOrder, RefsHold
<1>5. EveryOpAnswered'
  BY <1>1 DEF BInv, EndedAnswered, EveryOpAnswered
<1> QED BY <1>2, <1>4, <1>5 DEF BInv

LEMMA NextBInv == BInv /\ [Next]_vars => BInv'
<1> SUFFICES ASSUME BInv, [Next]_vars PROVE BInv'
  OBVIOUS
<1>1. ASSUME NEW i \in Ids, Refused(i) PROVE BInv'
  BY <1>1, EndRunBInv DEF Refused, Turn
<1>2. ASSUME NEW i \in Ids, Start(i) PROVE BInv'
  BY <1>2, StartBInv
<1>3. ASSUME NEW i \in Ids, RunEnds(i) PROVE BInv'
  BY <1>3, EndRunBInv DEF RunEnds
<1>4. ASSUME NEW i \in Ids, Pass(i) PROVE BInv'
  BY <1>4, PassBInv
<1>5. ASSUME NEW i \in Ids, AbortOp(i) PROVE BInv'
  BY <1>5, SignalsBInv DEF AbortOp, BInv, TypeOK
<1>6. CASE AbortBatch
  BY <1>6, SignalsBInv DEF AbortBatch, BInv, TypeOK
<1>7. CASE Drain
  BY <1>7, SignalsBInv DEF Drain, BInv, TypeOK
<1>8. CASE ReaderGone
  BY <1>8, SignalsBInv DEF ReaderGone, BInv, TypeOK
<1>9. CASE Settle
  BY <1>9, SettleBInv
<1>10. CASE UNCHANGED vars
  BY <1>10, SignalsBInv DEF vars, BInv, TypeOK
<1> QED BY <1>1, <1>2, <1>3, <1>4, <1>5, <1>6, <1>7, <1>8, <1>9, <1>10 DEF Next

LEMMA AlwaysBInv == Spec => []BInv
<1> QED BY InitBInv, NextBInv, PTL DEF Spec

-----------------------------------------------------------------------------

\* Every op's task, status and frames stay in their domains (runBatch).
THEOREM BatchTypeCorrect == Spec => []TypeOK
<1>1. BInv => TypeOK
  BY DEF BInv
<1> QED BY <1>1, AlwaysBInv, PTL

\* Commands of a batch run one at a time in ascending id order, for any number
\* of ops, references, failures and cancellations (prevCommand in runBatch).
THEOREM CommandsRunInOrder == Spec => []CommandsInOrder
<1>1. BInv => CommandsInOrder
  BY DEF BInv
<1> QED BY <1>1, AlwaysBInv, PTL

\* An op runs only when everything it refers to has succeeded (runOp's check of
\* `status`).
THEOREM ReferencesHold == Spec => []RefsHold
<1>1. BInv => RefsHold
  BY DEF BInv
<1> QED BY <1>1, AlwaysBInv, PTL

\* Whoever keeps reading a batch is told how each op ended, as `status` has it,
\* before the frames end (FrameSink, fail).
THEOREM EveryOpIsAnswered == Spec => []EveryOpAnswered
<1>1. BInv => EveryOpAnswered
  BY DEF BInv
<1> QED BY <1>1, AlwaysBInv, PTL

\* The schedule as a whole, for every envelope: commands one by one in their
\* order, nothing on a result that is not there, every op answered once.
THEOREM BatchKeepsSchedule == Spec => []ScheduleKept
<1>1. BInv => ScheduleKept
  BY DEF BInv, ScheduleKept
<1> QED BY <1>1, AlwaysBInv, PTL

-----------------------------------------------------------------------------
(* The Kotlin runtime's schedule.  A batch that is cut off ends its ops in    *)
(* any order; then none of them is let into its run any more.                *)

KtStartedOnResults ==
  /\ \A i \in kbStarted : kbPc[i] # "waiting" /\ \A d \in kbDeps[i] : kbPc[d] = "done" /\ kbStatus[d] = "ok"
  /\ \A i \in KbIds : kbPc[i] = "run" => i \in kbStarted

KtDoneInOrder ==
  ~kbBatchAborted => \A b, c \in KbCommands : (b < c /\ kbPc[c] = "done") => kbPc[b] = "done"

KtAllStopped == kbBatchAborted => \A i \in KbIds : kbPc[i] # "done" => kbAborted[i]

KtFrames ==
  /\ \A i \in KbIds : kbPc[i] = "waiting" => kbSent[i] = "none"
  /\ \A i \in KbIds : kbPc[i] = "run" =>
       kbSent[i] = "none" \/ ((i \in KbCommands \/ kbKind[i] = "stream") /\ kbSent[i] = "ok")
  /\ \A i \in KbIds : (kbStatus[i] = "ok" => kbSent[i] = "ok") /\ (kbStatus[i] # "none" => kbSent[i] # "none")
  /\ kbSettled => \A i \in KbIds : kbSent[i] # "none"

\* The ops that may be told of an error after their last frame, and what those are
\* that were: over, and failed.
KtMayHearTwice(i) == (kbKind[i] = "stream" /\ kbDraining) \/ (i \in KbCommands /\ KbRenewalsThrow)
KtToldTwice ==
  \A i \in kbTwice :
    i \in KbIds /\ kbPc[i] \in {"gate", "done"} /\ kbStatus[i] = "failed" /\ kbSent[i] = "ok" /\ KtMayHearTwice(i)

\* The inductive invariant.
KtInv ==
  /\ Schedule!TypeOK /\ Schedule!CommandsInOrder
  /\ KtStartedOnResults /\ KtDoneInOrder /\ KtAllStopped /\ KtFrames /\ KtToldTwice

LEMMA KtTypes ==
  ASSUME KtInv
  PROVE  /\ kbKind \in [KbIds -> KbKinds] /\ kbDeps \in [KbIds -> SUBSET KbIds]
         /\ kbPc \in [KbIds -> {"waiting", "run", "gate", "done"}]
         /\ kbStatus \in [KbIds -> {"none", "ok", "failed"}]
         /\ kbStarted \subseteq KbIds /\ kbAborted \in [KbIds -> BOOLEAN]
         /\ kbSent \in [KbIds -> {"none", "ok", "error"}]
         /\ KbIds \subseteq Nat /\ KbCommands \subseteq KbIds
BY KbAssumption DEF KtInv, Schedule!TypeOK, KbCommands, Schedule!Commands

LEMMA KtGateIsAfterAll ==
  ASSUME KtInv, ~kbBatchAborted, NEW i \in KbCommands, Schedule!GateOpen(i), NEW b \in KbCommands, b < i
  PROVE  kbPc[b] = "done"
<1> DEFINE Below == {c \in KbCommands : c < i}
<1>1. KbIds \in SUBSET Nat /\ IsFiniteSet(KbIds) /\ KbCommands \subseteq KbIds
  BY KbAssumption DEF KbCommands, Schedule!Commands
<1>2. Below \in SUBSET Nat /\ Below \subseteq KbIds /\ b \in Below
  BY <1>1
<1>3. IsFiniteSet(Below)
  BY <1>1, <1>2, FS_Subset
<1>4. PICK c \in Below : \A y \in Below : y <= c
  <2> HIDE DEF Below
  <2> QED BY <1>2, <1>3, LastId
<1>5. kbPc[c] = "done"
  BY <1>4 DEF Schedule!GateOpen, KbCommands
<1>6. b \in Nat /\ c \in Nat /\ b <= c
  BY <1>1, <1>2, <1>4
<1>7. CASE b = c
  BY <1>5, <1>7
<1>8. CASE b < c
  BY <1>5, <1>8, <1>4 DEF KtInv, KtDoneInOrder
<1> QED BY <1>6, <1>7, <1>8

LEMMA KtInitInv == KtBatchInit => KtInv
<1> SUFFICES ASSUME KtBatchInit PROVE KtInv
  OBVIOUS
<1>1. Schedule!Init
  BY DEF KtBatchInit
<1>2. Schedule!TypeOK
  BY <1>1, KbAssumption DEF Schedule!Init, Schedule!TypeOK, Schedule!Reference
<1>3. Schedule!CommandsInOrder
  BY <1>1 DEF Schedule!Init, Schedule!CommandsInOrder
<1>4. KtStartedOnResults /\ KtDoneInOrder /\ KtAllStopped /\ KtFrames
  BY <1>1 DEF Schedule!Init, KtStartedOnResults, KtDoneInOrder, KtAllStopped, KtFrames, KbCommands, Schedule!Commands
<1>5. KtToldTwice
  BY DEF KtBatchInit, KtToldTwice
<1> QED BY <1>2, <1>3, <1>4, <1>5 DEF KtInv

\* One op goes on from where it was not done; the frames and statuses of the
\* others stay.
LEMMA KtOneOp ==
  ASSUME KtInv, NEW i \in KbIds, kbPc[i] # "done",
         NEW l \in {"run", "gate", "done"}, kbPc' = [kbPc EXCEPT ![i] = l],
         NEW s \in {"none", "ok", "failed"}, kbStatus' = [kbStatus EXCEPT ![i] = s],
         NEW f \in {"none", "ok", "error"}, kbSent' = [kbSent EXCEPT ![i] = f],
         kbSent[i] # "none" => f = kbSent[i],
         l = "run" =>
           /\ kbStarted' = kbStarted \cup {i} /\ ~kbBatchAborted /\ Schedule!GateOpen(i)
           /\ f = "none" /\ \A d \in kbDeps[i] : kbPc[d] = "done" /\ kbStatus[d] = "ok",
         l # "run" => kbStarted' = kbStarted,
         l = "done" /\ ~kbBatchAborted /\ i \in KbCommands => i \in kbStarted \/ Schedule!GateOpen(i),
         (s = "ok" => f = "ok") /\ (s # "none" => f # "none"),
         i \in kbTwice => s = "failed" /\ l # "run",
         kbTwice' = kbTwice \/ (kbTwice' = kbTwice \cup {i} /\ s = "failed" /\ f = "ok" /\ l # "run" /\ KtMayHearTwice(i)),
         UNCHANGED <<kbKind, kbDeps, kbAborted, kbBatchAborted, kbDraining, kbClosed, kbSettled>>
  PROVE  KtInv'
<1>1. /\ kbPc \in [KbIds -> {"waiting", "run", "gate", "done"}] /\ kbDeps \in [KbIds -> SUBSET KbIds]
      /\ kbStatus \in [KbIds -> {"none", "ok", "failed"}] /\ kbSent \in [KbIds -> {"none", "ok", "error"}]
      /\ KbIds \subseteq Nat /\ KbCommands \subseteq KbIds /\ kbStarted \subseteq KbIds
  BY KtTypes
<1>2. /\ kbPc'[i] = l /\ kbStatus'[i] = s /\ kbSent'[i] = f
      /\ \A j \in KbIds : j # i => kbPc'[j] = kbPc[j] /\ kbStatus'[j] = kbStatus[j] /\ kbSent'[j] = kbSent[j]
  BY <1>1
<1>3. KbCommands' = KbCommands /\ Schedule!Commands' = Schedule!Commands
  BY DEF KbCommands, Schedule!Commands
<1>4. kbStarted' \subseteq KbIds /\ \A j \in kbStarted' : j \in kbStarted \/ (j = i /\ l = "run")
  BY <1>1
<1>5. Schedule!TypeOK'
  BY <1>1, <1>4 DEF KtInv, Schedule!TypeOK
<1>6. ASSUME NEW d \in KbIds, kbPc[d] = "done" PROVE kbPc'[d] = "done" /\ kbStatus'[d] = kbStatus[d]
  BY <1>2, <1>6
<1>7. KtStartedOnResults'
  <2>1. ASSUME NEW j \in kbStarted' PROVE kbPc'[j] # "waiting"
    BY <1>1, <1>2, <1>4 DEF KtInv, KtStartedOnResults
  <2>2. ASSUME NEW j \in kbStarted', NEW d \in kbDeps[j] PROVE kbPc'[d] = "done" /\ kbStatus'[d] = "ok"
    <3>1. d \in KbIds
      BY <1>1, <1>4
    <3>2. kbPc[d] = "done" /\ kbStatus[d] = "ok"
      BY <1>4 DEF KtInv, KtStartedOnResults
    <3> QED BY <3>1, <3>2, <1>6
  <2>3. ASSUME NEW j \in KbIds, kbPc'[j] = "run" PROVE j \in kbStarted'
    BY <1>2, <2>3 DEF KtInv, KtStartedOnResults
  <2> QED BY <2>1, <2>2, <2>3 DEF KtStartedOnResults
<1>8. Schedule!CommandsInOrder'
  <2> SUFFICES ASSUME NEW c \in KbCommands, NEW d \in KbCommands, c < d, d \in kbStarted' PROVE kbPc'[c] = "done"
    BY <1>3 DEF Schedule!CommandsInOrder, KbCommands
  <2>1. kbPc[c] = "done"
    <3>1. CASE d \in kbStarted
      BY <3>1 DEF KtInv, Schedule!CommandsInOrder, KbCommands
    <3>2. CASE d = i /\ l = "run"
      BY <3>2, KtGateIsAfterAll
    <3> QED BY <3>1, <3>2, <1>4
  <2> QED BY <2>1, <1>1, <1>6
<1>9. KtDoneInOrder'
  <2> SUFFICES ASSUME ~kbBatchAborted, NEW b \in KbCommands, NEW c \in KbCommands, b < c, kbPc'[c] = "done"
               PROVE  kbPc'[b] = "done"
    BY <1>3 DEF KtDoneInOrder
  <2>1. kbPc[b] = "done"
    <3>1. CASE c # i
      BY <3>1, <1>1, <1>2 DEF KtInv, KtDoneInOrder
    <3>2. CASE c = i
      <4>1. i \in kbStarted \/ Schedule!GateOpen(i)
        BY <1>2, <3>2
      <4>2. CASE i \in kbStarted
        BY <3>2, <4>2 DEF KtInv, Schedule!CommandsInOrder, KbCommands
      <4>3. CASE Schedule!GateOpen(i)
        BY <3>2, <4>3, KtGateIsAfterAll
      <4> QED BY <4>1, <4>2, <4>3
    <3> QED BY <3>1, <3>2
  <2> QED BY <2>1, <1>1, <1>6
<1>10. KtAllStopped'
  BY <1>2 DEF KtInv, KtAllStopped
<1>11. KtFrames'
  <2>1. ASSUME NEW j \in KbIds PROVE kbPc'[j] = "waiting" => kbSent'[j] = "none"
    BY <1>2 DEF KtInv, KtFrames
  <2>2. ASSUME NEW j \in KbIds PROVE kbPc'[j] = "run" =>
                   kbSent'[j] = "none" \/ ((j \in KbCommands' \/ kbKind'[j] = "stream") /\ kbSent'[j] = "ok")
    BY <1>2, <1>3 DEF KtInv, KtFrames
  <2>3. ASSUME NEW j \in KbIds
        PROVE  (kbStatus'[j] = "ok" => kbSent'[j] = "ok") /\ (kbStatus'[j] # "none" => kbSent'[j] # "none")
    BY <1>2 DEF KtInv, KtFrames
  <2>4. ASSUME kbSettled', NEW j \in KbIds PROVE kbSent'[j] # "none"
    BY <1>2, <2>4 DEF KtInv, KtFrames
  <2> QED BY <2>1, <2>2, <2>3, <2>4 DEF KtFrames
<1>12. KtToldTwice'
  <2> SUFFICES ASSUME NEW j \in kbTwice'
               PROVE  /\ j \in KbIds /\ kbPc'[j] \in {"gate", "done"} /\ kbStatus'[j] = "failed" /\ kbSent'[j] = "ok"
                      /\ KtMayHearTwice(j)'
    BY DEF KtToldTwice
  <2>1. CASE j \in kbTwice
    BY <2>1, <1>2, <1>3 DEF KtInv, KtToldTwice, KtMayHearTwice
  <2>2. CASE j = i /\ j \notin kbTwice
    BY <2>2, <1>2, <1>3 DEF KtMayHearTwice
  <2> QED BY <2>1, <2>2
<1> QED BY <1>5, <1>7, <1>8, <1>9, <1>10, <1>11, <1>12 DEF KtInv

\* What stops a batch or an op sets flags alone.
LEMMA KtSignals ==
  ASSUME KtInv, kbAborted' \in [KbIds -> BOOLEAN],
         kbBatchAborted' \in BOOLEAN, kbDraining' \in BOOLEAN, kbClosed' \in BOOLEAN,
         kbBatchAborted => kbBatchAborted', kbDraining => kbDraining',
         \A i \in KbIds : kbAborted[i] => kbAborted'[i],
         kbBatchAborted' => kbBatchAborted \/ \A i \in KbIds : kbPc[i] # "done" => kbAborted'[i],
         UNCHANGED <<kbKind, kbDeps, kbPc, kbStatus, kbStarted, kbSent, kbTwice, kbSettled>>
  PROVE  KtInv'
<1>1. KbCommands' = KbCommands /\ Schedule!Commands' = Schedule!Commands
  BY DEF KbCommands, Schedule!Commands
<1>2. Schedule!TypeOK'
  BY DEF KtInv, Schedule!TypeOK
<1>3. Schedule!CommandsInOrder' /\ KtStartedOnResults'
  BY <1>1 DEF KtInv, Schedule!CommandsInOrder, KtStartedOnResults
<1>4. KtDoneInOrder' /\ KtAllStopped' /\ KtFrames'
  BY <1>1 DEF KtInv, KtDoneInOrder, KtAllStopped, KtFrames
<1>5. KtToldTwice'
  BY <1>1 DEF KtInv, KtToldTwice, KtMayHearTwice
<1> QED BY <1>2, <1>3, <1>4, <1>5 DEF KtInv

LEMMA KtNextInv == KtInv /\ [KtBatchNext]_kbVars => KtInv'
<1> SUFFICES ASSUME KtInv, [KtBatchNext]_kbVars PROVE KtInv'
  OBVIOUS
<1>0. /\ kbPc \in [KbIds -> {"waiting", "run", "gate", "done"}]
      /\ kbStatus \in [KbIds -> {"none", "ok", "failed"}]
      /\ kbSent \in [KbIds -> {"none", "ok", "error"}] /\ kbAborted \in [KbIds -> BOOLEAN]
      /\ kbStarted \subseteq KbIds
      /\ \A i \in KbIds : kbSent = [kbSent EXCEPT ![i] = kbSent[i]] /\ kbStatus = [kbStatus EXCEPT ![i] = kbStatus[i]]
  BY KtTypes
<1>1. ASSUME NEW i \in KbIds, kbPc[i] \in {"waiting", "run"}, KtGoes(i, "gate") \/ KtGoes(i, "done"), KtShared,
             KtGoes(i, "done") => i \in kbStarted \/ Schedule!GateOpen(i),
             UNCHANGED <<kbStarted, kbAborted>>,
             (KtFails(i) /\ (kbSent[i] = "none" \/ KtMayHearTwice(i))) \/ KtStopped(i)
      PROVE  KtInv'
  <2> DEFINE f == IF kbSent[i] = "none" THEN "error" ELSE kbSent[i]
  <2>1. /\ f \in {"none", "ok", "error"} /\ f # "none" /\ (kbSent[i] # "none" => f = "ok" /\ f = kbSent[i])
        /\ i \notin kbTwice
    BY <1>0, <1>1 DEF KtInv, KtFrames, KtToldTwice
  <2>2. kbSent' = [kbSent EXCEPT ![i] = f] /\ kbStatus' = [kbStatus EXCEPT ![i] = "failed"]
    BY <1>0, <1>1 DEF KtFails, KtStopped, KtPushUnlessEnded, KtPush, kbFrames
  <2>3. kbTwice' = kbTwice \/ (kbTwice' = kbTwice \cup {i} /\ f = "ok" /\ KtMayHearTwice(i))
    BY <1>0, <1>1, <2>1 DEF KtFails, KtStopped, KtPushUnlessEnded, KtPush, kbFrames
  <2> HIDE DEF f
  <2>4. UNCHANGED <<kbKind, kbDeps, kbStarted, kbAborted, kbBatchAborted, kbDraining, kbClosed, kbSettled>>
    BY <1>1 DEF KtShared
  <2>5. PICK l \in {"gate", "done"} : kbPc' = [kbPc EXCEPT ![i] = l] /\ (l = "done" => i \in kbStarted \/ Schedule!GateOpen(i))
    BY <1>1 DEF KtGoes
  <2> QED BY <1>1, <2>1, <2>2, <2>3, <2>4, <2>5, KtOneOp
<1>2. ASSUME NEW i \in KbIds, KtRefused(i) PROVE KtInv'
  BY <1>1, <1>2 DEF KtRefused, KtTurn, Schedule!Ready, KtInv, KtFrames
<1>3. ASSUME NEW i \in KbIds, KtStart(i) PROVE KtInv'
  <2>1. /\ kbPc[i] = "waiting" /\ ~kbAborted[i] /\ Schedule!GateOpen(i)
        /\ \A d \in kbDeps[i] : kbPc[d] = "done" /\ kbStatus[d] = "ok"
        /\ kbPc' = [kbPc EXCEPT ![i] = "run"] /\ kbStarted' = kbStarted \cup {i}
        /\ UNCHANGED <<kbKind, kbDeps, kbStatus, kbAborted, kbSent, kbTwice, kbBatchAborted, kbDraining, kbClosed, kbSettled>>
    BY <1>3 DEF KtStart, KtTurn, KtGoes, KtShared, kbFrames, Schedule!Ready, Schedule!RefsOk
  <2>2. ~kbBatchAborted /\ kbSent[i] = "none" /\ kbStatus[i] = "none" /\ i \notin kbTwice
    BY <1>0, <2>1 DEF KtInv, KtAllStopped, KtFrames, KtToldTwice
  <2> QED BY <1>0, <2>1, <2>2, KtOneOp
<1>4. ASSUME NEW i \in KbIds, KtAnswers(i) PROVE KtInv'
  <2>1. /\ kbPc[i] = "run" /\ (i \in KbCommands \/ kbKind[i] = "stream")
        /\ kbSent[i] = "none" /\ kbSent' = [kbSent EXCEPT ![i] = "ok"]
        /\ UNCHANGED <<kbKind, kbDeps, kbPc, kbStatus, kbStarted, kbAborted, kbTwice, kbBatchAborted, kbDraining, kbClosed, kbSettled>>
    BY <1>4 DEF KtAnswers, KtPush, KtShared
  <2>2. kbStatus[i] = "none" /\ i \notin kbTwice
    BY <1>0, <2>1 DEF KtInv, KtFrames, KtToldTwice
  <2>3. KbCommands' = KbCommands /\ Schedule!Commands' = Schedule!Commands
    BY <2>1 DEF KbCommands, Schedule!Commands
  <2>4. /\ Schedule!TypeOK' /\ Schedule!CommandsInOrder' /\ KtStartedOnResults'
        /\ KtDoneInOrder' /\ KtAllStopped'
    BY <2>1, <2>3 DEF KtInv, Schedule!TypeOK, Schedule!CommandsInOrder, KtStartedOnResults, KtDoneInOrder, KtAllStopped
  <2>5. \A j \in KbIds : kbSent'[j] = (IF j = i THEN "ok" ELSE kbSent[j])
    BY <1>0, <2>1
  <2>6. KtFrames'
    BY <2>1, <2>2, <2>3, <2>5 DEF KtInv, KtFrames
  <2>7. KtToldTwice'
    BY <2>1, <2>2, <2>3, <2>5 DEF KtInv, KtToldTwice, KtMayHearTwice
  <2> QED BY <2>4, <2>6, <2>7 DEF KtInv
<1>5. ASSUME NEW i \in KbIds, KtRunEnds(i) PROVE KtInv'
  <2> DEFINE l == IF kbAborted[i] THEN "gate" ELSE "done"
             s == IF kbAborted[i] THEN "failed" ELSE "ok"
  <2>1. /\ kbPc[i] = "run" /\ KtGoes(i, l) /\ KtShared /\ UNCHANGED <<kbStarted, kbAborted>>
        /\ l \in {"gate", "done"} /\ s \in {"failed", "ok"} /\ i \in kbStarted /\ i \notin kbTwice
    BY <1>5 DEF KtRunEnds, KtInv, KtStartedOnResults, KtToldTwice
  <2>2. CASE KtMayFail(i) /\ KtFails(i)
    <3>1. kbSent[i] = "none" \/ KtMayHearTwice(i)
      BY <2>2 DEF KtMayFail, KtMayHearTwice
    <3>2. KtGoes(i, "gate") \/ KtGoes(i, "done")
      BY <2>1
    <3> HIDE DEF l, s
    <3> QED BY <1>1, <2>1, <2>2, <3>1, <3>2
  <2>3. CASE /\ kbSent[i] \in {"none", "ok"} /\ KtPushUnlessEnded(i, "ok")
             /\ kbStatus' = [kbStatus EXCEPT ![i] = s]
    <3>1. kbSent' = [kbSent EXCEPT ![i] = "ok"] /\ kbTwice' = kbTwice
      BY <1>0, <2>3 DEF KtPushUnlessEnded, KtPush, kbFrames
    <3>2. kbPc' = [kbPc EXCEPT ![i] = l]
          /\ UNCHANGED <<kbKind, kbDeps, kbStarted, kbAborted, kbBatchAborted, kbDraining, kbClosed, kbSettled>>
      BY <2>1 DEF KtGoes, KtShared
    <3> HIDE DEF l, s
    <3> QED BY <2>1, <2>3, <3>1, <3>2, KtOneOp
  <2> QED BY <1>5, <2>2, <2>3 DEF KtRunEnds
<1>6. ASSUME NEW i \in KbIds, KtStops(i) PROVE KtInv'
  <2>1. kbPc[i] \in {"waiting", "run"} /\ KtStopped(i) /\ kbPc' = [kbPc EXCEPT ![i] = "gate"]
        /\ UNCHANGED <<kbKind, kbDeps, kbStarted, kbAborted, kbBatchAborted, kbDraining, kbClosed, kbSettled>>
    BY <1>6 DEF KtStops, KtGoes, KtShared
  <2>2. ~KtGoes(i, "done")
    BY <1>0, <2>1 DEF KtGoes
  <2> QED BY <1>1, <1>6, <2>2 DEF KtStops
<1>7. ASSUME NEW i \in KbIds, KtPass(i) PROVE KtInv'
  <2>1. /\ kbPc[i] = "gate" /\ Schedule!GateOpen(i) /\ kbPc' = [kbPc EXCEPT ![i] = "done"]
        /\ UNCHANGED <<kbKind, kbDeps, kbStatus, kbStarted, kbAborted, kbSent, kbTwice, kbBatchAborted, kbDraining, kbClosed, kbSettled>>
    BY <1>7 DEF KtPass, KtGoes, KtShared, kbFrames
  <2>2. /\ kbStatus[i] \in {"none", "ok", "failed"} /\ kbSent[i] \in {"none", "ok", "error"}
        /\ (kbStatus[i] = "ok" => kbSent[i] = "ok") /\ (kbStatus[i] # "none" => kbSent[i] # "none")
        /\ (i \in kbTwice => kbStatus[i] = "failed")
    BY <1>0 DEF KtInv, KtFrames, KtToldTwice
  <2> QED BY <1>0, <2>1, <2>2, KtOneOp
<1>8. ASSUME NEW i \in KbIds, KtCut(i) PROVE KtInv'
  <2>1. /\ kbPc[i] # "done" /\ kbBatchAborted /\ kbPc' = [kbPc EXCEPT ![i] = "done"]
        /\ UNCHANGED <<kbKind, kbDeps, kbStatus, kbStarted, kbAborted, kbSent, kbTwice, kbBatchAborted, kbDraining, kbClosed, kbSettled>>
    BY <1>8 DEF KtCut, KtGoes, KtShared, kbFrames
  <2>2. /\ kbStatus[i] \in {"none", "ok", "failed"} /\ kbSent[i] \in {"none", "ok", "error"}
        /\ (kbStatus[i] = "ok" => kbSent[i] = "ok") /\ (kbStatus[i] # "none" => kbSent[i] # "none")
        /\ (i \in kbTwice => kbStatus[i] = "failed")
    BY <1>0 DEF KtInv, KtFrames, KtToldTwice
  <2> QED BY <1>0, <2>1, <2>2, KtOneOp
<1>9. ASSUME NEW i \in KbIds, Schedule!AbortOp(i), UNCHANGED kbTwice PROVE KtInv'
  BY <1>0, <1>9, KtSignals DEF Schedule!AbortOp, Schedule!envelope, KtInv, Schedule!TypeOK
<1>10. CASE Schedule!AbortBatch /\ UNCHANGED kbTwice
  BY <1>0, <1>10, KtSignals DEF Schedule!AbortBatch, Schedule!envelope, KtInv, Schedule!TypeOK
<1>11. CASE KtDrain
  BY <1>0, <1>11, KtSignals DEF KtDrain, kbFrames, KtInv, Schedule!TypeOK
<1>12. CASE KtReaderGone
  BY <1>0, <1>12, KtSignals DEF KtReaderGone, kbFrames, KtInv, Schedule!TypeOK
<1>13. CASE KtSettle
  <2>1. /\ \A i \in KbIds : kbPc[i] = "done"
        /\ kbSettled' = TRUE /\ kbSent' = [i \in KbIds |-> IF kbSent[i] = "none" THEN "error" ELSE kbSent[i]]
        /\ UNCHANGED <<kbKind, kbDeps, kbPc, kbStatus, kbStarted, kbAborted, kbBatchAborted, kbDraining, kbTwice, kbClosed>>
    BY <1>13 DEF KtSettle
  <2>2. KbCommands' = KbCommands /\ Schedule!Commands' = Schedule!Commands
    BY <2>1 DEF KbCommands, Schedule!Commands
  <2>3. kbSent' \in [KbIds -> {"ok", "error"}] /\ \A i \in KbIds : kbSent[i] # "none" => kbSent'[i] = kbSent[i]
    BY <1>0, <2>1
  <2>4. Schedule!TypeOK'
    BY <2>1, <2>3 DEF KtInv, Schedule!TypeOK
  <2>5. Schedule!CommandsInOrder' /\ KtStartedOnResults' /\ KtDoneInOrder' /\ KtAllStopped'
    BY <2>1, <2>2 DEF KtInv, Schedule!CommandsInOrder, KtStartedOnResults, KtDoneInOrder, KtAllStopped
  <2>6. \A i \in KbIds : kbSent'[i] # "none"
    BY <2>3
  <2>7. KtFrames'
    BY <2>1, <2>3, <2>6 DEF KtInv, KtFrames
  <2>8. KtToldTwice'
    BY <2>1, <2>2, <2>3 DEF KtInv, KtToldTwice, KtMayHearTwice
  <2> QED BY <2>4, <2>5, <2>7, <2>8 DEF KtInv
<1>14. CASE UNCHANGED kbVars
  BY <1>0, <1>14, KtSignals DEF kbVars, kbFrames, KtInv, Schedule!TypeOK
<1> QED BY <1>2, <1>3, <1>4, <1>5, <1>6, <1>7, <1>8, <1>9, <1>10, <1>11, <1>12, <1>13, <1>14 DEF KtBatchNext, KtAborts

\* The Kotlin runtime keeps the same schedule for every envelope, whoever is
\* stopped, cut off or drained: commands one by one in their order and never side
\* by side, nothing on a result that is not there, every op answered as its
\* dependents were told, and none told of an error after its last frame but the
\* stream that ends as the server drains and the command whose key could not be
\* renewed (Batch.kt: runBatch, untilCancelled, untilDrained, runOp).
THEOREM KotlinKeepsSchedule == KtBatchSpec => []KtScheduleKept
<1>1. KtInv => KtScheduleKept
  <2> SUFFICES ASSUME KtInv PROVE KtScheduleKept
    OBVIOUS
  <2>1. KtEveryOpAnswered
    BY DEF KtInv, KtFrames, KtToldTwice, KtMayHearTwice, KtEveryOpAnswered
  <2>2. KtKeepsSchedule
    BY DEF KtInv, KtStartedOnResults, KtKeepsSchedule, Schedule!RefsHold
  <2>3. KtCommandsAlone
    <3> SUFFICES ASSUME NEW c \in KbCommands, NEW d \in KbCommands, c # d, kbPc[c] = "run", kbPc[d] = "run" PROVE FALSE
      BY DEF KtCommandsAlone
    <3>1. c \in Nat /\ d \in Nat /\ c \in KbIds /\ d \in KbIds
      BY KtTypes
    <3>2. c \in kbStarted /\ d \in kbStarted
      BY <3>1 DEF KtInv, KtStartedOnResults
    <3>3. c < d \/ d < c
      BY <3>1
    <3> QED BY <3>2, <3>3 DEF KtInv, Schedule!CommandsInOrder, KbCommands
  <2> QED BY <2>1, <2>2, <2>3 DEF KtScheduleKept
<1> QED BY <1>1, KtInitInv, KtNextInv, PTL DEF KtBatchSpec
=============================================================================
