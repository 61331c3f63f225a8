------------------------------- MODULE MCOps --------------------------------
(* The ops of a batch, one part at a time: their schedule, in either runtime; *)
(* the loads they share; a stream; a live query.  The live query has two      *)
(* items and three commits: enough to point the root at another item during a *)
(* run, to change that item after it was read, and to disturb the next run    *)
(* again.  Three ops refer to one another in any valid way: three is the      *)
(* least number at which a cancelled command stands between two others.       *)
EXTENDS Batch, Executor, LiveQuery, KtBatch, TLC

CONSTANTS Parts, k1, k2, k3, i1, i2

VARIABLE part

Op(n, what, after, levels) == [name |-> n, kind |-> what, after |-> after, levels |-> levels, partial |-> FALSE]
Partly(o) == [o EXCEPT !.partial = TRUE]

\* A query of two levels beside a command, a dry run and a partial query after
\* the command; one of them asks for the same entity twice.
MCOpsDef == {Op(1, "query", {}, <<<<k1, k3>>, <<k2>>>>), Op(2, "command", {}, <<<<k1>>>>),
             Partly(Op(3, "query", {2}, <<<<k2, k1, k1>>>>)), Op(4, "dryrun", {1, 2}, <<<<k1>>>>)}

MCIds == 1..3
ThreeCommands == <<"command", "command", "command">>
Envelopes == {ThreeCommands, <<"stream", "live", "command">>}

all == <<part, vars, loadVars, streamVars, liveVars, kbVars>>
Only(p) == part = p /\ UNCHANGED part
BatchPart(A) == Only("batch") /\ A /\ UNCHANGED <<loadVars, streamVars, liveVars, kbVars>>
LoadsPart(A) == Only("loads") /\ A /\ UNCHANGED <<vars, streamVars, liveVars, kbVars>>
StreamPart(A) == Only("stream") /\ A /\ UNCHANGED <<vars, loadVars, liveVars, kbVars>>
LivePart(A) == Only("live") /\ A /\ UNCHANGED <<vars, loadVars, streamVars, kbVars>>
KotlinPart(A) == Only("kotlin") /\ A /\ UNCHANGED <<vars, loadVars, streamVars, liveVars>>

\* The envelope of a part that is not run stands still.
NoEnvelope(k, d) == k = ThreeCommands /\ d = [i \in MCIds |-> {}]

MCInit ==
  /\ part \in Parts /\ LoadsInit /\ StreamInit /\ LiveInit
  /\ (part # "live" => shown = i1)
  /\ Init /\ IF part = "batch" THEN kind \in Envelopes ELSE NoEnvelope(kind, deps)
  /\ KtBatchInit /\ IF part = "kotlin" THEN kbKind \in Envelopes ELSE NoEnvelope(kbKind, kbDeps)
MCNext ==
  \/ BatchPart(Next) \/ LoadsPart(LoadsNext) \/ StreamPart(StreamNext) \/ LivePart(LiveNext)
  \/ KotlinPart(KtBatchNext)
MCSpec ==
  /\ MCInit /\ [][MCNext]_all
  /\ \A i \in Ids : WF_all(BatchPart(Refused(i) \/ Start(i))) /\ WF_all(BatchPart(Pass(i)))
  /\ WF_all(BatchPart(Settle))
  /\ \A o \in Ops : WF_all(LoadsPart(OpStep(o)))
  /\ WF_all(StreamPart(StreamStep))
  /\ WF_all(LivePart(RunStep))
  /\ \A k \in Rows : WF_all(LivePart(Deliver(k)))
  /\ \A i \in KbIds : WF_all(KotlinPart(KtScheduled(i)))
  /\ WF_all(KotlinPart(KtSettle))

\* The part that is run is run for good.
Runs(p) == []<>(part = p)

\* A batch that is drained or cancelled comes to its end, and its short ops do.
BatchEnds == Runs("batch") => StoppedBatchEnds

\* What must come about in the other parts: ops end though loads fail, a stopped
\* stream ends though its resolver hangs, a stopped schedule settles, and a live
\* screen catches up with the commits.
OpsEnd ==
  /\ Runs("loads") => EveryOpEnds
  /\ Runs("kotlin") => KtStoppedBatchEnds
  /\ Runs("live") => ScreenCatchesUp
  /\ StoppedStreamEnds
=============================================================================
