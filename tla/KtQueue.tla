------------------------------- MODULE KtQueue -------------------------------
(***************************************************************************)
(* The offline queue of the Kotlin client: OfflineQueue.kt and the path of *)
(* RayfoldClient.command into it.  Callers are coroutines on any thread: a *)
(* command is numbered, then finds the queue empty or not, and each goes   *)
(* on between two steps of the other.  The entries and their file change   *)
(* together under a lock; a mutex lets one drain run.                      *)
(***************************************************************************)
EXTENDS Delivery

CONSTANTS
  MaxCalls,     \* callers inside command() at once
  MaxRestarts, MaxCancels

ASSUME KtQueueAssumption == {N, MaxCalls, MaxOutages, MaxRestarts, MaxCancels} \subseteq Nat

VARIABLES
  kqNext,       \* commands made so far
  kqState,      \* of each: "new", "made", "adding", "direct", "waiting", "settled" or "gone"
  kqEntries,    \* the queue, and what its file holds
  kqDrain,      \* who holds the drain's mutex: "none", or where its holder stands
  kqHead,       \* the entry it is sending
  kqAsked,      \* drains that wait for the mutex
  kqLayers,     \* the cache's optimistic layers
  restarts, cancels,
  kqBeside      \* history: the commands on their own way when a command chose its

kqCalls == <<kqNext, kqState, kqBeside>>
kqQueue == <<kqEntries, kqDrain, kqHead, kqAsked, kqLayers>>
faults  == <<restarts, cancels>>
kqVars  == <<kqCalls, kqQueue, faults, att, network>>

KqInit ==
  /\ DeliveryInit
  /\ kqNext = 0 /\ kqState = [c \in Command |-> "new"] /\ kqEntries = <<>>
  /\ kqDrain = "none" /\ kqHead = 0 /\ kqAsked = 0 /\ kqLayers = {}
  /\ restarts = 0 /\ cancels = 0
  /\ kqBeside = [c \in Command |-> {}]

OnTheirWay == {c \in Command : kqState[c] \in {"made", "adding", "direct"}}
Goes(c, s) == kqState' = [kqState EXCEPT ![c] = s]

-----------------------------------------------------------------------------
(* RayfoldClient.command                                                    *)

\* Its number and its prediction.
KqMake ==
  /\ kqNext < N /\ Cardinality(OnTheirWay) < MaxCalls
  /\ kqNext' = kqNext + 1
  /\ Goes(kqNext', "made") /\ kqLayers' = kqLayers \cup {kqNext'}
  /\ UNCHANGED <<kqBeside, kqEntries, kqDrain, kqHead, kqAsked, faults, att, network>>

\* Mutant: the queue is not looked at.
ChoosesDirect(c) == TRUE

\* Behind the commands still waiting, or at once.
FindsNobodyWaiting(c) == kqEntries = <<>>

KqChoose(c) ==
  /\ kqState[c] = "made"
  /\ kqBeside' = [kqBeside EXCEPT ![c] = OnTheirWay \ {c}]
  /\ IF FindsNobodyWaiting(c)
     THEN Goes(c, "direct") /\ Attempt(c)
     ELSE Goes(c, "adding") /\ UNCHANGED att
  /\ UNCHANGED <<kqNext, kqQueue, faults, network>>

\* OfflineQueue.add: in its place, before the first made later, and saved.
InItsPlace(q, c) ==
  LET later == {i \in DOMAIN q : q[i] > c}
  IN  InsertAt(q, IF later = {} THEN Len(q) + 1 ELSE Min(later), c)

\* One that waits behind others also asks for a drain.
KqAdd(c) ==
  /\ kqState[c] = "adding"
  /\ kqEntries' = InItsPlace(kqEntries, c) /\ Goes(c, "waiting") /\ kqAsked' = kqAsked + 1
  /\ UNCHANGED <<kqNext, kqBeside, kqDrain, kqHead, kqLayers, faults, att, network>>

\* Not reached: it is queued, and its prediction stays until it is sent.
KqUnreachable(c) ==
  /\ kqState[c] = "direct" /\ att[c] = "lost"
  /\ kqEntries' = InItsPlace(kqEntries, c) /\ Goes(c, "waiting") /\ Taken(c)
  /\ UNCHANGED <<kqNext, kqBeside, kqDrain, kqHead, kqAsked, kqLayers, faults, network>>

\* The prediction goes with the answer, whichever it is.
KqAnswered(c) ==
  /\ kqState[c] = "direct" /\ att[c] \in {"ok", "refused"}
  /\ Goes(c, "settled") /\ Taken(c) /\ kqLayers' = kqLayers \ {c}
  /\ UNCHANGED <<kqNext, kqBeside, kqEntries, kqDrain, kqHead, kqAsked, faults, network>>

\* The caller is cancelled while its command is in flight.
KqCancelled(c) ==
  /\ kqState[c] = "direct" /\ att[c] # "none" /\ cancels < MaxCancels
  /\ cancels' = cancels + 1
  /\ Goes(c, "gone") /\ Abandoned({c}) /\ kqLayers' = kqLayers \ {c}
  /\ UNCHANGED <<kqNext, kqBeside, kqEntries, kqDrain, kqHead, kqAsked, restarts, accept, ran, reachable, outages>>

-----------------------------------------------------------------------------
(* OfflineQueue.drain                                                       *)

\* drain() of the application.
KqAsk ==
  /\ kqAsked = 0 /\ kqAsked' = 1
  /\ UNCHANGED <<kqCalls, kqEntries, kqDrain, kqHead, kqLayers, faults, att, network>>

\* The mutex goes to one that waits for it.
KqLock ==
  /\ kqDrain = "none" /\ kqAsked > 0
  /\ kqDrain' = "loop" /\ kqAsked' = kqAsked - 1
  /\ UNCHANGED <<kqCalls, kqEntries, kqHead, kqLayers, faults, att, network>>

KqSend ==
  /\ kqDrain = "loop" /\ kqEntries # <<>>
  /\ kqDrain' = "send" /\ kqHead' = kqEntries[1] /\ Attempt(kqHead')
  /\ UNCHANGED <<kqCalls, kqEntries, kqAsked, kqLayers, faults, network>>

Unlock == kqDrain' = "none" /\ kqHead' = 0

KqDrained ==
  /\ kqDrain = "loop" /\ kqEntries = <<>> /\ Unlock
  /\ UNCHANGED <<kqCalls, kqEntries, kqAsked, kqLayers, faults, att, network>>

\* Still offline: it and everything behind it keep waiting.
KqStillOffline ==
  /\ kqDrain = "send" /\ att[kqHead] = "lost"
  /\ Taken(kqHead) /\ Unlock
  /\ UNCHANGED <<kqCalls, kqEntries, kqAsked, kqLayers, faults, network>>

\* The coroutine that drains is cancelled, by its caller or because the server
\* refused its own command just now: the entry stays.
KqDrainCancelled ==
  /\ kqDrain = "send" /\ cancels < MaxCancels
  /\ cancels' = cancels + 1
  /\ Abandoned({kqHead}) /\ Unlock
  /\ UNCHANGED <<kqCalls, kqEntries, kqAsked, kqLayers, restarts, accept, ran, reachable, outages>>

\* The server answered: `settled` drops the prediction of one that succeeded.
KqDrainAnswered ==
  /\ kqDrain = "send" /\ att[kqHead] \in {"ok", "refused"}
  /\ kqDrain' = "remove" /\ Taken(kqHead)
  /\ kqLayers' = IF att[kqHead] = "ok" THEN kqLayers \ {kqHead} ELSE kqLayers
  /\ UNCHANGED <<kqCalls, kqEntries, kqHead, kqAsked, faults, network>>

\* The entry itself goes, wherever it stands by now.
KqRemove ==
  /\ kqDrain = "remove"
  /\ kqEntries' = RemoveFirst(kqEntries, kqHead) /\ kqDrain' = "settle"
  /\ UNCHANGED <<kqCalls, kqHead, kqAsked, kqLayers, faults, att, network>>

\* Its prediction goes and its caller is told.
KqSettle ==
  /\ kqDrain = "settle"
  /\ kqLayers' = kqLayers \ {kqHead} /\ Goes(kqHead, "settled")
  /\ kqDrain' = "loop" /\ kqHead' = 0
  /\ UNCHANGED <<kqNext, kqBeside, kqEntries, kqAsked, faults, att, network>>

\* The process ends and starts again with its file: no caller waits any more,
\* and nobody drains until someone asks.
KqRestart ==
  /\ restarts < MaxRestarts /\ restarts' = restarts + 1
  /\ Abandoned(Command)
  /\ kqState' = [c \in Command |->
       CASE kqState[c] \in {"made", "adding", "direct"} -> "gone"
         [] kqState[c] = "waiting" /\ ~Contains(kqEntries, c) -> "settled"
         [] OTHER -> kqState[c]]
  /\ kqLayers' = ToSet(kqEntries)
  /\ Unlock /\ kqAsked' = 0
  /\ UNCHANGED <<kqNext, kqBeside, kqEntries, cancels, accept, ran, reachable, outages>>

-----------------------------------------------------------------------------

KqDelivers(A) == A /\ UNCHANGED <<kqCalls, kqQueue, faults>>
KqDrainSteps ==
  KqLock \/ KqSend \/ KqDrained \/ KqStillOffline \/ KqDrainAnswered \/ KqRemove \/ KqSettle

KqNext ==
  \/ KqMake \/ KqAsk \/ KqDrainSteps \/ KqDrainCancelled \/ KqRestart
  \/ \E c \in Command : KqChoose(c) \/ KqAdd(c) \/ KqUnreachable(c) \/ KqAnswered(c) \/ KqCancelled(c)
  \/ KqDelivers(GoesDown) \/ KqDelivers(ComesBack)
  \/ \E c \in Command : KqDelivers(Serve(c)) \/ KqDelivers(ServeStray(c)) \/ KqDelivers(Lose(c))

KqSpec == KqInit /\ [][KqNext]_kqVars

-----------------------------------------------------------------------------

\* Commands, entries and the drain are in their domains, and an attempt in flight
\* has one that waits for it.
KqTypeOK ==
  /\ DeliveryOK /\ kqNext \in 0..N /\ kqHead \in 0..kqNext /\ kqAsked \in 0..N + 1
  /\ kqState \in [Command -> {"new", "made", "adding", "direct", "waiting", "settled", "gone"}]
  /\ kqDrain \in {"none", "loop", "send", "remove", "settle"}
  /\ (kqHead # 0) <=> (kqDrain \in {"send", "remove", "settle"})
  /\ \A c \in Command : att[c] # "none" => kqState[c] = "direct" \/ (kqDrain = "send" /\ kqHead = c)
  /\ kqLayers \subseteq 1..kqNext /\ kqBeside \in [Command -> SUBSET Command]

\* Whatever callers, drains, cancellations and restarts do to one another, the
\* queue and its file hold just the commands that wait, each once and in the
\* order they were made, and the answer of one never takes another off.
KqNoneLost ==
  /\ \A i, j \in DOMAIN kqEntries : i < j => kqEntries[i] < kqEntries[j]
  /\ ToSet(kqEntries) =
       {c \in Command : kqState[c] = "waiting"} \ (IF kqDrain = "settle" THEN {kqHead} ELSE {})

\* The prediction of a command shows until it is answered, also across a restart.
KqPredictionIsShown ==
  kqLayers \ (IF kqDrain \in {"remove", "settle"} THEN {kqHead} ELSE {})
    = {c \in Command : kqState[c] \in {"made", "adding", "direct", "waiting"}}
        \ (IF kqDrain \in {"remove", "settle"} THEN {kqHead} ELSE {})

\* The server runs commands in the order they were made ("the server sees them
\* in the order they were made"), but for two that were on their way at once and
\* one whose caller was gone.
KqInOrder ==
  \A i, j \in DOMAIN ran : (i < j /\ ran[j] < ran[i]) =>
    ran[j] \in kqBeside[ran[i]] \/ kqState[ran[j]] = "gone"

\* What the Kotlin queue owes its commands: none is lost, each shows its
\* prediction until it is answered, and they run in their order.
KqKept == KqTypeOK /\ KqNoneLost /\ KqPredictionIsShown /\ KqInOrder
=============================================================================
