---------------------------- MODULE OfflineQueue ----------------------------
(***************************************************************************)
(* The offline queue of the TypeScript client: OfflineQueue in             *)
(* packages/client/src/offline.ts and the path of RayfoldClient.command    *)
(* into it.  A command is the number it was made with (`seq`); its key is  *)
(* its own.                                                                *)
(***************************************************************************)
EXTENDS Delivery

CONSTANTS
  MaxDirect,    \* commands in flight at once outside the queue
  MaxReloads

ASSUME QueueAssumption == {N, MaxDirect, MaxOutages, MaxReloads} \subseteq Nat

VARIABLES
  next,         \* commands made so far
  entries,      \* the queue
  saved,        \* the queue as the storage has it
  direct,       \* commands sent without being queued
  run, head,    \* the drain: where it stands, and the entry it is sending
  again,        \* a drain was asked for while one was going
  layers,       \* the cache's optimistic layers
  settled, gone,\* answered to their caller; in flight on a page that went away
  reloads,
  called        \* history: a drain was asked for while the server could be reached

client == <<entries, saved, direct, run, head, again, layers, settled>>
queueVars == <<next, client, att, gone, network, reloads, called>>

QueueInit ==
  /\ next = 0 /\ entries = <<>> /\ saved = <<>> /\ direct = {}
  /\ DeliveryInit
  /\ run = "idle" /\ head = 0 /\ again = FALSE
  /\ layers = {} /\ settled = {} /\ gone = {}
  /\ reloads = 0 /\ called = FALSE

Waiting == ToSet(entries)

\* OfflineQueue.drain(): one run at a time, and one more after it for whoever
\* asked meanwhile.
AskDrain(up) ==
  /\ run' = IF run = "idle" THEN "loop" ELSE run
  /\ again' = (again \/ run # "idle")
  /\ called' = (called \/ up)

\* OfflineQueue.add: before the first entry made later, or at the end.
InPlace(q, c) ==
  LET later == {i \in DOMAIN q : q[i] > c}
  IN  InsertAt(q, IF later = {} THEN Len(q) + 1 ELSE Min(later), c)

Add(c) == entries' = InPlace(entries, c) /\ saved' = entries'

-----------------------------------------------------------------------------
(* RayfoldClient.command.                                                   *)

\* Mutant: a command is tried at once whatever waits.
NeverBehind == FALSE

\* Behind commands that still wait, a command waits too.
Behind == entries # <<>>

MakeQueued ==
  /\ next < N /\ Behind
  /\ next' = next + 1
  /\ layers' = layers \cup {next'}
  /\ Add(next') /\ AskDrain(reachable)
  /\ UNCHANGED <<direct, att, head, settled, gone, network, reloads>>

MakeDirect ==
  /\ next < N /\ ~Behind /\ Cardinality(direct) < MaxDirect
  /\ next' = next + 1
  /\ layers' = layers \cup {next'}
  /\ direct' = direct \cup {next'} /\ Attempt(next')
  /\ UNCHANGED <<entries, saved, run, head, again, settled, gone, network, reloads, called>>

DirectAnswered(c) ==
  /\ c \in direct /\ att[c] \in {"ok", "refused"}
  /\ direct' = direct \ {c} /\ Taken(c)
  /\ layers' = layers \ {c} /\ settled' = settled \cup {c}
  /\ UNCHANGED <<next, entries, saved, run, head, again, gone, network, reloads, called>>

\* The server could not be reached: the command is queued, with its prediction.
DirectUnreachable(c) ==
  /\ c \in direct /\ att[c] = "lost"
  /\ direct' = direct \ {c} /\ Taken(c)
  /\ Add(c)
  /\ UNCHANGED <<next, run, head, again, layers, settled, gone, network, reloads, called>>

-----------------------------------------------------------------------------
(* OfflineQueue.run.                                                        *)

\* The run ends, and the one asked for meanwhile begins.
DrainEnds ==
  /\ run' = IF again THEN "loop" ELSE "idle"
  /\ again' = FALSE /\ head' = 0
  /\ called' = (called /\ entries # <<>>)

DrainNext ==
  /\ run = "loop" /\ entries # <<>>
  /\ run' = "send" /\ head' = entries[1]
  /\ Attempt(head')
  /\ UNCHANGED <<next, entries, saved, direct, again, layers, settled, gone, network, reloads, called>>

DrainDone ==
  /\ run = "loop" /\ entries = <<>>
  /\ DrainEnds
  /\ UNCHANGED <<next, entries, saved, direct, att, layers, settled, gone, network, reloads>>

\* The server answered: an ok drops the prediction at once (settled), the first
\* entry leaves the queue, and the queue is saved.
DrainAnswered ==
  /\ run = "send" /\ att[head] \in {"ok", "refused"}
  /\ Taken(head)
  /\ entries' = Tail(entries) /\ saved' = entries'
  /\ layers' = IF att[head] = "ok" THEN layers \ {head} ELSE layers
  /\ run' = "save"
  /\ UNCHANGED <<next, direct, head, again, settled, gone, network, reloads, called>>

\* After the save: the prediction goes and the caller is told.
DrainSettles ==
  /\ run = "save"
  /\ layers' = layers \ {head} /\ settled' = settled \cup {head}
  /\ run' = "loop" /\ head' = 0
  /\ UNCHANGED <<next, entries, saved, direct, att, again, gone, network, reloads, called>>

\* Still offline: it and everything behind it keep waiting.
DrainUnreachable ==
  /\ run = "send" /\ att[head] = "lost"
  /\ Taken(head)
  /\ DrainEnds
  /\ UNCHANGED <<next, entries, saved, direct, layers, settled, gone, network, reloads>>

\* client.drain(), by the application.
AppDrains ==
  /\ AskDrain(reachable)
  /\ UNCHANGED <<next, entries, saved, direct, att, head, layers, settled, gone, network, reloads>>

\* The predictions a reload shows again.
Restored(q) == ToSet(q)

\* The page goes away and comes back with the saved queue, which it drains.
Reload ==
  /\ reloads < MaxReloads /\ reloads' = reloads + 1
  /\ gone' = gone \cup direct
  /\ Abandoned(Command)
  /\ settled' = IF run = "save" THEN settled \cup {head} ELSE settled
  /\ entries' = saved /\ layers' = Restored(saved)
  /\ direct' = {}
  /\ run' = (IF saved # <<>> THEN "loop" ELSE "idle") /\ again' = FALSE /\ head' = 0
  /\ called' = (saved # <<>> /\ reachable)
  /\ UNCHANGED <<next, saved, accept, reachable, outages, ran>>

-----------------------------------------------------------------------------
(* The server and the network.                                              *)

Outage ==
  /\ GoesDown /\ called' = FALSE
  /\ UNCHANGED <<next, client, gone, reloads>>

\* The connection is back, and the browser says so.
Online ==
  /\ ComesBack /\ AskDrain(TRUE)
  /\ UNCHANGED <<next, entries, saved, direct, head, layers, settled, gone, reloads>>

\* A server that came back without the network going down fires no `online`.
BackSilently == ComesBack /\ UNCHANGED <<next, client, gone, reloads, called>>

Delivers(A) == A /\ UNCHANGED <<next, client, gone, reloads, called>>

-----------------------------------------------------------------------------

DrainSteps == DrainNext \/ DrainDone \/ DrainAnswered \/ DrainSettles \/ DrainUnreachable

QueueNext ==
  \/ MakeQueued \/ MakeDirect \/ DrainSteps \/ AppDrains \/ Reload
  \/ Outage \/ Online \/ BackSilently
  \/ \E c \in Command :
       DirectAnswered(c) \/ DirectUnreachable(c)
         \/ Delivers(Serve(c)) \/ Delivers(ServeStray(c)) \/ Delivers(Lose(c))

QueueSpec == QueueInit /\ [][QueueNext]_queueVars

\* The drain goes on, and an attempt is answered or is lost.
FairQueue ==
  /\ QueueSpec
  /\ WF_queueVars(DrainSteps)
  /\ \A c \in Command : WF_queueVars(Delivers(Serve(c) \/ Lose(c)))

-----------------------------------------------------------------------------

\* The queue is in the order commands were made, and it, the commands in flight
\* and the predictions are of commands that were made.
QueueTypeOK ==
  /\ next \in 0..N
  /\ \A i, j \in DOMAIN entries : i < j => entries[i] < entries[j]
  /\ Waiting \subseteq 1..next /\ ToSet(saved) \subseteq 1..next
  /\ direct \subseteq 1..next /\ layers \subseteq 1..next
  /\ settled \subseteq 1..next /\ gone \subseteq 1..next
  /\ DeliveryOK
  /\ run \in {"idle", "loop", "send", "save"} /\ head \in 0..next
  /\ {again, called} \subseteq BOOLEAN /\ reloads \in 0..MaxReloads
  /\ ToSet(ran) \cup stray \subseteq 1..next

Saving == IF run = "save" THEN {head} ELSE {}

\* A command is answered, in flight, waiting, or was in flight on a page that
\* went away: outages and reloads lose none that was queued, and one that was
\* answered waits no more.
NoCommandLost ==
  /\ 1..next = direct \cup Waiting \cup Saving \cup settled \cup gone
  /\ settled \cap (direct \cup Waiting) = {}

\* The screen shows a command's prediction for exactly as long as the command
\* is not answered, also across a reload.
PredictionIsShown == layers \ Saving = direct \cup Waiting

\* The server runs commands in the order they were made (spec 08 section 5),
\* but for those a page left in flight as it went away.
RunInOrder ==
  \A i, j \in DOMAIN ran : (i < j /\ ran[j] < ran[i]) => ran[j] \in gone

\* A drain asked for while the server can be reached empties the queue, also
\* when a run was going that had already lost its attempt (the comment in drain).
\* `called` is taken back only when it did, or when the server is out of reach.
CalledDrainEmpties == []<>(called => entries = <<>> \/ ~reachable)

\* What the queue owes its commands at any moment: none is lost, each shows its
\* prediction until it is answered, and the server runs them in their order.
QueueKept == QueueTypeOK /\ NoCommandLost /\ PredictionIsShown /\ RunInOrder
=============================================================================
