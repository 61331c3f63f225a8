------------------------------ MODULE Delivery ------------------------------
(***************************************************************************)
(* Attempts at commands on a network that fails, and a server that runs    *)
(* the key of a command once (module Commands).  A command is the number   *)
(* it was made with.  Both clients' offline queues send through it.        *)
(***************************************************************************)
EXTENDS Integers, FiniteSets, SequencesExt

CONSTANTS
  N,            \* commands the user makes
  MaxOutages

Command == 1..N

VARIABLES
  att,          \* what became of the attempt in flight for a command
  accept,       \* whether the server will refuse the command
  ran, stray,   \* the server: effects in order, and requests given up on but on their way
  reachable, outages

network == <<accept, ran, stray, reachable, outages>>

DeliveryInit ==
  /\ att = [c \in Command |-> "none"]
  /\ accept \in [Command -> BOOLEAN]
  /\ ran = <<>> /\ stray = {}
  /\ reachable = TRUE /\ outages = 0

\* The client's side of an attempt: it is begun, and its outcome taken.
Attempt(c) == att' = [att EXCEPT ![c] = "sent"]
Taken(c)   == att' = [att EXCEPT ![c] = "none"]

\* Nobody waits any more for the attempts of cs.
Abandoned(cs) ==
  /\ att' = [c \in Command |-> IF c \in cs THEN "none" ELSE att[c]]
  /\ stray' = stray \cup {c \in cs : att[c] = "sent"}

RunOnce(c) == ran' = IF accept[c] /\ ~Contains(ran, c) THEN Append(ran, c) ELSE ran

Serve(c) ==
  /\ reachable /\ att[c] = "sent"
  /\ RunOnce(c)
  /\ att' = [att EXCEPT ![c] = IF accept[c] THEN "ok" ELSE "refused"]
  /\ UNCHANGED <<accept, stray, reachable, outages>>

\* A request nobody waits for any more reaches the server after all.
ServeStray(c) ==
  /\ c \in stray /\ stray' = stray \ {c}
  /\ RunOnce(c)
  /\ UNCHANGED <<att, accept, reachable, outages>>

\* During an outage an attempt fails; the request, or only its answer, is lost.
Lose(c) ==
  /\ ~reachable /\ att[c] \in {"sent", "ok", "refused"}
  /\ att' = [att EXCEPT ![c] = "lost"]
  /\ stray' = IF att[c] = "sent" THEN stray \cup {c} ELSE stray
  /\ UNCHANGED <<accept, ran, reachable, outages>>

GoesDown ==
  /\ reachable /\ outages < MaxOutages
  /\ reachable' = FALSE /\ outages' = outages + 1
  /\ UNCHANGED <<att, accept, ran, stray>>

ComesBack ==
  /\ ~reachable /\ reachable' = TRUE
  /\ UNCHANGED <<att, accept, ran, stray, outages>>

DeliveryOK ==
  /\ att \in [Command -> {"none", "sent", "ok", "refused", "lost"}]
  /\ ToSet(ran) \cup stray \subseteq Command /\ reachable \in BOOLEAN /\ outages \in 0..MaxOutages
=============================================================================
