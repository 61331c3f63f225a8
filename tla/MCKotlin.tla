------------------------------- MODULE MCKotlin -------------------------------
(* The concurrent parts of the Kotlin runtime, one at a time.  Queue: three    *)
(* commands, the second of them refused, two callers at once, an outage, and a *)
(* restart or a cancelled caller.  Socket: two batches on two sockets, one of  *)
(* them left by its reader.  Command: a command, its retry, and one with a key *)
(* of its own, in a store with room for one record; the command or its retry   *)
(* is cancelled, or its server stops.  Stall: the same three, none cancelled,  *)
(* on servers of the other runtime, whose leases are over before a renewal can *)
(* come.                                                                       *)
EXTENDS KtQueue, KtTransport, KtCommand, Commands, TLC

VARIABLE part

CONSTANTS b1, b2, a1, a2, a3, k1, k2, s1, s2
MCTwo == {b1, b2}
ThreeOf   == (a1 :> k1) @@ (a2 :> k1) @@ (a3 :> k2)
ThreeHash == [a \in Attempts |-> 1]
ThreeOn   == (a1 :> s1) @@ (a2 :> s1) @@ (a3 :> s2)

\* A command and its retry differ in nothing.
Retries == Permutations({a1, a2})

all == <<part, kqVars, ktVars, kcVars, vars>>
MCInit ==
  /\ part \in {"queue", "socket", "command", "stall"} /\ KqInit /\ KtInit /\ KcInit /\ Init
  /\ accept = [c \in Command |-> part # "queue" \/ c # 2]
InQueue(A)   == part = "queue" /\ UNCHANGED part /\ A /\ UNCHANGED <<ktVars, kcVars, vars>>
InSocket(A)  == part = "socket" /\ UNCHANGED part /\ A /\ UNCHANGED <<kqVars, kcVars, vars>>
InCommand(A) == part = "command" /\ UNCHANGED part /\ A /\ UNCHANGED <<kqVars, ktVars, vars>>
InStall(A)   == part = "stall" /\ UNCHANGED part /\ A /\ UNCHANGED <<kqVars, ktVars, kcVars>>
OneFault == restarts + cancels <= 1
OneLeaves == Cardinality({b \in Batch : ended[b] = "left"}) <= 1
Stopped == {a \in KcAttempts : kcStop[a] # "no" \/ (kcPc[a] = "ended" /\ kcFrames[a] = <<>>)}
OneStops == Cardinality(Stopped) <= 1 /\ a3 \notin Stopped
NoneAborts == \A a \in Attempts : ~aborted[a] /\ pc[a] # "crashed"
MCNext ==
  \/ InQueue(KqNext /\ OneFault') \/ InSocket(KtNext /\ OneLeaves')
  \/ InCommand(KcNext /\ OneStops') \/ InStall(Next /\ NoneAborts')
MCSpec == MCInit /\ [][MCNext]_all
=============================================================================
