------------------------------ MODULE KeyStore ------------------------------
(* What every idempotency store promises the servers that share it (the       *)
(* comments of IdempotencyStore, server/src/context.ts; spec 03 section 4):   *)
(* whoever claimed a key holds it until they record or give it back, or its   *)
(* lease runs out, and a record stays what it is until it expires or leaves.  *)

CONSTANTS Keys, Attempts, NoOne

VARIABLES
  slot,      \* by key: [st: free, held or done; by: whose claim or record it is]
  over,      \* the keys whose lease ran out, or whose record expired
  leaving    \* the attempts that are through with their key: they failed before they
             \* changed anything, or record in a store so full that it drops the record

Free == [st |-> "free", by |-> NoOne]
Init == slot = [k \in Keys |-> Free]

Claim(k, a) == (slot[k] = Free \/ k \in over) /\ slot'[k] = [st |-> "held", by |-> a]
Record(k) == slot[k].st = "held" /\ slot'[k] = [slot[k] EXCEPT !.st = "done"]
GiveUp(k) == (slot[k].st = "done" \/ k \in over \/ slot[k].by \in leaving) /\ slot'[k] = Free

\* A sweep gives up several keys at once.
KeyStep(k) == slot'[k] = slot[k] \/ (\E a \in Attempts : Claim(k, a)) \/ Record(k) \/ GiveUp(k)
Next == slot' \in [Keys -> [st : {"free", "held", "done"}, by : Attempts \union {NoOne}]] /\ \A k \in Keys : KeyStep(k)
Spec == Init /\ [][Next]_slot
=============================================================================
