----------------------------- MODULE Attribution -----------------------------
(***************************************************************************)
(* Whose a frame without an op id is.  A server that refuses a whole       *)
(* envelope answers with one such frame, and nothing in it says which of   *)
(* the batches sent and not answered it refuses.  Both clients give it to  *)
(* a batch once no other can be its owner.                                 *)
(***************************************************************************)
EXTENDS Integers, FiniteSets

CONSTANT Batch  \* the batches of the client

ASSUME AttributionAssumption == IsFiniteSet(Batch)

\* The frames whose owners are known: those among n batches, n of them or more.
Owned(os) == {o \in os : Cardinality({x \in os : x.among \subseteq o.among}) >= Cardinality(o.among)}

\* The frames that may still have an owner among the batches ps.
Narrowed(os, ps) ==
  {o \in {[x EXCEPT !.among = x.among \cap ps] : x \in os} : o.among # {}}

\* One turn of the loop, on the frames left and the batches they were given to.
Attribute(f) ==
  LET os == Narrowed(f.orphans, f.open \ f.given) IN
  IF Owned(os) = {} THEN [f EXCEPT !.orphans = os]
  ELSE LET o == CHOOSE x \in Owned(os) : TRUE IN
       [f EXCEPT !.orphans = {x \in os : ~(x.among \subseteq o.among)}, !.given = f.given \cup o.among]

\* The loop ends within a turn per batch, as each one that goes on closes one.
Attributed(os, open) ==
  LET turn[n \in 0..Cardinality(Batch) + 1] ==
        IF n = 0 THEN [orphans |-> os, open |-> open, given |-> {}] ELSE Attribute(turn[n - 1])
  IN turn[Cardinality(Batch) + 1]
=============================================================================
