---------------------------- MODULE LayeredView ----------------------------
(* What the client's cache promises to whoever reads it (spec/08 section 5,  *)
(* spec/13 section 2): every entity is shown as the server last spoke of it, *)
(* field by field, under the predictions of the commands that have not       *)
(* settled, oldest first.                                                    *)
EXTENDS Naturals, Sequences, SequencesExt

CONSTANTS
  Keys,      \* entities
  Fields,    \* of an entity, which is a function from those that are known
  Policy,    \* by field: its @merge policy
  None       \* no such entity

VARIABLES
  said,      \* by key: the server's words, or None
  guesses,   \* the predictions, oldest first: [id, ops: from the keys it covers to words]
  shown      \* by key: what a reader sees

\* e with w on top; an entity nobody had spoken of is created.
On(w, e) ==
  LET old == IF e = None THEN <<>> ELSE e
  IN  [f \in DOMAIN w \union DOMAIN old |-> IF f \in DOMAIN w THEN w[f] ELSE old[f]]

\* The fields a server's word takes from a guess, by their policy.
Yields(f) == Policy[f] \in {"serverWins", "lww"}

Laid(e, gs, k) ==
  LET upTo[j \in 0..Len(gs)] ==
        IF j = 0 THEN e ELSE IF k \in DOMAIN gs[j].ops THEN On(gs[j].ops[k], upTo[j - 1]) ELSE upTo[j - 1]
  IN  upTo[Len(gs)]
View(base, gs) == [k \in Keys |-> Laid(base[k], gs, k)]

Init == said = [k \in Keys |-> None] /\ guesses = <<>> /\ shown = View(said, guesses)

Known(e) == IF e = None THEN {} ELSE DOMAIN e

\* The server speaks of some fields of k: no other field of it changes, and a
\* guess keeps the fields that do not yield.
Spoken(k, fs) ==
  /\ said'[k] # None /\ DOMAIN said'[k] = Known(said[k]) \union fs
  /\ \A f \in Known(said[k]) \ fs : said'[k][f] = said[k][f]
  /\ \A j \in DOMAIN guesses : k \in DOMAIN guesses[j].ops =>
       guesses'[j].ops[k] = [f \in DOMAIN guesses[j].ops[k] \ {g \in fs : Yields(g)} |-> guesses[j].ops[k][f]]
\* ... or says nothing of it, or that it is deleted.
Unspoken(k) ==
  /\ said'[k] \in {said[k], None}
  /\ \A j \in DOMAIN guesses : k \in DOMAIN guesses[j].ops => guesses'[j].ops[k] = guesses[j].ops[k]

\* The server says something of some of the entities.
Says ==
  /\ DOMAIN guesses' = DOMAIN guesses
  /\ \A j \in DOMAIN guesses :
       guesses'[j].id = guesses[j].id /\ DOMAIN guesses'[j].ops = DOMAIN guesses[j].ops
  /\ \A k \in Keys : Unspoken(k) \/ \E fs \in SUBSET Fields : Spoken(k, fs)

Guess  == Len(guesses') = Len(guesses) + 1 /\ Front(guesses') = guesses /\ UNCHANGED said
Settle == (\E j \in DOMAIN guesses : guesses' = RemoveAt(guesses, j)) /\ UNCHANGED said

Next == (Says \/ Guess \/ Settle) /\ shown' = View(said', guesses')
Spec == Init /\ [][Next]_<<said, guesses, shown>>
=============================================================================
