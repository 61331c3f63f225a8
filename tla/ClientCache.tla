---------------------------- MODULE ClientCache ----------------------------
(* The client's normalized cache (client/src/cache.ts) as functions on one   *)
(* record: entities, predictions over them, and one stored result, a list of *)
(* references. Operations that the code runs in one transaction are composed *)
(* and announced once.                                                       *)
EXTENDS Naturals, Sequences, FiniteSets, SequencesExt

CONSTANTS
  CacheKeys, Policy, None,
  Gap        \* what a deleted entity leaves in a list

VARIABLE cache
\* [entities: by key, what readers see; shadow: the server's values of the keys a
\*  prediction covers; layers: the predictions; list: the result, None until there
\*  is one; keys: the entities it ever held; touched, replaced: of this operation]

Empty == [entities |-> [k \in CacheKeys |-> None], shadow |-> <<>>, layers |-> <<>>,
          list |-> None, keys |-> {}, touched |-> {}, replaced |-> FALSE]

On(w, e) ==
  LET old == IF e = None THEN <<>> ELSE e
  IN  [f \in DOMAIN w \union DOMAIN old |-> IF f \in DOMAIN w THEN w[f] ELSE old[f]]
PickOf(f, S) == [x \in DOMAIN f \intersect S |-> f[x]]

-----------------------------------------------------------------------------
(* Entities, and the server's values below predictions                       *)

BaseOf(c, k) == IF k \in DOMAIN c.shadow THEN c.shadow[k] ELSE c.entities[k]

\* Mutant: a value that arrives under a prediction replaces it.
LaidThrough(layers, k, e) == e
\* rebuild: a base with the predictions for it on top, oldest first.
Laid(layers, k, e) ==
  LET upTo[j \in 0..Len(layers)] ==
        IF j = 0 THEN e
        ELSE IF k \in DOMAIN layers[j].ops THEN On(layers[j].ops[k], upTo[j - 1]) ELSE upTo[j - 1]
  IN  upTo[Len(layers)]

\* overrule: fields the server has just spoken for leave the predictions that set
\* them, by their policy.
Overruled(layers, spoken) ==
  LET Yields(f) == Policy[f] \in {"serverWins", "lww"}
      Left(k, guess) == IF k \in DOMAIN spoken THEN PickOf(guess, {f \in DOMAIN guess : ~(f \in spoken[k] /\ Yields(f))}) ELSE guess
  IN  [j \in DOMAIN layers |-> [layers[j] EXCEPT !.ops = [k \in DOMAIN @ |-> Left(k, @[k])]]]

\* setBase and overrule, of the entities in `new`, by the fields in `spoken`.
SetBases(c, new, spoken) ==
  LET layers == Overruled(c.layers, spoken)
      Now(k) == IF k \in DOMAIN c.shadow THEN Laid(layers, k, new[k]) ELSE new[k]
  IN  [c EXCEPT !.layers = layers,
                !.shadow = [k \in DOMAIN @ |-> IF k \in DOMAIN new THEN new[k] ELSE @[k]],
                !.entities = [k \in CacheKeys |-> IF k \in DOMAIN new THEN Now(k) ELSE @[k]],
                !.touched = @ \union DOMAIN new]

\* storeEntity, for every entity found in some data: its fields on what is there.
Store(c, words) ==
  SetBases(c, [k \in DOMAIN words |-> On(words[k], BaseOf(c, k))], [k \in DOMAIN words |-> DOMAIN words[k]])

\* A `set`: the entity is read before the entities nested in its new value are stored.
Merge(c, k, fields, nested) ==
  SetBases(Store(c, nested), [x \in {k} |-> On(fields, BaseOf(c, k))], [x \in {k} |-> DOMAIN fields])

\* Mutant: the row leaves the list, and later positions move.
DropFromList(list, k) == SelectSeq(list, LAMBDA x : x # k)
\* dropRef, in a list: a gap keeps later positions where the server believes them.
DropRef(list, k) == [i \in DOMAIN list |-> IF list[i] = k THEN Gap ELSE list[i]]

Holders(c, k) == {h \in CacheKeys \ {k} : BaseOf(c, h) # None /\ \E f \in DOMAIN BaseOf(c, h) : BaseOf(c, h)[f] = k}

\* A `del`: the entity goes, and every reference to it.
Delete(c, k) ==
  LET Cleared(e) == [f \in DOMAIN e |-> IF e[f] = k THEN None ELSE e[f]]
      after == SetBases(c, [h \in {k} \union Holders(c, k) |-> IF h = k THEN None ELSE Cleared(BaseOf(c, h))], <<>>)
  IN  [after EXCEPT !.list = IF @ # None /\ k \in c.keys THEN DropRef(@, k) ELSE @]

-----------------------------------------------------------------------------
(* The stored result                                                         *)

WordsOf(rs) == [k \in {rs[i].key : i \in DOMAIN rs} |-> (CHOOSE r \in ToSet(rs) : r.key = k).fields]

\* putResult: a data frame replaces the result and stores its entities.
PutResult(c, rs) ==
  [Store(c, WordsOf(rs)) EXCEPT !.list = [i \in DOMAIN rs |-> rs[i].key],
                                !.keys = {rs[i].key : i \in DOMAIN rs}, !.replaced = TRUE]

\* mergeAt: fields that were deferred reach the row at a position, unless it is a gap.
MergeAt(c, at, fields) ==
  IF c.list = None \/ at \notin DOMAIN c.list THEN c
  ELSE LET k == c.list[at]
           merged == IF k = Gap THEN c ELSE Store(c, [x \in {k} |-> fields])
       IN  [merged EXCEPT !.keys = @ \union merged.touched, !.replaced = TRUE]

\* What stays of a list without some of its positions.
Without(list, gone) ==
  LET from[i \in 1..Len(list) + 1] ==
        IF i > Len(list) THEN <<>> ELSE IF i \in gone THEN from[i + 1] ELSE <<list[i]>> \o from[i + 1]
  IN  from[1]

Splice(s, x) == InsertAt(s, IF x.at > Len(s) THEN Len(s) + 1 ELSE x.at, x.row.key)
Described(list, op) ==
  LET listed[n \in 0..Len(op.ins)] ==
        IF n = 0 THEN Without(list, op.del) ELSE Splice(listed[n - 1], op.ins[n])
  IN  listed[Len(op.ins)]

\* applyList: positions as the list stands, then insertions in order.
ApplyList(c, op) ==
  IF c.list = None THEN c
  ELSE LET stored == Store(c, WordsOf([n \in DOMAIN op.ins |-> op.ins[n].row]))
       IN  [stored EXCEPT !.list = Described(@, op), !.keys = @ \union stored.touched, !.replaced = TRUE]

\* denormalize: gaps are hidden, an entity that is not there is left a bare reference.
Shown(c) ==
  IF c.list = None THEN None
  ELSE LET there == Without(c.list, {i \in DOMAIN c.list : c.list[i] = Gap})
           Read(e) == IF e = None THEN None ELSE PickOf(e, {"f", "g"})
       IN  [i \in DOMAIN there |-> [key |-> there[i], fields |-> Read(c.entities[there[i]])]]

-----------------------------------------------------------------------------
(* Predictions                                                               *)

AddLayer(c, id, ops) ==
  LET layers == Append(c.layers, [id |-> id, ops |-> ops])
      shadow == [k \in DOMAIN c.shadow \union DOMAIN ops |-> BaseOf(c, k)]
  IN  [c EXCEPT !.layers = layers, !.shadow = shadow, !.touched = @ \union DOMAIN ops,
                !.entities = [k \in CacheKeys |-> IF k \in DOMAIN ops THEN Laid(layers, k, shadow[k]) ELSE @[k]]]

Still(layers, ks) == {k \in ks : \E j \in DOMAIN layers : k \in DOMAIN layers[j].ops}

\* The keys no other prediction covers go back to the server's values, the others are laid anew.
RemoveLayer(c, id) ==
  LET at == {j \in DOMAIN c.layers : c.layers[j].id = id}
      first == CHOOSE i \in at : \A h \in at : i <= h
      ks == DOMAIN c.layers[first].ops
      layers == RemoveAt(c.layers, first)
      still == Still(layers, ks)
  IN  IF at = {} THEN c
      ELSE [c EXCEPT !.layers = layers, !.touched = @ \union ks,
                     !.shadow = PickOf(@, DOMAIN @ \ (ks \ still)),
                     !.entities = [k \in CacheKeys |-> IF k \in ks THEN Laid(layers, k, c.shadow[k]) ELSE @[k]]]
=============================================================================
